----------------------------- MODULE PagesProofs -----------------------------
(***************************************************************************)
(* What the web client's pages show, for every number of clients, sockets, *)
(* transactions, chapters, devices and messages: presence and the room,    *)
(* timestamp ordering, the hash of a story, the simulation page, the stats *)
(* for nerds, and one device's session.                                    *)
(***************************************************************************)
EXTENDS Realtime, DeviceSession, TimestampOrdering, StoryPage, ControlRoom, NerdsPage,
        SequenceTheorems, FiniteSetTheorems, WellFoundedInduction, TLAPS
-----------------------------------------------------------------------------
(* Presence: the device is counted online for its joined sockets that are  *)
(* still connected.                                                        *)

JoinedSockets == {s \in Socket : Joined(s)}

PresenceInv == TypeOK /\ online = Cardinality(JoinedSockets)

LEMMA JoinedFinite ==
  /\ IsFiniteSet(JoinedSockets) /\ Cardinality(JoinedSockets) \in Nat
  /\ Cardinality(JoinedSockets) <= Cardinality(Socket) /\ Cardinality(Socket) \in Nat
  <1>1. JoinedSockets \subseteq Socket /\ IsFiniteSet(Socket)
    BY RealtimeAssumption DEF JoinedSockets
  <1> HIDE DEF JoinedSockets
  <1> QED
    BY <1>1, FS_Subset, FS_CardinalityType

LEMMA InitPresence == Init => PresenceInv
  <1> SUFFICES ASSUME Init PROVE PresenceInv
    OBVIOUS
  <1>1. JoinedSockets = {}
    BY DEF Init, JoinedSockets, Joined, NoConn
  <1>2. Cardinality(JoinedSockets) = 0
    BY <1>1, FS_EmptySet, Zenon
  <1>3. TypeOK
    BY RealtimeAssumption, JoinedFinite
    DEF Init, TypeOK, NoConn, NoPush, Conn, Call
  <1> QED
    BY <1>2, <1>3 DEF Init, PresenceInv

(* One socket less is one socket fewer, one more is one more. *)
LEMMA OneJoins ==
  ASSUME NEW s \in Socket, s \notin JoinedSockets, JoinedSockets' = JoinedSockets \cup {s}
  PROVE  Cardinality(JoinedSockets') = Cardinality(JoinedSockets) + 1
  BY JoinedFinite, FS_AddElement, Zenon

LEMMA OneLeaves ==
  ASSUME NEW s \in Socket, s \in JoinedSockets, JoinedSockets' = JoinedSockets \ {s}
  PROVE  Cardinality(JoinedSockets') = Cardinality(JoinedSockets) - 1
  BY JoinedFinite, FS_RemoveElement, Zenon

(* A step that changes one socket changes its place among the joined only. *)
LEMMA OneSocket ==
  ASSUME socket \in [Socket -> Conn], NEW s \in Socket, NEW c \in Conn,
         socket' = [socket EXCEPT ![s] = c]
  PROVE  /\ socket' \in [Socket -> Conn]
         /\ \A r \in Socket : r # s => (Joined(r)' <=> Joined(r))
         /\ Joined(s)' <=> c.alive /\ c.stage = "joined" /\ c.client \in Panel
  BY DEF Joined

LEMMA AskTypes ==
  ASSUME push \in [Push -> Call], NEW to \in Socket \cup {NoSocket}, Ask(to)
  PROVE  push' \in [Push -> Call]
  <1>1. PICK p \in Push : push' = [push EXCEPT ![p] = [stage |-> "asked", to |-> to, version |-> 0]]
    BY DEF Ask
  <1>2. [stage |-> "asked", to |-> to, version |-> 0] \in Call
    BY RealtimeAssumption DEF Call
  <1> QED
    BY <1>1, <1>2, Zenon

LEMMA Nobody == NoPush \in Call /\ NoConn \in Conn
  BY RealtimeAssumption DEF NoPush, NoConn, Call, Conn
-----------------------------------------------------------------------------
(* A step that leaves the joined sockets and the counter alone. *)
LEMMA NobodyJoins ==
  ASSUME PresenceInv, \A r \in Socket : Joined(r)' <=> Joined(r), online' = online,
         version' \in 0..MaxVersion, socket' \in [Socket -> Conn], push' \in [Push -> Call],
         cur' \in [Client -> Socket \cup {NoSocket}], shown' \in [Client -> -1..MaxVersion],
         failed' \in -1..MaxVersion, drops' \in 0..MaxDrops
  PROVE  PresenceInv'
  <1>1. JoinedSockets' = JoinedSockets
    BY DEF JoinedSockets
  <1>2. TypeOK'
    BY DEF PresenceInv, TypeOK
  <1> QED
    BY <1>1, <1>2 DEF PresenceInv

LEMMA CommitPresence == PresenceInv /\ Commit => PresenceInv'
  <1> SUFFICES ASSUME PresenceInv, Commit PROVE PresenceInv'
    OBVIOUS
  <1>1. push' \in [Push -> Call]
    BY AskTypes DEF PresenceInv, TypeOK, Commit
  <1>2. version' \in 0..MaxVersion
    BY RealtimeAssumption DEF PresenceInv, TypeOK, Commit
  <1>3. UNCHANGED <<online, socket, cur, shown, failed, drops>>
    BY DEF Commit
  <1>4. \A r \in Socket : Joined(r)' <=> Joined(r)
    BY <1>3 DEF Joined
  <1> QED
    BY <1>1, <1>2, <1>3, <1>4, NobodyJoins DEF PresenceInv, TypeOK

LEMMA ReadPresence == ASSUME NEW p \in Push, PresenceInv, ReadSnapshot(p) PROVE PresenceInv'
  <1>1. push' \in [Push -> Call]
    BY DEF PresenceInv, TypeOK, ReadSnapshot, Call
  <1>2. UNCHANGED <<version, online, socket, cur, shown, failed, drops>>
    BY DEF ReadSnapshot
  <1>3. \A r \in Socket : Joined(r)' <=> Joined(r)
    BY <1>2 DEF Joined
  <1> QED
    BY <1>1, <1>2, <1>3, NobodyJoins DEF PresenceInv, TypeOK

LEMMA FaultTypes == ASSUME TypeOK, Fault PROVE drops' \in 0..MaxDrops
  BY RealtimeAssumption DEF TypeOK, Fault

LEMMA ReadFailsPresence == ASSUME NEW p \in Push, PresenceInv, ReadFails(p) PROVE PresenceInv'
  <1>1. push' \in [Push -> Call]
    BY Nobody DEF PresenceInv, TypeOK, ReadFails
  <1>2. UNCHANGED <<version, online, socket, cur, shown>> /\ failed' \in -1..MaxVersion
    BY RealtimeAssumption DEF PresenceInv, TypeOK, ReadFails
  <1>3. drops' \in 0..MaxDrops
    BY FaultTypes DEF PresenceInv, ReadFails
  <1>4. \A r \in Socket : Joined(r)' <=> Joined(r)
    BY <1>2 DEF Joined
  <1> QED
    BY <1>1, <1>2, <1>3, <1>4, NobodyJoins DEF PresenceInv, TypeOK

LEMMA EmitPresence == ASSUME NEW p \in Push, PresenceInv, Emit(p) PROVE PresenceInv'
  <1>1. push' \in [Push -> Call]
    BY Nobody DEF PresenceInv, TypeOK, Emit
  <1>2. UNCHANGED <<version, online, socket, cur, failed, drops>>
    BY DEF Emit
  <1>3. push[p].version \in -1..MaxVersion
    BY RealtimeAssumption DEF PresenceInv, TypeOK, Call
  <1>4. shown' \in [Client -> -1..MaxVersion]
    BY <1>3 DEF PresenceInv, TypeOK, Emit, Apply
  <1>5. \A r \in Socket : Joined(r)' <=> Joined(r)
    BY <1>2 DEF Joined
  <1> QED
    BY <1>1, <1>2, <1>4, <1>5, NobodyJoins DEF PresenceInv, TypeOK

LEMMA ConnectPresence == ASSUME NEW c \in Client, PresenceInv, Connect(c) PROVE PresenceInv'
  <1>1. PICK s \in Socket :
        /\ socket[s] = NoConn /\ cur' = [cur EXCEPT ![c] = s]
        /\ socket' = [socket EXCEPT ![s] = [stage |-> "open", client |-> c, alive |-> TRUE]]
        /\ UNCHANGED <<version, online, push, shown, failed, drops>>
    BY DEF Connect
  <1>2. [stage |-> "open", client |-> c, alive |-> TRUE] \in Conn
    BY DEF Conn
  <1>3. ~Joined(s)
    BY <1>1 DEF Joined, NoConn
  <1>4. socket' \in [Socket -> Conn] /\ \A r \in Socket : Joined(r)' <=> Joined(r)
    BY <1>1, <1>2, <1>3, OneSocket DEF PresenceInv, TypeOK
  <1> QED
    BY <1>1, <1>4, NobodyJoins DEF PresenceInv, TypeOK

LEMMA EnterRoomPresence == ASSUME NEW s \in Socket, PresenceInv, EnterRoom(s) PROVE PresenceInv'
  <1>1. socket' = [socket EXCEPT ![s] = [socket[s] EXCEPT !.stage = "room"]]
    BY DEF EnterRoom
  <1>2. [socket[s] EXCEPT !.stage = "room"] \in Conn /\ [socket[s] EXCEPT !.stage = "room"].stage = "room"
    BY DEF PresenceInv, TypeOK, Conn
  <1>3. ~Joined(s)
    BY DEF Joined, EnterRoom
  <1>4. socket' \in [Socket -> Conn] /\ \A r \in Socket : Joined(r)' <=> Joined(r)
    BY <1>1, <1>2, <1>3, OneSocket DEF PresenceInv, TypeOK
  <1> QED
    BY <1>4, NobodyJoins DEF PresenceInv, TypeOK, EnterRoom

LEMMA JoinFailsPresence == ASSUME NEW s \in Socket, PresenceInv, JoinFails(s) PROVE PresenceInv'
  <1> DEFINE c == IF socket[s].alive THEN [socket[s] EXCEPT !.stage = "mute"] ELSE NoConn
  <1>1. socket' = [socket EXCEPT ![s] = c]
    BY DEF JoinFails
  <1>2. c \in Conn /\ c.stage # "joined"
    BY Nobody DEF PresenceInv, TypeOK, Conn, NoConn
  <1>3. ~Joined(s)
    BY DEF Joined, JoinFails
  <1> HIDE DEF c
  <1>4. socket' \in [Socket -> Conn] /\ \A r \in Socket : Joined(r)' <=> Joined(r)
    BY <1>1, <1>2, <1>3, OneSocket DEF PresenceInv, TypeOK
  <1>5. drops' \in 0..MaxDrops
    BY FaultTypes DEF PresenceInv, JoinFails
  <1> QED
    BY <1>4, <1>5, NobodyJoins DEF PresenceInv, TypeOK, JoinFails

LEMMA ConnectionLostPresence == ASSUME NEW c \in Client, PresenceInv, ConnectionLost(c) PROVE PresenceInv'
  <1>1. UNCHANGED <<version, online, socket, push, shown, failed>>
    BY DEF ConnectionLost
  <1>2. cur' \in [Client -> Socket \cup {NoSocket}]
    BY DEF PresenceInv, TypeOK, ConnectionLost
  <1>3. drops' \in 0..MaxDrops
    BY FaultTypes DEF PresenceInv, ConnectionLost
  <1>4. \A r \in Socket : Joined(r)' <=> Joined(r)
    BY <1>1 DEF Joined
  <1> QED
    BY <1>1, <1>2, <1>3, <1>4, NobodyJoins DEF PresenceInv, TypeOK

(* A step after which the counter is the joined sockets again. *)
LEMMA Counted ==
  ASSUME PresenceInv, online' = Cardinality(JoinedSockets'),
         socket' \in [Socket -> Conn], push' \in [Push -> Call],
         cur' \in [Client -> Socket \cup {NoSocket}], drops' \in 0..MaxDrops,
         UNCHANGED <<version, shown, failed>>
  PROVE  PresenceInv'
  <1>1. JoinedSockets' \subseteq Socket /\ IsFiniteSet(Socket)
    BY RealtimeAssumption DEF JoinedSockets
  <1>2. online' \in 0..Cardinality(Socket)
    <2> DEFINE J == JoinedSockets'
    <2>1. J \subseteq Socket /\ online' = Cardinality(J)
      BY <1>1
    <2> HIDE DEF J
    <2>2. Cardinality(J) <= Cardinality(Socket) /\ Cardinality(J) \in Nat /\ Cardinality(Socket) \in Nat
      BY <1>1, <2>1, FS_Subset, FS_CardinalityType
    <2> QED
      BY <2>1, <2>2
  <1>3. TypeOK'
    BY <1>2 DEF PresenceInv, TypeOK
  <1> QED
    BY <1>3 DEF PresenceInv

LEMMA JoinDonePresence == ASSUME NEW s \in Socket, PresenceInv, JoinDone(s) PROVE PresenceInv'
  <1> DEFINE c == [socket[s] EXCEPT !.stage = "joined"]
  <1>1. ~Joined(s) /\ UNCHANGED <<version, cur, shown, failed, drops>>
    BY DEF Joined, JoinDone
  <1>2. CASE ~socket[s].alive
    <2>1. socket' = [socket EXCEPT ![s] = NoConn] /\ UNCHANGED <<online, push>>
      BY <1>2 DEF JoinDone
    <2>2. NoConn \in Conn /\ NoConn.stage # "joined"
      BY Nobody DEF NoConn
    <2>3. socket' \in [Socket -> Conn] /\ \A r \in Socket : Joined(r)' <=> Joined(r)
      BY <1>1, <2>1, <2>2, OneSocket DEF PresenceInv, TypeOK
    <2> QED
      BY <1>1, <2>1, <2>3, NobodyJoins DEF PresenceInv, TypeOK
  <1>3. CASE socket[s].alive
    <2>1. /\ socket' = [socket EXCEPT ![s] = c]
          /\ online' = IF socket[s].client \in Panel THEN online + 1 ELSE online
          /\ Ask(NoSocket) \/ Ask(s)
      BY <1>3 DEF JoinDone
    <2>2. c \in Conn /\ c.alive /\ c.stage = "joined" /\ c.client = socket[s].client
      BY <1>3 DEF PresenceInv, TypeOK, Conn
    <2> HIDE DEF c
    <2>3. /\ socket' \in [Socket -> Conn] /\ \A r \in Socket : r # s => (Joined(r)' <=> Joined(r))
          /\ Joined(s)' <=> socket[s].client \in Panel
      BY <2>1, <2>2, OneSocket DEF PresenceInv, TypeOK
    <2>4. push' \in [Push -> Call]
      BY <2>1, AskTypes DEF PresenceInv, TypeOK
    <2>5. CASE socket[s].client \in Panel
      <3>1. s \notin JoinedSockets /\ JoinedSockets' = JoinedSockets \cup {s}
        BY <1>1, <2>3, <2>5 DEF JoinedSockets
      <3>2. Cardinality(JoinedSockets') = Cardinality(JoinedSockets) + 1
        BY <3>1, OneJoins
      <3>3. online' = Cardinality(JoinedSockets')
        BY <3>2, <2>1, <2>5 DEF PresenceInv
      <3> QED
        BY <1>1, <2>3, <2>4, <3>3, Counted DEF PresenceInv, TypeOK
    <2>6. CASE socket[s].client \notin Panel
      <3>1. \A r \in Socket : Joined(r)' <=> Joined(r)
        BY <1>1, <2>3, <2>6
      <3>2. online' = online
        BY <2>1, <2>6
      <3> QED
        BY <1>1, <2>3, <2>4, <3>1, <3>2, NobodyJoins DEF PresenceInv, TypeOK
    <2> QED
      BY <2>5, <2>6
  <1> QED
    BY <1>2, <1>3

LEMMA ServerNoticesPresence == ASSUME NEW s \in Socket, PresenceInv, ServerNotices(s) PROVE PresenceInv'
  <1> DEFINE c == IF socket[s].stage \in {"joined", "mute"} THEN NoConn ELSE [socket[s] EXCEPT !.alive = FALSE]
  <1>1. socket' = [socket EXCEPT ![s] = c] /\ UNCHANGED <<version, cur, shown, failed, drops>>
    BY DEF ServerNotices
  <1>2. c \in Conn /\ ~c.alive
    BY Nobody DEF PresenceInv, TypeOK, Conn, NoConn
  <1> HIDE DEF c
  <1>3. /\ socket' \in [Socket -> Conn] /\ \A r \in Socket : r # s => (Joined(r)' <=> Joined(r))
        /\ ~Joined(s)'
    BY <1>1, <1>2, OneSocket DEF PresenceInv, TypeOK
  <1>4. CASE Joined(s)
    <2>1. online' = online - 1 /\ (Ask(NoSocket) \/ UNCHANGED push)
      BY <1>4 DEF ServerNotices
    <2>2. push' \in [Push -> Call]
      BY <2>1, AskTypes DEF PresenceInv, TypeOK
    <2>3. s \in JoinedSockets /\ JoinedSockets' = JoinedSockets \ {s}
      BY <1>3, <1>4 DEF JoinedSockets
    <2>4. Cardinality(JoinedSockets') = Cardinality(JoinedSockets) - 1
      BY <2>3, OneLeaves
    <2>5. online' = Cardinality(JoinedSockets')
      BY <2>1, <2>4 DEF PresenceInv
    <2> QED
      BY <1>1, <1>3, <2>2, <2>5, Counted DEF PresenceInv, TypeOK
  <1>5. CASE ~Joined(s)
    <2>1. UNCHANGED <<online, push>> /\ \A r \in Socket : Joined(r)' <=> Joined(r)
      BY <1>3, <1>5 DEF ServerNotices
    <2> QED
      BY <1>1, <1>3, <2>1, NobodyJoins DEF PresenceInv, TypeOK
  <1> QED
    BY <1>4, <1>5

LEMMA RestartPresence == PresenceInv /\ Restart => PresenceInv'
  <1> SUFFICES ASSUME PresenceInv, Restart PROVE PresenceInv'
    OBVIOUS
  <1>1. online' = 0 /\ socket' = [s \in Socket |-> NoConn] /\ UNCHANGED <<version, shown, failed>>
    BY DEF Restart
  <1>2. socket' \in [Socket -> Conn] /\ push' \in [Push -> Call]
    BY Nobody, <1>1 DEF Restart
  <1>3. cur' \in [Client -> Socket \cup {NoSocket}]
    BY DEF Restart
  <1>4. drops' \in 0..MaxDrops
    BY FaultTypes DEF PresenceInv, Restart
  <1>5. JoinedSockets' = {}
    BY <1>1 DEF JoinedSockets, Joined, NoConn
  <1>6. Cardinality(JoinedSockets') = 0
    BY <1>5, FS_EmptySet, Zenon
  <1> QED
    BY <1>1, <1>2, <1>3, <1>4, <1>6, Counted

LEMMA NextPresence == PresenceInv /\ [Next]_vars => PresenceInv'
  <1> SUFFICES ASSUME PresenceInv, [Next]_vars PROVE PresenceInv'
    OBVIOUS
  <1>1. CASE UNCHANGED vars
    <2>1. JoinedSockets' = JoinedSockets
      BY <1>1 DEF vars, JoinedSockets, Joined
    <2> QED
      BY <1>1, <2>1 DEF vars, PresenceInv, TypeOK
  <1>2. CASE Next
    BY <1>2, CommitPresence, ReadPresence, ReadFailsPresence, EmitPresence, ConnectPresence, EnterRoomPresence,
       JoinFailsPresence, JoinDonePresence, ServerNoticesPresence, ConnectionLostPresence, RestartPresence
    DEF Next, Work
  <1> QED
    BY <1>1, <1>2

(* Type correctness of the room, for every number of connections. *)
THEOREM RealtimeTypes == Spec => []TypeOK
  <1>1. PresenceInv => TypeOK
    BY DEF PresenceInv
  <1> QED
    BY <1>1, InitPresence, NextPresence, PTL DEF Spec

(* The device counts as online exactly for its joined sockets, although a  *)
(* join waits for the database while its socket may go (presence.ts).      *)
THEOREM OnlineCounts == Spec => []OnlineIsConnected
  <1>1. PresenceInv => OnlineIsConnected
    BY DEF PresenceInv, OnlineIsConnected, JoinedSockets
  <1> QED
    BY <1>1, InitPresence, NextPresence, PTL DEF Spec

-----------------------------------------------------------------------------
(* The room: whoever is connected and does not show the committed version  *)
(* is about to be told, by a push that has not read yet or has read it, or *)
(* by the first snapshot of a join that is under way.                      *)

Coming(p, to) ==
  /\ push[p].to \in {NoSocket, to}
  /\ \/ push[p].stage = "asked"
     \/ push[p].stage = "read" /\ push[p].version = version

InTouch(c) ==
  \/ shown[c] = version
  \/ failed = version
  \/ socket[cur[c]].stage \in {"open", "room", "mute"}
  \/ \E p \in Push : Coming(p, cur[c])

Attached(c) ==
  cur[c] # NoSocket =>
    /\ socket[cur[c]].alive /\ socket[cur[c]].client = c /\ socket[cur[c]].stage # "free"
    /\ InTouch(c)

RoomInv ==
  /\ \A c \in Client : shown[c] <= version
  /\ \A p \in Push : push[p].version <= version
  /\ \A c \in Client : Attached(c)

RoomTypes == PresenceInv /\ RoomInv

LEMMA RoomNumbers ==
  ASSUME PresenceInv
  PROVE  /\ version \in Nat /\ \A c \in Client : shown[c] \in Int
         /\ \A p \in Push : push[p] \in Call /\ push[p].version \in Nat
         /\ \A c \in Client : cur[c] \in Socket \cup {NoSocket}
         /\ \A s \in Socket : socket[s] \in Conn
  BY RealtimeAssumption DEF PresenceInv, TypeOK, Call

(* A call that begins disturbs none that is under way. *)
LEMMA AskAdds ==
  ASSUME push \in [Push -> Call], NEW to, Ask(to)
  PROVE  /\ \E p \in Push : push'[p].stage = "asked" /\ push'[p].to = to
         /\ \A p \in Push : \/ push'[p] = push[p]
                            \/ push[p].stage = "none" /\ push'[p].version = 0
  <1>1. PICK p \in Push :
          /\ push[p].stage = "none"
          /\ push' = [push EXCEPT ![p] = [stage |-> "asked", to |-> to, version |-> 0]]
    BY DEF Ask
  <1> QED
    BY <1>1

(* What a client is about to be told, it still is. *)
LEMMA StillTold ==
  ASSUME RoomInv, NEW c \in Client, cur'[c] = cur[c], shown'[c] = shown[c], failed' = failed,
         version' = version, cur[c] # NoSocket => socket'[cur[c]] = socket[cur[c]],
         \A p \in Push : push'[p] = push[p] \/ push[p].stage = "none"
  PROVE  Attached(c)'
  <1>1. Attached(c)
    BY DEF RoomInv
  <1>2. \A p \in Push : Coming(p, cur[c]) => Coming(p, cur[c])'
    BY DEF Coming
  <1> QED
    BY <1>1, <1>2 DEF Attached, InTouch

LEMMA CommitTells == RoomTypes /\ Commit => RoomInv'
  <1> SUFFICES ASSUME RoomTypes, Commit PROVE RoomInv'
    OBVIOUS
  <1>1. /\ version' = version + 1 /\ Ask(NoSocket) /\ version \in Nat
        /\ UNCHANGED <<online, socket, cur, shown, failed, drops>>
    BY RoomNumbers DEF RoomTypes, Commit
  <1>2. PICK p \in Push : push'[p].stage = "asked" /\ push'[p].to = NoSocket
    BY <1>1, AskAdds DEF RoomTypes, PresenceInv, TypeOK
  <1>3. \A c \in Client : Coming(p, cur[c])'
    BY <1>2 DEF Coming
  <1>4. \A c \in Client : Attached(c)'
    BY <1>1, <1>3 DEF Attached, InTouch, RoomTypes, RoomInv
  <1>5. \A c \in Client : shown'[c] <= version'
    BY <1>1, RoomNumbers DEF RoomTypes, RoomInv
  <1>6. \A q \in Push : push'[q].version <= version'
    <2>1. \A q \in Push : push[q].version \in Nat /\ push[q].version <= version
      BY RoomNumbers DEF RoomTypes, RoomInv
    <2>2. \A q \in Push : push'[q].version \in {0, push[q].version}
      BY <1>1, AskAdds DEF RoomTypes, PresenceInv, TypeOK
    <2> QED
      BY <1>1, <2>1, <2>2
  <1> QED
    BY <1>4, <1>5, <1>6 DEF RoomInv

(* Steps that leave the version and what is shown alone. *)
LEMMA QuietTells ==
  ASSUME RoomTypes, UNCHANGED <<version, shown>>, \A c \in Client : Attached(c)',
         \A p \in Push : push'[p].version \in {0, version, push[p].version}
  PROVE  RoomInv'
  <1>1. version \in Nat /\ \A p \in Push : push[p].version \in Nat /\ push[p].version <= version
    BY RoomNumbers DEF RoomTypes, RoomInv
  <1>2. \A p \in Push : push'[p].version <= version
    BY <1>1
  <1> QED
    BY <1>2 DEF RoomTypes, RoomInv

LEMMA ReadTells == ASSUME NEW p \in Push, RoomTypes, ReadSnapshot(p) PROVE RoomInv'
  <1>1. /\ push[p].stage = "asked" /\ UNCHANGED <<version, online, socket, cur, shown, failed, drops>>
        /\ push \in [Push -> Call]
    BY DEF ReadSnapshot, RoomTypes, PresenceInv, TypeOK
  <1>2. /\ push'[p].stage = "read" /\ push'[p].version = version /\ push'[p].to = push[p].to
        /\ \A q \in Push \ {p} : push'[q] = push[q]
    BY <1>1 DEF ReadSnapshot, Call
  <1>3. ASSUME NEW c \in Client, NEW q \in Push, Coming(q, cur[c])
        PROVE  Coming(q, cur[c])'
    BY <1>1, <1>2, <1>3 DEF Coming
  <1>4. \A c \in Client : Attached(c)'
    BY <1>1, <1>3 DEF Attached, InTouch, RoomTypes, RoomInv
  <1> QED
    BY <1>1, <1>2, <1>4, QuietTells

LEMMA ReadFailsTells == ASSUME NEW p \in Push, RoomTypes, ReadFails(p) PROVE RoomInv'
  <1>1. /\ failed' = version /\ UNCHANGED <<version, online, socket, cur, shown>>
        /\ push' = [push EXCEPT ![p] = NoPush] /\ push \in [Push -> Call]
    BY DEF ReadFails, RoomTypes, PresenceInv, TypeOK
  <1>2. \A q \in Push : push'[q].version \in {0, push[q].version}
    BY <1>1 DEF NoPush
  <1>3. \A c \in Client : Attached(c)'
    BY <1>1 DEF Attached, InTouch, RoomTypes, RoomInv
  <1> QED
    BY <1>1, <1>2, <1>3, QuietTells

LEMMA EmitTells == ASSUME NEW p \in Push, RoomTypes, Emit(p) PROVE RoomInv'
  <1> DEFINE to == IF push[p].to = NoSocket THEN InRoom ELSE {s \in {push[p].to} : socket[s].alive}
  <1>1. /\ push[p].stage = "read" /\ UNCHANGED <<version, online, socket, cur, failed, drops>>
        /\ push' = [push EXCEPT ![p] = NoPush] /\ push \in [Push -> Call]
        /\ shown' = [c \in Client |-> IF cur[c] \in to THEN Apply(shown[c], push[p].version) ELSE shown[c]]
    BY DEF Emit, RoomTypes, PresenceInv, TypeOK
  <1>2. version \in Nat /\ push[p].version \in Nat /\ push[p].version <= version
    BY RoomNumbers DEF RoomTypes, RoomInv
  <1>3. ASSUME NEW c \in Client
        PROVE  /\ shown'[c] <= version
               /\ shown[c] = version => shown'[c] = version
               /\ cur[c] \in to /\ push[p].version = version => shown'[c] = version
    <2>1. shown[c] \in Int /\ shown[c] <= version
      BY RoomNumbers DEF RoomTypes, RoomInv
    <2>2. shown'[c] = shown[c] \/ shown'[c] = Apply(shown[c], push[p].version)
      BY <1>1
    <2>3. cur[c] \in to => shown'[c] = Apply(shown[c], push[p].version)
      BY <1>1
    <2> HIDE DEF to
    <2> QED
      BY <1>2, <2>1, <2>2, <2>3 DEF Apply
  <1>4. ASSUME NEW c \in Client
        PROVE  Attached(c)'
    <2>1. Attached(c)
      BY DEF RoomTypes, RoomInv
    <2>2. CASE cur[c] = NoSocket
      BY <1>1, <2>2 DEF Attached
    <2>3. CASE cur[c] # NoSocket /\ Coming(p, cur[c]) /\ socket[cur[c]].stage \notin {"open", "room", "mute"}
      <3>1. push[p].version = version
        BY <1>1, <2>3 DEF Coming
      <3>2. cur[c] \in Socket /\ socket[cur[c]].alive /\ socket[cur[c]].stage = "joined"
        BY <2>1, <2>3, RoomNumbers DEF Attached, RoomTypes, Conn
      <3>3. cur[c] \in to
        BY <2>3, <3>2 DEF Coming, InRoom
      <3>4. shown'[c] = version
        BY <1>3, <3>1, <3>3
      <3> QED
        BY <1>1, <2>1, <2>3, <3>4 DEF Attached, InTouch
    <2>4. CASE cur[c] # NoSocket /\ ~Coming(p, cur[c])
      <3>1. \A q \in Push : Coming(q, cur[c]) => Coming(q, cur[c])'
        BY <1>1, <2>4 DEF Coming
      <3>2. shown[c] = version => shown'[c] = version'
        BY <1>1, <1>3
      <3> QED
        BY <1>1, <2>1, <2>4, <3>1, <3>2 DEF Attached, InTouch
    <2>5. CASE cur[c] # NoSocket /\ socket[cur[c]].stage \in {"open", "room", "mute"}
      BY <1>1, <2>1, <2>5 DEF Attached, InTouch
    <2> QED
      BY <2>2, <2>3, <2>4, <2>5
  <1>5. \A q \in Push : push'[q].version <= version
    <2>1. \A q \in Push : push'[q].version \in {0, push[q].version}
      BY <1>1 DEF NoPush
    <2> QED
      BY <1>2, <2>1, RoomNumbers DEF RoomTypes, RoomInv
  <1>6. \A c \in Client : shown'[c] <= version
    BY <1>3
  <1> HIDE DEF to
  <1> QED
    BY <1>1, <1>4, <1>5, <1>6 DEF RoomInv

LEMMA ConnectTells == ASSUME NEW c \in Client, RoomTypes, Connect(c) PROVE RoomInv'
  <1>1. PICK s \in Socket :
        /\ socket[s] = NoConn /\ cur' = [cur EXCEPT ![c] = s]
        /\ socket' = [socket EXCEPT ![s] = [stage |-> "open", client |-> c, alive |-> TRUE]]
        /\ UNCHANGED <<version, online, push, shown, failed, drops>>
    BY DEF Connect
  <1>2. socket \in [Socket -> Conn] /\ cur \in [Client -> Socket \cup {NoSocket}]
    BY DEF RoomTypes, PresenceInv, TypeOK
  <1>3. Attached(c)'
    BY <1>1, <1>2 DEF Attached, InTouch
  <1>4. ASSUME NEW d \in Client, d # c
        PROVE  Attached(d)'
    <2>1. cur'[d] = cur[d] /\ (cur[d] # NoSocket => cur[d] # s /\ cur[d] \in Socket)
      BY <1>1, <1>2, <1>4 DEF RoomTypes, RoomInv, Attached, NoConn
    <2>2. cur[d] # NoSocket => socket'[cur[d]] = socket[cur[d]]
      BY <1>1, <1>2, <2>1
    <2> QED
      BY <1>1, <2>1, <2>2, StillTold DEF RoomTypes
  <1>5. \A d \in Client : Attached(d)'
    BY <1>3, <1>4
  <1> QED
    BY <1>1, <1>5, QuietTells

(* The socket s alone changes: who has another one is told as before. *)
LEMMA OtherSockets ==
  ASSUME RoomTypes, NEW s \in Socket, NEW r, socket' = [socket EXCEPT ![s] = r],
         UNCHANGED <<version, cur, shown, failed>>,
         \A p \in Push : push'[p] = push[p] \/ push[p].stage = "none",
         NEW d \in Client, cur[d] # s
  PROVE  Attached(d)'
  <1>1. socket \in [Socket -> Conn] /\ cur[d] \in Socket \cup {NoSocket}
    BY DEF RoomTypes, PresenceInv, TypeOK
  <1>2. cur[d] # NoSocket => socket'[cur[d]] = socket[cur[d]]
    BY <1>1
  <1> QED
    BY <1>2, StillTold DEF RoomTypes

LEMMA EnterRoomTells == ASSUME NEW s \in Socket, RoomTypes, EnterRoom(s) PROVE RoomInv'
  <1> DEFINE r == [socket[s] EXCEPT !.stage = "room"]
  <1>1. socket' = [socket EXCEPT ![s] = r] /\ UNCHANGED <<version, online, push, cur, shown, failed, drops>>
    BY DEF EnterRoom
  <1>2. r.stage = "room" /\ r.alive = socket[s].alive /\ r.client = socket[s].client
        /\ socket \in [Socket -> Conn]
    BY DEF RoomTypes, PresenceInv, TypeOK, Conn
  <1> HIDE DEF r
  <1>3. ASSUME NEW d \in Client
        PROVE  Attached(d)'
    <2>1. CASE cur[d] = s
      BY <1>1, <1>2, <2>1 DEF Attached, InTouch, RoomTypes, RoomInv
    <2> QED
      BY <1>1, <2>1, OtherSockets
  <1> QED
    BY <1>1, <1>3, QuietTells

LEMMA JoinFailsTells == ASSUME NEW s \in Socket, RoomTypes, JoinFails(s) PROVE RoomInv'
  <1> DEFINE r == IF socket[s].alive THEN [socket[s] EXCEPT !.stage = "mute"] ELSE NoConn
  <1>1. socket' = [socket EXCEPT ![s] = r] /\ UNCHANGED <<version, online, push, cur, shown, failed>>
    BY DEF JoinFails
  <1>2. socket[s].alive => r.stage = "mute" /\ r.alive = socket[s].alive /\ r.client = socket[s].client
    BY DEF RoomTypes, PresenceInv, TypeOK, Conn
  <1> HIDE DEF r
  <1>3. ASSUME NEW d \in Client
        PROVE  Attached(d)'
    <2>1. CASE cur[d] = s
      BY <1>1, <1>2, <2>1, RealtimeAssumption DEF Attached, InTouch, RoomTypes, RoomInv, PresenceInv, TypeOK
    <2> QED
      BY <1>1, <2>1, OtherSockets
  <1> QED
    BY <1>1, <1>3, QuietTells

LEMMA JoinDoneTells == ASSUME NEW s \in Socket, RoomTypes, JoinDone(s) PROVE RoomInv'
  <1>0. /\ socket \in [Socket -> Conn] /\ push \in [Push -> Call]
        /\ UNCHANGED <<version, cur, shown, failed, drops>>
    BY DEF JoinDone, RoomTypes, PresenceInv, TypeOK
  <1>1. CASE ~socket[s].alive
    <2>1. socket' = [socket EXCEPT ![s] = NoConn] /\ UNCHANGED push
      BY <1>1 DEF JoinDone
    <2>2. \A d \in Client : cur[d] # s
      BY <1>1, RealtimeAssumption DEF RoomTypes, RoomInv, Attached
    <2>3. \A d \in Client : Attached(d)'
      BY <1>0, <2>1, <2>2, OtherSockets
    <2> QED
      BY <1>0, <2>1, <2>3, QuietTells
  <1>2. CASE socket[s].alive
    <2> DEFINE r == [socket[s] EXCEPT !.stage = "joined"]
    <2>1. socket' = [socket EXCEPT ![s] = r] /\ (Ask(NoSocket) \/ Ask(s))
      BY <1>2 DEF JoinDone
    <2>2. r.stage = "joined" /\ r.alive = socket[s].alive /\ r.client = socket[s].client
      BY <1>0 DEF Conn
    <2> HIDE DEF r
    <2>3. PICK p \in Push : push'[p].stage = "asked" /\ push'[p].to \in {NoSocket, s}
      BY <1>0, <2>1, AskAdds
    <2>4. \A q \in Push : push'[q] = push[q] \/ (push[q].stage = "none" /\ push'[q].version = 0)
      BY <1>0, <2>1, AskAdds
    <2>5. ASSUME NEW d \in Client
          PROVE  Attached(d)'
      <3>1. CASE cur[d] = s
        <4>1. Coming(p, cur[d])'
          BY <1>0, <2>3, <3>1 DEF Coming
        <4> QED
          BY <1>0, <2>1, <2>2, <3>1, <4>1 DEF Attached, InTouch, RoomTypes, RoomInv
      <3> QED
        BY <1>0, <2>1, <2>4, <3>1, OtherSockets
    <2> QED
      BY <1>0, <2>4, <2>5, QuietTells
  <1> QED
    BY <1>1, <1>2

LEMMA ServerNoticesTells == ASSUME NEW s \in Socket, RoomTypes, ServerNotices(s) PROVE RoomInv'
  <1> DEFINE r == IF socket[s].stage \in {"joined", "mute"} THEN NoConn ELSE [socket[s] EXCEPT !.alive = FALSE]
  <1>1. /\ socket' = [socket EXCEPT ![s] = r] /\ UNCHANGED <<version, cur, shown, failed, drops>>
        /\ socket[s].alive /\ cur[socket[s].client] # s
        /\ (Ask(NoSocket) \/ UNCHANGED push)
    BY DEF ServerNotices
  <1> HIDE DEF r
  <1>2. \A d \in Client : cur[d] # s
    BY <1>1, RealtimeAssumption DEF RoomTypes, RoomInv, Attached
  <1>3. \A q \in Push : push'[q] = push[q] \/ (push[q].stage = "none" /\ push'[q].version = 0)
    BY <1>1, AskAdds DEF RoomTypes, PresenceInv, TypeOK
  <1>4. \A d \in Client : Attached(d)'
    BY <1>1, <1>2, <1>3, OtherSockets
  <1> QED
    BY <1>1, <1>3, <1>4, QuietTells

LEMMA ConnectionLostTells == ASSUME NEW c \in Client, RoomTypes, ConnectionLost(c) PROVE RoomInv'
  <1>1. cur' = [cur EXCEPT ![c] = NoSocket] /\ UNCHANGED <<version, online, socket, push, shown, failed>>
        /\ cur \in [Client -> Socket \cup {NoSocket}]
    BY DEF ConnectionLost, RoomTypes, PresenceInv, TypeOK
  <1>2. ASSUME NEW d \in Client
        PROVE  Attached(d)'
    <2>1. CASE d = c
      BY <1>1, <2>1 DEF Attached
    <2>2. CASE d # c
      BY <1>1, <2>2, StillTold DEF RoomTypes
    <2> QED
      BY <2>1, <2>2
  <1> QED
    BY <1>1, <1>2, QuietTells

LEMMA RestartTells == RoomTypes /\ Restart => RoomInv'
  <1> SUFFICES ASSUME RoomTypes, Restart PROVE RoomInv'
    OBVIOUS
  <1>1. /\ UNCHANGED <<version, shown, failed>>
        /\ \A c \in Client : cur'[c] = NoSocket
        /\ \A p \in Push : push'[p].version = 0
    BY DEF Restart, NoPush
  <1> QED
    BY <1>1, QuietTells DEF Attached

LEMMA NextTells == RoomTypes /\ [Next]_vars => RoomInv'
  <1> SUFFICES ASSUME RoomTypes, [Next]_vars PROVE RoomInv'
    OBVIOUS
  <1>1. CASE UNCHANGED vars
    BY <1>1, StillTold, QuietTells DEF vars, RoomTypes
  <1>2. CASE Next
    BY <1>2, CommitTells, ReadTells, ReadFailsTells, EmitTells, ConnectTells, EnterRoomTells,
       JoinFailsTells, JoinDoneTells, ServerNoticesTells, ConnectionLostTells, RestartTells
    DEF Next, Work
  <1> QED
    BY <1>1, <1>2

LEMMA InitTells == Init => RoomInv
  BY DEF Init, RoomInv, Attached, NoPush

(* versionedStore.ts, socket.ts, the safety half of CatchesUp: once no     *)
(* push is under way, every client that has joined and is connected shows  *)
(* the committed state, whatever order the snapshots were read and emitted *)
(* in and whatever was lost, unless a read at this very version failed.    *)
QuietRoomShows ==
  (\A p \in Push : push[p].stage = "none") =>
    \A c \in Client :
      cur[c] # NoSocket /\ socket[cur[c]].stage = "joined" => shown[c] = version \/ failed = version

THEOREM QuietRoomIsCurrent == Spec => []QuietRoomShows
  <1>1. RoomTypes /\ [Next]_vars => RoomTypes'
    BY NextPresence, NextTells DEF RoomTypes
  <1>2. RoomTypes => QuietRoomShows
    BY DEF RoomTypes, RoomInv, Attached, InTouch, Coming, QuietRoomShows
  <1>3. Init => RoomTypes
    BY InitPresence, InitTells DEF RoomTypes
  <1> QED
    BY <1>1, <1>2, <1>3, PTL DEF Spec

-----------------------------------------------------------------------------
(* One device and its server: whatever names a session names one that was  *)
(* granted, and what is over stays over.                                   *)

(* The server streams the device's session s. *)
Streams(s) == Alive /\ row.id = s

(* A request of a button that the page still waits for. *)
OfButton(r) == r.kind \in {"claim", "pause", "release"} /\ r.is # "unheard"

RowRecord == [id : Nat, status : {"none", "PLAYING", "PAUSED", "OVER"}, left : Nat]
Request == [kind : RequestKind, session : Nat, is : {"sent", "unheard", "ok", "refused"}]

(* What the server has granted, and what the page, the pushes and the      *)
(* answers name of it.                                                     *)
GrantedInv ==
  /\ row \in RowRecord
  /\ row.id = NoSession => row.status = "none"
  /\ phase \in {"idle", "playing", "paused", "stopped"}
  /\ sid \in 0 .. row.id /\ (phase = "playing" => sid # NoSession)
  /\ snapshot.mine \in 0 .. row.id
  /\ lost \subseteq 1 .. row.id
  /\ requests \subseteq Request
  /\ \A r \in requests : r.session <= row.id /\ (r.kind # "claim" \/ r.is = "ok" => r.session # NoSession)

(* A push or a refused heartbeat names a session that is not streamed. *)
ToldInv ==
  /\ \A s \in lost : ~Streams(s)
  /\ \A r \in requests : r.kind = "beat" /\ r.is = "refused" => ~Streams(r.session)

(* busy: one button request at a time. *)
ButtonInv ==
  /\ \A r \in requests : OfButton(r) => busy
  /\ \A q, r \in requests : OfButton(q) /\ OfButton(r) => q = r

DeviceInv == GrantedInv /\ ToldInv /\ ButtonInv

EndsForGood == \A s \in 1 .. row.id : ~Streams(s) => ~Streams(s)'

LEMMA DeviceInitInv == DeviceInit => DeviceInv
  <1> SUFFICES ASSUME DeviceInit PROVE DeviceInv
    OBVIOUS
  <1>1. row \in RowRecord /\ row.id = 0 /\ row.status = "none" /\ snapshot.mine = 0
    BY DEF DeviceInit, NoRow, NoSession, NoSessions, RowRecord
  <1>2. GrantedInv
    BY <1>1 DEF DeviceInit, GrantedInv, NoSession, RowRecord
  <1> QED
    BY <1>2 DEF DeviceInit, DeviceInv, ToldInv, ButtonInv

(* The row: a newer session, or no news but bad news. *)
RowGoes ==
  /\ row' \in RowRecord
  /\ row'.id >= row.id
  /\ row'.id = row.id /\ Alive' => Alive
  /\ row'.id = NoSession => row'.status = "none"

(* The answer to r. *)
AnswerTo(r, a) ==
  /\ requests' = (requests \ {r}) \cup {a}
  /\ r.is = "sent" /\ a.is \in {"ok", "refused"} /\ a.kind = r.kind
  /\ a.kind # "claim" \/ a.is = "refused" => a.session = r.session
  /\ a.session \in Nat /\ a.session <= row'.id
  /\ a.is = "ok" => a.session # NoSession
  /\ a.kind = "beat" /\ a.is = "refused" => ~Streams(a.session)'

LEMMA AnswerIs ==
  ASSUME requests \subseteq Request, NEW r \in requests, r.is \in {"sent", "unheard"},
         NEW id \in Nat, id <= row'.id, NEW outcome \in {"ok", "refused"}, Answer(r, id, outcome),
         r.kind # "claim" \/ outcome = "refused" => id = r.session,
         outcome = "ok" => id # NoSession,
         r.kind = "beat" /\ outcome = "refused" => ~Streams(id)'
  PROVE  requests' = requests \ {r} \/ \E a \in Request : AnswerTo(r, a)
  <1>1. CASE r.is = "unheard"
    BY <1>1 DEF Answer
  <1>2. CASE r.is = "sent"
    <2> DEFINE a == [r EXCEPT !.session = id, !.is = outcome]
    <2>1. a \in Request /\ a.kind = r.kind /\ a.session = id /\ a.is = outcome
      BY DEF Request
    <2>2. requests' = (requests \ {r}) \cup {a}
      BY <1>2 DEF Answer
    <2> HIDE DEF a
    <2>3. AnswerTo(r, a)
      BY <1>2, <2>1, <2>2 DEF AnswerTo
    <2> QED
      BY <2>1, <2>3
  <1> QED
    BY <1>1, <1>2

LEMMA FencedServes ==
  ASSUME GrantedInv, NEW r \in requests, r.is \in {"sent", "unheard"}, r.kind # "claim",
         NEW condition \in BOOLEAN, NEW after, Fenced(r, condition, after),
         condition => RowGoes \/ row' # after,
         r.kind = "beat" => condition = Alive
  PROVE  RowGoes /\ (requests' = requests \ {r} \/ \E a \in Request : AnswerTo(r, a))
  <1>1. /\ r \in Request /\ r.session <= row.id /\ r.session # NoSession /\ row.id \in Nat
        /\ requests \subseteq Request /\ r.session \in Nat
    BY DEF GrantedInv, RowRecord, Request
  <1>2. CASE condition /\ row.id = r.session
    <2>1. row' = after /\ Answer(r, r.session, "ok") /\ RowGoes
      BY <1>2 DEF Fenced
    <2> QED
      BY <1>1, <1>2, <2>1, AnswerIs DEF RowGoes
  <1>3. CASE ~(condition /\ row.id = r.session)
    <2>1. row' = row /\ Answer(r, r.session, "refused")
      BY <1>3 DEF Fenced, Refuse
    <2>2. RowGoes
      BY <2>1 DEF RowGoes, RowRecord, GrantedInv, Alive
    <2>3. r.kind = "beat" => ~Streams(r.session)'
      BY <1>3, <2>1 DEF Streams, Alive
    <2> QED
      BY <1>1, <2>1, <2>2, <2>3, AnswerIs
  <1> QED
    BY <1>2, <1>3

LEMMA Serves ==
  ASSUME GrantedInv, NEW kind \in RequestKind, ServeRequest(kind)
  PROVE  /\ RowGoes /\ UNCHANGED <<session, page, joined, pushes>>
         /\ \E r \in requests : requests' = requests \ {r} \/ \E a \in Request : AnswerTo(r, a)
  <1>1. PICK r \in requests :
          /\ r.kind = kind /\ r.is \in {"sent", "unheard"}
          /\ CASE kind = "claim" -> ServeClaim(r)
               [] kind = "pause" -> ServePause(r)
               [] kind \in {"release", "trackEnd"} -> ServeRelease(r)
               [] kind = "beat" -> ServeBeat(r)
    BY DEF ServeRequest
  <1>2. /\ row \in RowRecord
        /\ Alive \in BOOLEAN /\ Open \in BOOLEAN
        /\ Alive \/ Open => row.id # NoSession
        /\ r \in Request /\ r.session <= row.id /\ requests \subseteq Request
    BY DEF GrantedInv, Alive, Open
  <1>3. CASE kind = "claim"
    <2>1. CASE /\ row' = [id |-> row.id + 1, status |-> "PLAYING", left |-> Lease]
               /\ Answer(r, row.id + 1, "ok")
      <3>1. RowGoes
        BY <1>2, <2>1 DEF RowGoes, RowRecord, Lease, NoSession
      <3>2. row.id + 1 \in Nat /\ row.id + 1 <= row'.id /\ row.id + 1 # NoSession
        BY <1>2, <2>1 DEF RowRecord, NoSession
      <3> QED
        BY <1>1, <1>2, <1>3, <2>1, <3>1, <3>2, AnswerIs DEF ServeRequest
    <2>2. CASE Refuse(r)
      <3>1. RowGoes /\ row' = row /\ Answer(r, r.session, "refused") /\ r.session \in Nat
        BY <1>2, <2>2 DEF RowGoes, RowRecord, GrantedInv, Alive, Refuse, Request
      <3> QED
        BY <1>1, <1>2, <1>3, <3>1, AnswerIs DEF ServeRequest
    <2> QED
      BY <1>1, <1>3, <2>1, <2>2 DEF ServeClaim
  <1>4. CASE kind = "pause"
    <2> DEFINE after == [row EXCEPT !.status = "PAUSED", !.left = 0]
    <2>1. Fenced(r, Alive, after)
      BY <1>1, <1>4 DEF ServePause
    <2>2. after \in RowRecord /\ after.id = row.id /\ after.status = "PAUSED"
      BY <1>2 DEF RowRecord
    <2> HIDE DEF after
    <2>3. Alive => RowGoes \/ row' # after
      BY <1>2, <2>2 DEF RowGoes, RowRecord, Alive, NoSession
    <2> QED
      BY <1>1, <1>2, <1>4, <2>1, <2>3, FencedServes DEF ServeRequest
  <1>5. CASE kind \in {"release", "trackEnd"}
    <2>1. Fenced(r, Open, Over)
      BY <1>1, <1>5 DEF ServeRelease
    <2>2. Over \in RowRecord /\ Over.id = row.id /\ Over.status = "OVER"
      BY <1>2 DEF RowRecord, Over
    <2>3. Open => RowGoes \/ row' # Over
      BY <1>2, <2>2 DEF RowGoes, RowRecord, Alive, NoSession
    <2> QED
      BY <1>1, <1>2, <1>5, <2>1, <2>3, FencedServes DEF ServeRequest
  <1>6. CASE kind = "beat"
    <2> DEFINE after == [row EXCEPT !.left = Lease]
    <2>1. Fenced(r, Alive, after)
      BY <1>1, <1>6 DEF ServeBeat
    <2>2. after \in RowRecord /\ after.id = row.id /\ after.status = row.status
      BY <1>2 DEF RowRecord, Lease
    <2> HIDE DEF after
    <2>3. Alive => RowGoes \/ row' # after
      BY <1>2, <2>2 DEF RowGoes, RowRecord, Alive, NoSession
    <2> QED
      BY <1>1, <1>2, <1>6, <2>1, <2>3, FencedServes DEF ServeRequest
  <1> QED
    BY <1>3, <1>4, <1>5, <1>6 DEF RequestKind

(* The page's own steps and the pushes: what they name was granted. *)
LEMMA OldNamesStay ==
  ASSUME GrantedInv, RowGoes, UNCHANGED <<session, snapshot>>,
         \A s \in lost' : s \in 1 .. row'.id,
         requests' \subseteq Request,
         \A r \in requests' : r.session <= row'.id /\ (r.kind # "claim" \/ r.is = "ok" => r.session # NoSession)
  PROVE  GrantedInv'
  BY DEF GrantedInv, RowGoes, RowRecord, session

(* What is over is never streamed again. *)
LEMMA GoneStays == ASSUME GrantedInv, RowGoes, NEW s \in Nat, s <= row.id, ~Streams(s) PROVE ~Streams(s)'
  BY DEF GrantedInv, RowGoes, RowRecord, Streams

LEMMA ServeKeeps == ASSUME DeviceInv, NEW kind \in RequestKind, ServeRequest(kind) PROVE DeviceInv' /\ EndsForGood
  <1>1. /\ RowGoes /\ UNCHANGED <<session, page, joined, pushes>>
        /\ \E r \in requests : requests' = requests \ {r} \/ \E a \in Request : AnswerTo(r, a)
    BY Serves DEF DeviceInv
  <1>2. PICK r \in requests : requests' = requests \ {r} \/ \E a \in Request : AnswerTo(r, a)
    BY <1>1
  <1>3. GrantedInv /\ ToldInv /\ ButtonInv /\ UNCHANGED <<lost, snapshot, phase, sid, busy>>
    BY <1>1 DEF DeviceInv, pushes, page, session
  <1>4. /\ \A q \in requests : q \in Request /\ q.session \in Nat /\ q.session <= row.id
        /\ row.id \in Nat /\ row'.id \in Nat /\ row.id <= row'.id
        /\ \A s \in lost : s \in Nat /\ s <= row.id
    BY <1>1, <1>3 DEF GrantedInv, RowGoes, RowRecord, Request
  <1>5. EndsForGood
    BY <1>1, <1>3, <1>4, GoneStays DEF EndsForGood
  <1>6. \A s \in lost' : s \in 1 .. row'.id /\ ~Streams(s)'
    BY <1>1, <1>3, <1>4, GoneStays DEF GrantedInv, ToldInv
  <1>7. \A q \in requests :
          /\ q.session <= row'.id /\ (q.kind # "claim" \/ q.is = "ok" => q.session # NoSession)
          /\ q.kind = "beat" /\ q.is = "refused" => ~Streams(q.session)'
    BY <1>1, <1>3, <1>4, GoneStays DEF GrantedInv, ToldInv
  <1>8. CASE requests' = requests \ {r}
    <2>1. requests' \subseteq requests
      BY <1>8
    <2>2. GrantedInv'
      BY <1>1, <1>3, <1>4, <1>6, <1>7, <2>1, OldNamesStay DEF session
    <2>3. ToldInv' /\ ButtonInv'
      BY <1>3, <1>6, <1>7, <2>1 DEF ToldInv, ButtonInv, OfButton
    <2> QED
      BY <1>5, <2>2, <2>3 DEF DeviceInv
  <1>9. ASSUME NEW a \in Request, AnswerTo(r, a)
        PROVE  DeviceInv'
    <2>1. \A q \in requests' : q = a \/ (q \in requests /\ q # r)
      BY <1>9 DEF AnswerTo
    <2>2. a.session <= row'.id /\ (a.kind # "claim" \/ a.is = "ok" => a.session # NoSession)
      BY <1>7, <1>9 DEF AnswerTo
    <2>3. GrantedInv'
      BY <1>1, <1>3, <1>4, <1>6, <1>7, <2>1, <2>2, OldNamesStay DEF session
    <2>4. ToldInv'
      BY <1>6, <1>7, <1>9, <2>1 DEF ToldInv, AnswerTo
    <2>5. OfButton(a) => OfButton(r)
      BY <1>9 DEF OfButton, AnswerTo
    <2>6. ButtonInv'
      BY <1>3, <2>1, <2>5 DEF ButtonInv, OfButton
    <2> QED
      BY <2>3, <2>4, <2>6 DEF DeviceInv
  <1> QED
    BY <1>2, <1>5, <1>8, <1>9

(* Steps that leave the row alone and take no request but of some kinds. *)
LEMMA RowRests == ASSUME GrantedInv, row' = row PROVE RowGoes /\ EndsForGood
  BY DEF GrantedInv, RowGoes, RowRecord, EndsForGood, Streams, Alive

LEMMA FewerRequests ==
  ASSUME DeviceInv, UNCHANGED <<row, snapshot>>, requests' \subseteq requests, lost' \subseteq lost,
         sid' \in {NoSession, sid} \/ sid' \in 1 .. row.id,
         phase' \in {"idle", "playing", "paused", "stopped"}, phase' = "playing" => sid' # NoSession,
         \A r \in requests' : OfButton(r) => busy'
  PROVE  DeviceInv'
  <1>1. GrantedInv /\ ToldInv /\ ButtonInv /\ row.id \in Nat
    BY DEF DeviceInv, GrantedInv, RowRecord
  <1>2. GrantedInv'
    BY <1>1 DEF GrantedInv, NoSession
  <1>3. ToldInv'
    BY <1>1 DEF ToldInv, Streams, Alive
  <1>4. ButtonInv'
    BY <1>1 DEF ButtonInv, OfButton
  <1> QED
    BY <1>2, <1>3, <1>4 DEF DeviceInv

LEMMA TickKeeps == ASSUME DeviceInv, Tick PROVE DeviceInv' /\ EndsForGood
  <1> DEFINE left == row.left - 1
             e == [row EXCEPT !.left = left]
  <1>1. GrantedInv /\ ToldInv /\ ButtonInv /\ row \in RowRecord
    BY DEF DeviceInv, GrantedInv
  <1>2. row' = e /\ Alive /\ UNCHANGED <<session, page, joined, requests, pushes>>
    BY DEF Tick
  <1>0. left \in Nat
    BY <1>1, <1>2 DEF RowRecord, Alive
  <1> HIDE DEF left
  <1>3. e \in RowRecord /\ e.id = row.id /\ e.status = row.status
    BY <1>0, <1>1 DEF RowRecord
  <1> HIDE DEF e
  <1>4. RowGoes
    BY <1>1, <1>2, <1>3 DEF RowGoes, RowRecord, GrantedInv
  <1>5. EndsForGood
    BY <1>1, <1>4, GoneStays DEF EndsForGood, RowRecord
  <1>6. GrantedInv'
    BY <1>1, <1>2, <1>3 DEF GrantedInv, session, pushes
  <1>7. ToldInv' /\ ButtonInv'
    <2>1. \A s \in lost : s \in Nat /\ s <= row.id
      BY <1>1 DEF GrantedInv, RowRecord
    <2>2. \A r \in requests : r.session \in Nat /\ r.session <= row.id
      BY <1>1 DEF GrantedInv, Request
    <2> QED
      BY <1>1, <1>2, <1>4, <2>1, <2>2, GoneStays DEF ToldInv, ButtonInv, OfButton, pushes, page
  <1> QED
    BY <1>5, <1>6, <1>7 DEF DeviceInv

LEMMA EndedKeeps == ASSUME DeviceInv, EndedElsewhere PROVE DeviceInv' /\ EndsForGood
  <1>1. GrantedInv /\ ToldInv /\ ButtonInv /\ row \in RowRecord
    BY DEF DeviceInv, GrantedInv
  <1>2. /\ row' = Over /\ lost' = lost \cup {row.id} /\ row.status # "none"
        /\ UNCHANGED <<session, page, joined, requests, snapshot>>
    BY DEF EndedElsewhere
  <1>3. Over \in RowRecord /\ Over.id = row.id /\ Over.status = "OVER"
    BY <1>1 DEF RowRecord, Over
  <1>4. /\ RowGoes /\ row.id # NoSession /\ row.id \in Nat
        /\ \A s : ~Streams(s)'
    BY <1>1, <1>2, <1>3 DEF RowGoes, RowRecord, GrantedInv, Streams, Alive
  <1>5. EndsForGood
    BY <1>4 DEF EndsForGood
  <1>6. GrantedInv'
    <2>1. \A s \in lost' : s \in 1 .. row'.id
      BY <1>1, <1>2, <1>3, <1>4 DEF GrantedInv, NoSession
    <2> QED
      BY <1>1, <1>2, <1>3, <1>4, <2>1, OldNamesStay DEF GrantedInv, session
  <1>7. ToldInv' /\ ButtonInv'
    BY <1>1, <1>2, <1>4 DEF ToldInv, ButtonInv, OfButton, page
  <1> QED
    BY <1>5, <1>6, <1>7 DEF DeviceInv

(* The connection, the timers of the network and what only reads the row. *)
LEMMA QuietKeeps ==
  ASSUME DeviceInv, \/ Join \/ Drop \/ GoOffline \/ ComeOnline \/ RequestFails
                    \/ UNCHANGED deviceVars
  PROVE  DeviceInv' /\ EndsForGood
  <1>1. /\ UNCHANGED <<row, snapshot, lost, sid, phase, busy>> /\ requests' \subseteq requests
    BY DEF Join, Drop, GoOffline, ComeOnline, RequestFails, deviceVars, session, page, pushes
  <1>2. GrantedInv /\ ButtonInv
    BY DEF DeviceInv
  <1>3. phase \in {"idle", "playing", "paused", "stopped"} /\ (phase = "playing" => sid # NoSession)
    BY <1>2 DEF GrantedInv
  <1>4. DeviceInv'
    BY <1>1, <1>2, <1>3, FewerRequests DEF ButtonInv
  <1> QED
    BY <1>1, <1>2, <1>4, RowRests

LEMMA ReadKeeps == ASSUME DeviceInv, ReadSessions PROVE DeviceInv' /\ EndsForGood
  <1>1. /\ UNCHANGED <<row, session, page, requests, lost>> /\ snapshot'.mine = row.id
    BY DEF ReadSessions
  <1>2. DeviceInv'
    BY <1>1 DEF DeviceInv, GrantedInv, RowRecord, ToldInv, ButtonInv, OfButton, Streams, Alive, session, page
  <1> QED
    BY <1>1, <1>2, RowRests DEF DeviceInv

LEMMA AdoptKeeps == ASSUME DeviceInv, Adopt PROVE DeviceInv' /\ EndsForGood
  <1>1. /\ UNCHANGED <<row, busy, requests, lost>> /\ snapshot' = NoSessions
        /\ \/ sid' = snapshot.mine /\ snapshot.mine # NoSession /\ phase' = PhaseOf(snapshot.status)
           \/ UNCHANGED <<sid, phase>>
    BY DEF Adopt, session
  <1>2. GrantedInv /\ snapshot'.mine = 0 /\ row.id \in Nat
    BY <1>1 DEF DeviceInv, GrantedInv, NoSessions, NoSession, RowRecord
  <1>3. /\ sid' \in 0 .. row.id /\ phase' \in {"idle", "playing", "paused", "stopped"}
        /\ phase' = "playing" => sid' # NoSession
    BY <1>1, <1>2 DEF GrantedInv, PhaseOf
  <1>4. GrantedInv'
    BY <1>1, <1>2, <1>3 DEF GrantedInv
  <1>5. DeviceInv'
    BY <1>1, <1>4 DEF DeviceInv, ToldInv, ButtonInv, OfButton, Streams, Alive
  <1> QED
    BY <1>1, <1>2, <1>5, RowRests

LEMMA LostKeeps == ASSUME DeviceInv, OnSessionLost PROVE DeviceInv' /\ EndsForGood
  <1>1. /\ UNCHANGED <<row, busy, requests, snapshot>> /\ lost' \subseteq lost
        /\ \/ sid' = NoSession /\ phase' = "stopped"
           \/ UNCHANGED <<sid, phase>>
    BY DEF OnSessionLost, MarkLost, session, page
  <1>2. GrantedInv /\ ButtonInv
    BY DEF DeviceInv
  <1>3. DeviceInv'
    BY <1>1, <1>2, FewerRequests DEF GrantedInv, ButtonInv
  <1> QED
    BY <1>1, <1>2, <1>3, RowRests

LEMMA SendKeeps ==
  ASSUME DeviceInv, NEW kind \in RequestKind, NEW id \in 0 .. row.id, Send(kind, id),
         kind = "claim" \/ id # NoSession,
         \/ ~busy /\ busy' /\ kind # "beat" /\ kind # "trackEnd"
         \/ UNCHANGED busy /\ kind \in {"beat", "trackEnd"}
  PROVE  DeviceInv' /\ EndsForGood
  <1> DEFINE a == [kind |-> kind, session |-> id, is |-> "sent"]
  <1>1. GrantedInv /\ ToldInv /\ ButtonInv /\ row.id \in Nat
    BY DEF DeviceInv, GrantedInv, RowRecord
  <1>2. /\ requests' = requests \cup {a}
        /\ UNCHANGED <<row, session, offline, adopted, joined, pushes>>
    BY DEF Send
  <1>3. a \in Request /\ a.kind = kind /\ a.session = id /\ a.is = "sent"
    BY <1>1 DEF Request
  <1> HIDE DEF a
  <1>4. GrantedInv'
    <2>1. \A r \in requests' : r \in requests \/ r = a
      BY <1>2
    <2>2. \A r \in requests' : r.session <= row'.id /\ (r.kind # "claim" \/ r.is = "ok" => r.session # NoSession)
      BY <1>1, <1>2, <1>3, <2>1 DEF GrantedInv
    <2>3. requests' \subseteq Request
      BY <1>1, <1>2, <1>3 DEF GrantedInv
    <2> QED
      BY <1>1, <1>2, <2>2, <2>3 DEF GrantedInv, session, pushes
  <1>5. ToldInv'
    BY <1>1, <1>2, <1>3 DEF ToldInv, Streams, Alive, pushes
  <1>6. ButtonInv'
    BY <1>1, <1>2, <1>3 DEF ButtonInv, OfButton
  <1> QED
    BY <1>1, <1>2, <1>4, <1>5, <1>6, RowRests DEF DeviceInv

(* The buttons and the timers of a page that may send. *)
LEMMA SendsKeep ==
  ASSUME DeviceInv, Play \/ PauseOrStop("pause") \/ PauseOrStop("release") \/ TrackEnd \/ Beat
  PROVE  DeviceInv' /\ EndsForGood
  <1>1. sid \in 0 .. row.id /\ row.id \in Nat /\ NoSession \in 0 .. row.id
    BY DEF DeviceInv, GrantedInv, RowRecord, NoSession
  <1>2. CASE Play
    BY <1>1, <1>2, SendKeeps DEF Play, Enabled, RequestKind
  <1>3. CASE PauseOrStop("pause")
    BY <1>1, <1>3, SendKeeps DEF PauseOrStop, Enabled, HasSession, RequestKind
  <1>4. CASE PauseOrStop("release")
    BY <1>1, <1>4, SendKeeps DEF PauseOrStop, Enabled, HasSession, RequestKind
  <1>5. CASE TrackEnd
    BY <1>1, <1>5, SendKeeps DEF TrackEnd, HasSession, RequestKind
  <1>6. CASE Beat
    BY <1>1, <1>6, SendKeeps DEF Beat, HasSession, RequestKind
  <1> QED
    BY <1>2, <1>3, <1>4, <1>5, <1>6

LEMMA ReloadKeeps == ASSUME DeviceInv, Reload PROVE DeviceInv' /\ EndsForGood
  <1> DEFINE Mute(r) == [r EXCEPT !.is = "unheard"]
  <1>1. /\ phase' = "idle" /\ sid' = NoSession /\ UNCHANGED <<row, snapshot, lost>>
        /\ requests' = {Mute(r) : r \in {q \in requests : q.is \in {"sent", "unheard"}}}
    BY DEF Reload, pushes
  <1>2. GrantedInv /\ ToldInv /\ row.id \in Nat
    BY DEF DeviceInv, GrantedInv, RowRecord
  <1>3. ASSUME NEW r \in requests, r.is \in {"sent", "unheard"}
        PROVE  /\ Mute(r) \in Request /\ Mute(r).is = "unheard" /\ Mute(r).kind = r.kind
               /\ Mute(r).session = r.session /\ Mute(r).session <= row.id
               /\ Mute(r).kind # "claim" => Mute(r).session # NoSession
    BY <1>2, <1>3 DEF GrantedInv, Request
  <1> HIDE DEF Mute
  <1>4. \A a \in requests' : /\ a \in Request /\ a.is = "unheard" /\ a.session <= row'.id
                             /\ a.kind # "claim" => a.session # NoSession
    BY <1>1, <1>3
  <1>5. GrantedInv'
    BY <1>1, <1>2, <1>4 DEF GrantedInv, NoSession
  <1>6. ToldInv' /\ ButtonInv'
    BY <1>1, <1>2, <1>4 DEF ToldInv, ButtonInv, OfButton, Streams, Alive
  <1> QED
    BY <1>1, <1>2, <1>5, <1>6, RowRests DEF DeviceInv

LEMMA ErrorKeeps == ASSUME DeviceInv, NEW r \in requests, ServerError(r) PROVE DeviceInv' /\ EndsForGood
  <1>1. /\ UNCHANGED <<row, snapshot, lost>> /\ requests' = requests \ {r} /\ r.is # "unheard"
        /\ \/ sid' = NoSession /\ phase' = "idle"
           \/ UNCHANGED <<sid, phase>>
        /\ busy' = (busy /\ r.kind \in {"beat", "trackEnd"})
    BY DEF ServerError, TrackEnded, session, pushes
  <1>2. GrantedInv /\ ButtonInv /\ r \in Request
    BY DEF DeviceInv, GrantedInv
  <1>3. \A q \in requests' : OfButton(q) => busy'
    BY <1>1, <1>2 DEF ButtonInv, OfButton, Request, RequestKind
  <1>4. DeviceInv'
    BY <1>1, <1>2, <1>3, FewerRequests DEF GrantedInv
  <1> QED
    BY <1>1, <1>2, <1>4, RowRests

LEMMA ReturnsKeep == ASSUME DeviceInv, NEW kind \in RequestKind, Returns(kind) PROVE DeviceInv' /\ EndsForGood
  <1>1. PICK r \in requests :
          /\ r.kind = kind /\ r.is \in {"ok", "refused"}
          /\ requests' = requests \ {r}
          /\ CASE kind = "claim" -> ClaimReturns(r)
               [] kind = "pause" -> PauseReturns(r)
               [] kind = "release" -> ReleaseReturns(r)
               [] kind = "trackEnd" -> TrackEndReturns(r)
               [] kind = "beat" -> BeatReturns(r)
          /\ UNCHANGED <<row, offline, adopted, joined, pushes>>
    BY DEF Returns
  <1>2. GrantedInv /\ ButtonInv /\ UNCHANGED <<row, snapshot, lost>> /\ row.id \in Nat
        /\ r.session \in 0 .. row.id /\ (r.is = "ok" => r.session # NoSession)
    BY <1>1 DEF DeviceInv, GrantedInv, RowRecord, Request, pushes
  <1>3. /\ sid' \in {NoSession, sid} \/ sid' \in 1 .. row.id
        /\ phase' \in {"idle", "playing", "paused", "stopped"}
        /\ phase' = "playing" => sid' # NoSession
        /\ ~busy' => (busy => r.kind \in {"claim", "pause", "release"})
    <2>1. CASE kind = "claim"
      BY <1>1, <1>2, <2>1 DEF ClaimReturns, GrantedInv, session, NoSession
    <2>2. CASE kind = "pause"
      BY <1>1, <1>2, <2>2 DEF PauseReturns, MarkLost, GrantedInv, session
    <2>3. CASE kind = "release"
      BY <1>1, <1>2, <2>3 DEF ReleaseReturns, MarkLost, GrantedInv, session
    <2>4. CASE kind = "trackEnd"
      BY <1>1, <1>2, <2>4 DEF TrackEndReturns, TrackEnded, GrantedInv, session
    <2>5. CASE kind = "beat"
      BY <1>1, <1>2, <2>5 DEF BeatReturns, MarkLost, GrantedInv, session
    <2> QED
      BY <2>1, <2>2, <2>3, <2>4, <2>5 DEF RequestKind
  <1>4. \A q \in requests' : OfButton(q) => busy'
    BY <1>1, <1>2, <1>3 DEF ButtonInv, OfButton
  <1>5. DeviceInv'
    BY <1>1, <1>2, <1>3, <1>4, FewerRequests
  <1> QED
    BY <1>2, <1>5, RowRests

LEMMA DeviceStep == DeviceInv /\ [DeviceNext]_deviceVars => DeviceInv' /\ EndsForGood
  <1> SUFFICES ASSUME DeviceInv, [DeviceNext]_deviceVars PROVE DeviceInv' /\ EndsForGood
    OBVIOUS
  <1> QED
    BY TickKeeps, EndedKeeps, ServeKeeps, QuietKeeps, ReadKeeps, AdoptKeeps, LostKeeps, SendsKeep,
       ReloadKeeps, ErrorKeeps, ReturnsKeep DEF DeviceNext

LEMMA DeviceInvHolds == DeviceSpec => []DeviceInv
  BY DeviceInitInv, DeviceStep, PTL DEF DeviceSpec

(* What the device is told of the session it has is so. *)
ToldTruly == (OnSessionLost \/ Returns("beat")) /\ sid' # sid => ~Streams(sid)

LEMMA ToldIsTrue == DeviceInv => ToldTruly
  <1> SUFFICES ASSUME DeviceInv, OnSessionLost \/ Returns("beat"), sid' # sid
               PROVE  ~Streams(sid)
    BY DEF ToldTruly
  <1>1. CASE OnSessionLost
    BY <1>1 DEF OnSessionLost, session, DeviceInv, ToldInv
  <1>2. CASE Returns("beat")
    BY <1>2 DEF Returns, BeatReturns, session, DeviceInv, ToldInv
  <1> QED
    BY <1>1, <1>2

(* useDeviceSession: a page that plays names a session the server has      *)
(* granted the device, however its answers, its adoption and the pushes    *)
(* crossed.                                                                *)
PlaysGranted == phase = "playing" => sid \in 1 .. row.id

THEOREM DevicePlaysGranted == DeviceSpec => []PlaysGranted
  <1>1. DeviceInv => PlaysGranted
    BY DEF DeviceInv, GrantedInv, RowRecord, PlaysGranted, NoSession
  <1> QED
    BY <1>1, DeviceInvHolds, PTL

(* useDeviceSession, busy: the page never waits for two button requests    *)
(* at once, so that no answer to a claim, pause or release meets that of   *)
(* another one; the heartbeats and the end of the track go beside.         *)
OneButton == \A q, r \in requests : OfButton(q) /\ OfButton(r) => q = r

THEOREM DeviceOneButton == DeviceSpec => []OneButton
  <1>1. DeviceInv => OneButton
    BY DEF DeviceInv, ButtonInv, OneButton
  <1> QED
    BY <1>1, DeviceInvHolds, PTL

(* heartbeat's UPDATE asks for a PLAYING row whose lease is running: what  *)
(* the server does not stream now it never streams again under that id, so *)
(* that a refused heartbeat is true for as long as its answer takes.       *)
EndIsFinal == [][EndsForGood]_deviceVars

THEOREM DeviceEndIsFinal == DeviceSpec => EndIsFinal
  <1>1. DeviceInv /\ [DeviceNext]_deviceVars => [EndsForGood]_deviceVars
    BY DeviceStep
  <1> QED
    BY <1>1, DeviceInvHolds, PTL DEF DeviceSpec, EndIsFinal

(* The safety half of LostIsNoticed: the answer to a heartbeat and a       *)
(* session_lost, however late, clear the page's session only when the      *)
(* server does not stream it (the answers of the buttons and of the        *)
(* track's end do clear newer ones: OrphanEnds).                           *)
StopsOnlyEnded == [][ToldTruly]_deviceVars

THEOREM DeviceStopsOnlyEnded == DeviceSpec => StopsOnlyEnded
  <1>1. DeviceInv /\ [DeviceNext]_deviceVars => [ToldTruly]_deviceVars
    BY ToldIsTrue
  <1> QED
    BY <1>1, DeviceInvHolds, PTL DEF DeviceSpec, StopsOnlyEnded

-----------------------------------------------------------------------------
(* Timestamp ordering: what it performs is in timestamp order, and what    *)
(* the Thomas rule ignores nobody could have seen.                         *)

(* Timestamps are handed out once, to every transaction of the schedule.   *)
StampsDistinct ==
  /\ \A t \in Transaction : ts[t] <= stamped
  /\ \A t, u \in Transaction : ts[t] = ts[u] /\ ts[t] # 0 => t = u
  /\ \A i \in DOMAIN steps : TimeAt(i) > 0

(* rts and wts are at least the timestamps of those who read and wrote ... *)
StampsBound ==
  \A i \in DOMAIN steps : Performed(i) =>
    IF steps[i].op.kind = "R" THEN TimeAt(i) <= rts[steps[i].op.item]
                              ELSE TimeAt(i) <= wts[steps[i].op.item]

(* ... and wts is that of one of them. *)
WriterKnown ==
  \A x \in Item : wts[x] > 0 => \E k \in DOMAIN steps : Wrote(k, x) /\ TimeAt(k) = wts[x]

(* What was ignored is older than what is there. *)
IgnoredOlder ==
  \A i \in DOMAIN steps : steps[i].verdict = "ignored" => TimeAt(i) < wts[steps[i].op.item]

OrderInv ==
  /\ ToTypeOK /\ StampsDistinct /\ StampsBound /\ WriterKnown /\ IgnoredOlder
  /\ InTimestampOrder /\ ObsoleteUnseen

LEMMA InitOrder == ToInit => OrderInv
  BY DEF ToInit, OrderInv, ToTypeOK, StampsDistinct, StampsBound, WriterKnown, IgnoredOlder,
         InTimestampOrder, ObsoleteUnseen

(* Stamp: whoever has a timestamp keeps it, and the next one gets one.     *)
LEMMA StampFacts ==
  ASSUME OrderInv, NEW o \in Op, Stamp(o)
  PROVE  /\ ts' \in [Transaction -> Nat] /\ stamped' \in Nat
         /\ TimeOf(o) \in Nat /\ TimeOf(o) > 0
         /\ \A t \in Transaction : ts[t] # 0 => ts'[t] = ts[t]
         /\ \A t \in Transaction : ts'[t] <= stamped'
         /\ \A t, u \in Transaction : ts'[t] = ts'[u] /\ ts'[t] # 0 => t = u
  <1>1. o.txn \in Transaction /\ ts \in [Transaction -> Nat] /\ stamped \in Nat
    BY DEF OrderInv, ToTypeOK, Op
  <1>2. \A t \in Transaction : ts[t] <= stamped
    BY DEF OrderInv, StampsDistinct
  <1>3. \A t, u \in Transaction : ts[t] = ts[u] /\ ts[t] # 0 => t = u
    BY DEF OrderInv, StampsDistinct
  <1>4. CASE ts[o.txn] # 0
    BY <1>1, <1>2, <1>3, <1>4 DEF Stamp, TimeOf
  <1>5. CASE ts[o.txn] = 0
    <2>1. stamped' = stamped + 1 /\ ts' = [ts EXCEPT ![o.txn] = stamped + 1]
      BY <1>5 DEF Stamp
    <2>2. \A t \in Transaction : ts'[t] = IF t = o.txn THEN stamped + 1 ELSE ts[t]
      BY <2>1, <1>1
    <2> QED
      BY <1>1, <1>2, <1>3, <1>5, <2>1, <2>2 DEF TimeOf
  <1> QED
    BY <1>4, <1>5

(* The steps so far stay as they were, with their times. *)
LEMMA RecordFacts ==
  ASSUME OrderInv, NEW o \in Op, NEW v \in Verdict, Stamp(o), Record(o, v)
  PROVE  /\ steps' \in Seq([op : Op, verdict : Verdict])
         /\ DOMAIN steps' = 1..(Len(steps) + 1) /\ DOMAIN steps = 1..Len(steps)
         /\ Len(steps) \in Nat
         /\ \A i \in DOMAIN steps :
              i \in DOMAIN steps' /\ steps'[i] = steps[i] /\ ts'[steps[i].op.txn] = ts[steps[i].op.txn]
         /\ steps'[Len(steps) + 1] = [op |-> o, verdict |-> v]
         /\ \A i \in DOMAIN steps' : i \in DOMAIN steps \/ i = Len(steps) + 1
         /\ \A i \in DOMAIN steps : steps[i].op \in Op
  <1> DEFINE Steps == [op : Op, verdict : Verdict]
             e == [op |-> o, verdict |-> v]
  <1>1. steps \in Seq(Steps) /\ e \in Steps
    BY DEF OrderInv, ToTypeOK
  <1>2. Len(steps) \in Nat /\ DOMAIN steps = 1..Len(steps) /\ \A i \in DOMAIN steps : steps[i] \in Steps
    <2> HIDE DEF Steps
    <2> QED
      BY <1>1, ElementOfSeq, LenProperties
  <1>3. steps' = Append(steps, e)
    BY DEF Record
  <1>4. /\ Append(steps, e) \in Seq(Steps)
        /\ DOMAIN Append(steps, e) = 1..(Len(steps) + 1)
        /\ \A i \in 1..Len(steps) : Append(steps, e)[i] = steps[i]
        /\ Append(steps, e)[Len(steps) + 1] = e
    <2> HIDE DEF Steps, e
    <2> QED
      BY <1>1, <1>2, AppendProperties, LenProperties
  <1>5. \A i \in DOMAIN steps : steps[i].op \in Op
    BY <1>2
  <1>6. \A i \in DOMAIN steps : steps[i].op.txn \in Transaction /\ ts[steps[i].op.txn] # 0
    BY <1>5 DEF OrderInv, StampsDistinct, TimeAt, Op
  <1>7. \A i \in DOMAIN steps : ts'[steps[i].op.txn] = ts[steps[i].op.txn]
    BY <1>6, StampFacts
  <1> HIDE DEF Steps, e
  <1>8. \A i \in DOMAIN steps : i \in DOMAIN steps' /\ steps'[i] = steps[i]
    BY <1>2, <1>3, <1>4
  <1>9. \A i \in DOMAIN steps' : i \in DOMAIN steps \/ i = Len(steps) + 1
    BY <1>2, <1>3, <1>4
  <1> QED
    BY <1>2, <1>3, <1>4, <1>5, <1>7, <1>8, <1>9 DEF Steps, e

(* Every operation records a verdict, raises rts and wts only, and obeys   *)
(* the rules for its verdict: that is all the invariant needs.             *)
LEMMA VerdictOrder ==
  ASSUME OrderInv, NEW o \in Op, NEW v \in Verdict, Stamp(o), Record(o, v), thomas' = thomas,
         rts' \in [Item -> Nat], wts' \in [Item -> Nat], dead' \subseteq Transaction,
         \A x \in Item : rts[x] <= rts'[x] /\ wts[x] <= wts'[x],
         v = "ok" /\ o.kind = "R" =>
           wts[o.item] <= TimeOf(o) /\ TimeOf(o) <= rts'[o.item] /\ wts' = wts,
         v = "ok" /\ o.kind = "W" =>
           /\ rts[o.item] <= TimeOf(o) /\ wts[o.item] <= TimeOf(o)
           /\ wts' = [wts EXCEPT ![o.item] = TimeOf(o)],
         v = "ignored" => rts[o.item] <= TimeOf(o) /\ TimeOf(o) < wts[o.item],
         v # "ok" => wts' = wts
  PROVE  OrderInv'
  <1>n. PICK n \in Nat : n = Len(steps) + 1
    BY RecordFacts
  <1>T. PICK T \in Nat : T = TimeOf(o)
    BY StampFacts
  <1>1. /\ o.txn \in Transaction /\ o.item \in Item /\ o.kind \in {"R", "W"}
        /\ rts \in [Item -> Nat] /\ wts \in [Item -> Nat] /\ ts \in [Transaction -> Nat]
    BY DEF OrderInv, ToTypeOK, Op
  <1>2. /\ n \notin DOMAIN steps /\ n \in DOMAIN steps'
        /\ steps'[n].op = o /\ steps'[n].verdict = v /\ ts'[steps'[n].op.txn] = T
    <2>1. DOMAIN steps = 1..Len(steps) /\ DOMAIN steps' = 1..(Len(steps) + 1) /\ Len(steps) \in Nat
      BY RecordFacts
    <2>2. steps'[Len(steps) + 1] = [op |-> o, verdict |-> v]
      BY RecordFacts
    <2>3. steps'[n] = [op |-> o, verdict |-> v]
      BY <2>2, <1>n
    <2> QED
      BY <2>1, <2>3, <1>n, <1>T DEF TimeOf
  <1>3. \A i \in DOMAIN steps :
          /\ i \in DOMAIN steps' /\ steps'[i] = steps[i] /\ i < n
          /\ ts'[steps[i].op.txn] = ts[steps[i].op.txn] /\ ts[steps[i].op.txn] \in Nat
          /\ steps[i].op.item \in Item /\ steps[i].op.kind \in {"R", "W"}
          /\ steps[i].op.txn \in Transaction
    <2>1. DOMAIN steps = 1..Len(steps) /\ Len(steps) \in Nat /\ \A i \in DOMAIN steps : i < n
      BY <1>n, RecordFacts
    <2>2. \A i \in DOMAIN steps : steps[i].op \in Op
      BY RecordFacts
    <2>3. \A i \in DOMAIN steps : /\ steps[i].op.txn \in Transaction /\ steps[i].op.item \in Item
                                   /\ steps[i].op.kind \in {"R", "W"}
      BY <2>2 DEF Op
    <2>4. \A i \in DOMAIN steps : i \in DOMAIN steps' /\ steps'[i] = steps[i]
                                   /\ ts'[steps[i].op.txn] = ts[steps[i].op.txn]
      BY RecordFacts
    <2> QED
      BY <1>1, <2>1, <2>3, <2>4
  <1>4. \A i \in DOMAIN steps' : i \in DOMAIN steps \/ i = n
    BY <1>n, RecordFacts
  <1>5. T \in Nat /\ T > 0
    BY <1>T, StampFacts
  <1>6. ToTypeOK'
    BY StampFacts, RecordFacts DEF OrderInv, ToTypeOK
  <1>7. StampsDistinct'
    <2>1. \A i \in DOMAIN steps' : ts'[steps'[i].op.txn] > 0
      BY <1>2, <1>3, <1>4, <1>5 DEF OrderInv, StampsDistinct, TimeAt
    <2> QED
      BY <2>1, StampFacts DEF StampsDistinct, TimeAt
  <1>8. \A i \in DOMAIN steps : TimeAt(i)' = TimeAt(i) /\ Performed(i)' = Performed(i) /\ TimeAt(i) \in Nat
    BY <1>3 DEF TimeAt, Performed
  <1>9. TimeAt(n)' = T /\ (Performed(n)' <=> v = "ok")
    BY <1>2 DEF TimeAt, Performed
  <1>10. StampsBound'
    <2> SUFFICES ASSUME NEW i \in DOMAIN steps', Performed(i)'
                 PROVE  (IF steps[i].op.kind = "R" THEN TimeAt(i) <= rts[steps[i].op.item]
                                                   ELSE TimeAt(i) <= wts[steps[i].op.item])'
      BY DEF StampsBound
    <2>1. CASE i \in DOMAIN steps
      <3>1. steps'[i] = steps[i] /\ TimeAt(i)' = TimeAt(i) /\ Performed(i) /\ TimeAt(i) \in Nat
        BY <2>1, <1>3, <1>8
      <3>2. rts[steps[i].op.item] <= rts'[steps[i].op.item] /\ wts[steps[i].op.item] <= wts'[steps[i].op.item]
        BY <2>1, <1>3
      <3> QED
        BY <2>1, <3>1, <3>2, <1>1, <1>3 DEF OrderInv, StampsBound
    <2>2. CASE i = n
      <3>1. TimeAt(i)' = T /\ v = "ok" /\ steps'[i].op = o
        BY <2>2, <1>2, <1>9
      <3>2. o.kind = "R" => T <= rts'[o.item]
        BY <3>1, <1>T
      <3>3. o.kind = "W" => T <= wts'[o.item]
        BY <3>1, <1>1, <1>5, <1>T
      <3> QED
        BY <3>1, <3>2, <3>3, <1>1
    <2> QED
      BY <1>4, <2>1, <2>2
  <1>11. \A k \in DOMAIN steps, x \in Item : Wrote(k, x) => Wrote(k, x)'
    BY <1>3, <1>8 DEF Wrote
  <1>12. WriterKnown'
    <2> SUFFICES ASSUME NEW x \in Item, wts'[x] > 0
                 PROVE  \E k \in DOMAIN steps' : Wrote(k, x)' /\ TimeAt(k)' = wts'[x]
      BY DEF WriterKnown
    <2>1. CASE v = "ok" /\ o.kind = "W" /\ x = o.item
      <3>1. Wrote(n, x)' /\ TimeAt(n)' = wts'[x]
        BY <2>1, <1>1, <1>2, <1>9, <1>T DEF Wrote
      <3> QED
        BY <3>1, <1>2
    <2>2. CASE ~(v = "ok" /\ o.kind = "W" /\ x = o.item)
      <3>1. wts'[x] = wts[x]
        BY <2>2, <1>1
      <3>2. PICK k \in DOMAIN steps : Wrote(k, x) /\ TimeAt(k) = wts[x]
        BY <3>1 DEF OrderInv, WriterKnown
      <3> QED
        BY <3>1, <3>2, <1>3, <1>8, <1>11
    <2> QED
      BY <2>1, <2>2
  <1>13. IgnoredOlder'
    <2> SUFFICES ASSUME NEW i \in DOMAIN steps', steps'[i].verdict = "ignored"
                 PROVE  TimeAt(i)' < wts'[steps'[i].op.item]
      BY DEF IgnoredOlder
    <2>1. CASE i \in DOMAIN steps
      <3>1. TimeAt(i) < wts[steps[i].op.item] /\ wts[steps[i].op.item] <= wts'[steps[i].op.item]
        BY <2>1, <1>3 DEF OrderInv, IgnoredOlder
      <3> QED
        BY <2>1, <3>1, <1>1, <1>3, <1>8
    <2>2. CASE i = n
      BY <2>2, <1>2, <1>9, <1>T
    <2> QED
      BY <1>4, <2>1, <2>2
  <1>14. InTimestampOrder'
    <2> SUFFICES ASSUME NEW i \in DOMAIN steps', NEW j \in DOMAIN steps', i < j,
                        Performed(i)', Performed(j)', Conflicts(steps'[i].op, steps'[j].op)
                 PROVE  TimeAt(i)' < TimeAt(j)'
      BY DEF InTimestampOrder, Conflicts
    <2>0. DOMAIN steps' = 1..n
      BY <1>n, RecordFacts
    <2>1. i \in DOMAIN steps /\ i # n
      BY <2>0, <1>3, <1>4
    <2>2. CASE j \in DOMAIN steps
      <3>1. Performed(i) /\ Performed(j) /\ Conflicts(steps[i].op, steps[j].op)
        BY <2>1, <2>2, <1>3, <1>8
      <3>2. TimeAt(i) < TimeAt(j)
        BY <2>1, <2>2, <3>1 DEF OrderInv, InTimestampOrder
      <3> QED
        BY <2>1, <2>2, <3>2, <1>8
    <2>3. CASE j = n
      <3>1. v = "ok" /\ steps'[j].op = o /\ TimeAt(j)' = T /\ TimeAt(i)' = TimeAt(i)
        BY <2>1, <2>3, <1>2, <1>8, <1>9
      <3>2. TimeAt(i) # T
        <4>1. steps[i].op.txn \in Transaction /\ steps[i].op.txn # o.txn
          BY <2>1, <3>1, <1>3 DEF Conflicts
        <4>2. ts'[steps[i].op.txn] # ts'[o.txn]
          BY <4>1, <1>1, <1>5, <1>T, StampFacts DEF TimeOf
        <4> QED
          BY <2>1, <3>1, <4>2, <1>3, <1>T DEF TimeAt, TimeOf
      <3>3. steps[i].op.item = o.item /\ (steps[i].op.kind = "W" \/ o.kind = "W") /\ Performed(i)
        BY <2>1, <3>1, <1>3, <1>8 DEF Conflicts
      <3>4. CASE steps[i].op.kind = "W"
        <4>1. TimeAt(i) <= wts[o.item]
          BY <2>1, <3>3, <3>4 DEF OrderInv, StampsBound
        <4>2. wts[o.item] <= T
          BY <3>1, <1>1, <1>T
        <4> QED
          BY <4>1, <4>2, <3>1, <3>2, <2>1, <1>1, <1>5, <1>8
      <3>5. CASE steps[i].op.kind = "R"
        <4>1. TimeAt(i) <= rts[o.item]
          BY <2>1, <3>3, <3>5 DEF OrderInv, StampsBound
        <4>2. rts[o.item] <= T
          BY <3>1, <3>3, <3>5, <1>T
        <4> QED
          BY <4>1, <4>2, <3>1, <3>2, <2>1, <1>1, <1>5, <1>8
      <3> QED
        BY <3>4, <3>5, <2>1, <1>3
    <2> QED
      BY <1>4, <2>2, <2>3
  <1>15. ObsoleteUnseen'
    <2> SUFFICES ASSUME NEW i \in DOMAIN steps', NEW j \in DOMAIN steps',
                        steps'[i].verdict = "ignored", Saw(j, steps[i].op.item)', TimeAt(i)' < TimeAt(j)'
                 PROVE  \E k \in DOMAIN steps' :
                          /\ Wrote(k, steps[i].op.item)'
                          /\ TimeAt(i)' < TimeAt(k)' /\ TimeAt(k)' <= TimeAt(j)'
      BY DEF ObsoleteUnseen
    <2>1. CASE i \in DOMAIN steps /\ j \in DOMAIN steps
      <3>x. PICK x \in Item : x = steps[i].op.item
        BY <2>1, <1>3
      <3>1. steps[i].verdict = "ignored" /\ Saw(j, x) /\ TimeAt(i) < TimeAt(j)
        BY <2>1, <3>x, <1>3, <1>8 DEF Saw
      <3>2. PICK k \in DOMAIN steps : Wrote(k, x) /\ TimeAt(i) < TimeAt(k) /\ TimeAt(k) <= TimeAt(j)
        BY <2>1, <3>x, <3>1 DEF OrderInv, ObsoleteUnseen
      <3>3. Wrote(k, x)'
        BY <3>2, <1>11
      <3>4. TimeAt(i)' = TimeAt(i) /\ TimeAt(j)' = TimeAt(j) /\ TimeAt(k)' = TimeAt(k) /\ k \in DOMAIN steps'
        BY <2>1, <3>2, <1>3, <1>8
      <3> QED
        BY <2>1, <3>x, <3>2, <3>3, <3>4, <1>3
    <2>2. CASE i \in DOMAIN steps /\ j = n
      <3>x. PICK x \in Item : x = steps[i].op.item
        BY <2>2, <1>3
      <3>1. v = "ok" /\ o.kind = "R" /\ o.item = x /\ TimeAt(j)' = T
        BY <2>2, <3>x, <1>2, <1>3, <1>9 DEF Saw
      <3>2. TimeAt(i) < wts[x] /\ wts[x] <= T /\ TimeAt(i) \in Nat /\ wts[x] \in Nat
        <4>1. steps[i].verdict = "ignored" /\ TimeAt(i) \in Nat
          BY <2>2, <1>3, <1>8
        <4>2. TimeAt(i) < wts[x]
          BY <2>2, <3>x, <4>1 DEF OrderInv, IgnoredOlder
        <4> QED
          BY <3>1, <4>1, <4>2, <1>1, <1>T
      <3>3. PICK k \in DOMAIN steps : Wrote(k, x) /\ TimeAt(k) = wts[x]
        BY <3>1, <3>2 DEF OrderInv, WriterKnown
      <3>4. Wrote(k, x)'
        BY <3>3, <1>11
      <3>5. TimeAt(i)' = TimeAt(i) /\ TimeAt(k)' = TimeAt(k) /\ k \in DOMAIN steps'
        BY <2>2, <3>3, <1>3, <1>8
      <3> QED
        BY <2>2, <3>x, <3>1, <3>2, <3>3, <3>4, <3>5, <1>3
    <2>3. CASE i = n /\ j \in DOMAIN steps
      <3>1. steps'[i].op = o /\ v = "ignored" /\ TimeAt(i)' = T /\ TimeAt(j)' = TimeAt(j)
        BY <2>3, <1>2, <1>8, <1>9
      <3>2. steps[j].op.kind = "R" /\ steps[j].op.item = o.item /\ Performed(j)
        BY <2>3, <3>1, <1>3, <1>8 DEF Saw
      <3>3. TimeAt(j) <= rts[o.item] /\ rts[o.item] <= T /\ TimeAt(j) \in Nat
        BY <2>3, <3>1, <3>2, <1>8, <1>T DEF OrderInv, StampsBound
      <3> QED
        BY <3>1, <3>3, <1>1, <1>5
    <2>4. CASE i = n /\ j = n
      BY <2>4, <1>9, <1>5
    <2> QED
      BY <1>4, <2>1, <2>2, <2>3, <2>4
  <1> QED
    BY <1>6, <1>7, <1>10, <1>12, <1>13, <1>14, <1>15 DEF OrderInv

LEMMA NextOrder == OrderInv /\ [ToNext]_toVars => OrderInv'
  <1> SUFFICES ASSUME OrderInv, [ToNext]_toVars PROVE OrderInv'
    OBVIOUS
  <1>1. CASE UNCHANGED toVars
    BY <1>1 DEF toVars, OrderInv, ToTypeOK, StampsDistinct, StampsBound, WriterKnown, IgnoredOlder,
                InTimestampOrder, ObsoleteUnseen, Performed, TimeAt, Wrote, Saw
  <1>2. ASSUME NEW o \in Op, Perform(o) PROVE OrderInv'
    <2>1. /\ o.txn \in Transaction /\ o.item \in Item /\ o.kind \in {"R", "W"}
          /\ rts \in [Item -> Nat] /\ wts \in [Item -> Nat] /\ dead \subseteq Transaction
      BY DEF OrderInv, ToTypeOK, Op
    <2>2. Stamp(o) /\ thomas' = thomas
      BY <1>2 DEF Perform
    <2>3. TimeOf(o) \in Nat
      BY <2>2, StampFacts
    <2>4. \A v \in {"ok", "abort", "ignored", "skipped"} : v \in Verdict
      BY DEF Verdict
    <2>5. CASE Skip(o)
      BY <2>1, <2>2, <2>4, <2>5, VerdictOrder DEF Skip
    <2>6. CASE PerformRead(o)
      <3>1. /\ wts[o.item] <= TimeOf(o) /\ UNCHANGED <<wts, dead>> /\ Record(o, "ok") /\ o.kind = "R"
            /\ rts' = [rts EXCEPT ![o.item] = LaterReader(o)]
        BY <2>1, <2>3, <2>6 DEF PerformRead
      <3>2. LaterReader(o) \in Nat /\ rts[o.item] <= LaterReader(o) /\ TimeOf(o) <= LaterReader(o)
        BY <2>1, <2>3 DEF LaterReader
      <3>3. /\ rts' \in [Item -> Nat] /\ TimeOf(o) <= rts'[o.item]
            /\ \A x \in Item : rts[x] <= rts'[x] /\ wts[x] <= wts'[x]
        BY <2>1, <3>1, <3>2
      <3> QED
        BY <2>1, <2>2, <2>4, <3>1, <3>3, VerdictOrder
    <2>7. CASE Abort(o)
      <3>1. UNCHANGED <<rts, wts>> /\ Record(o, "abort") /\ dead' \subseteq Transaction
        BY <2>1, <2>7 DEF Abort
      <3> QED
        BY <2>1, <2>2, <2>4, <3>1, VerdictOrder
    <2>8. CASE Ignore(o)
      <3>1. UNCHANGED <<rts, wts, dead>> /\ Record(o, "ignored") /\ Obsolete(o)
        BY <2>8 DEF Ignore
      <3>2. rts[o.item] <= TimeOf(o) /\ TimeOf(o) < wts[o.item]
        BY <2>1, <2>3, <3>1 DEF Obsolete, WritesPast
      <3> QED
        BY <2>1, <2>2, <2>4, <3>1, <3>2, VerdictOrder
    <2>9. CASE PerformWrite(o)
      <3>1. /\ o.kind = "W" /\ UNCHANGED <<rts, dead>> /\ Record(o, "ok")
            /\ wts' = [wts EXCEPT ![o.item] = TimeOf(o)]
        BY <2>9 DEF PerformWrite
      <3>2. rts[o.item] <= TimeOf(o) /\ wts[o.item] <= TimeOf(o)
        BY <2>1, <2>3, <2>9 DEF PerformWrite, WritesPast, Obsolete
      <3>3. /\ wts' \in [Item -> Nat]
            /\ \A x \in Item : rts[x] <= rts'[x] /\ wts[x] <= wts'[x]
        BY <2>1, <2>3, <3>1, <3>2
      <3> QED
        BY <2>1, <2>2, <2>4, <3>1, <3>2, <3>3, VerdictOrder
    <2> QED
      BY <1>2, <2>5, <2>6, <2>7, <2>8, <2>9 DEF Perform
  <1> QED
    BY <1>1, <1>2 DEF ToNext

LEMMA ToInvariance == ToSpec => []OrderInv
  BY InitOrder, NextOrder, PTL DEF ToSpec

(* Type correctness. *)
THEOREM TimestampTypes == ToSpec => []ToTypeOK
  <1>1. OrderInv => ToTypeOK
    BY DEF OrderInv
  <1> QED
    BY <1>1, ToInvariance, PTL

(* What is performed is conflict-serializable in the order of timestamps.  *)
THEOREM TimestampsInOrder == ToSpec => []InTimestampOrder
  <1>1. OrderInv => InTimestampOrder
    BY DEF OrderInv
  <1> QED
    BY <1>1, ToInvariance, PTL

(* The Thomas write rule ignores only what nobody could have seen. *)
THEOREM ThomasUnseen == ToSpec => []ObsoleteUnseen
  <1>1. OrderInv => ObsoleteUnseen
    BY DEF OrderInv
  <1> QED
    BY <1>1, ToInvariance, PTL
-----------------------------------------------------------------------------
(* A story: the hash of the entry that is shown follows the chapter.       *)

Places == 0..Bottom

LEMMA TopTypes ==
  /\ Len(Top) \in Nat \ {0} /\ Chapter = 1..Len(Top) /\ Bottom \in Nat /\ Line \in Nat
  /\ \A c \in Chapter : Top[c] \in Nat
  /\ \A c, d \in Chapter : c < d => Top[c] + Line < Top[d] /\ Top[c] < Bottom
  /\ Top[1] = 0
  BY StoryAssumption DEF Chapter

(* A position between two chapters' tops is in exactly one of them. *)
LEMMA ActiveAtIs ==
  ASSUME NEW y \in Places, NEW c \in Chapter,
         IF y = Bottom THEN c = Len(Top)
         ELSE Top[c] <= y + Line /\ \A d \in Chapter : Top[d] <= y + Line => d <= c
  PROVE  ActiveAt(y) = c
  <1>1. CASE y = Bottom
    BY <1>1 DEF ActiveAt
  <1>2. CASE y # Bottom
    <2> DEFINE P(e) == Top[e] <= y + Line /\ \A d \in Chapter : Top[d] <= y + Line => d <= e
    <2>1. P(c)
      BY <1>2
    <2>2. \A e \in Chapter : P(e) => e = c
      BY <2>1, TopTypes
    <2>3. P(CHOOSE e \in Chapter : P(e)) /\ (CHOOSE e \in Chapter : P(e)) \in Chapter
      BY <2>1
    <2>4. ActiveAt(y) = CHOOSE e \in Chapter : P(e)
      BY <1>2 DEF ActiveAt
    <2> HIDE DEF P
    <2> QED
      BY <2>2, <2>3, <2>4
  <1> QED
    BY <1>1, <1>2

LEMMA ActiveAtType == \A y \in Places : ActiveAt(y) \in Chapter
  <1> SUFFICES ASSUME NEW y \in Places PROVE ActiveAt(y) \in Chapter
    OBVIOUS
  <1>1. CASE y = Bottom
    BY <1>1, TopTypes DEF ActiveAt
  <1>2. CASE y # Bottom
    <2> DEFINE T == {n \in Nat : Len(Top) - n \in Chapter /\ Top[Len(Top) - n] <= y + Line}
    <2>1. T \subseteq Nat /\ Len(Top) - 1 \in T
      BY TopTypes DEF Places
    <2>2. PICK n \in T : \A m \in T : ~ (<<m, n>> \in OpToRel(<, Nat))
      <3> HIDE DEF T
      <3>1. T # {}
        BY <2>1
      <3> QED
        BY <2>1, <3>1, WFMin, NatLessThanWellFounded
    <2>3. \A m \in T : n <= m
      <3> SUFFICES ASSUME NEW m \in T, m < n PROVE FALSE
        BY <2>1
      <3>1. <<m, n>> \in OpToRel(<, Nat)
        BY <2>1 DEF OpToRel
      <3> QED
        BY <2>2, <3>1
    <2> DEFINE c == Len(Top) - n
    <2>4. c \in Chapter /\ Top[c] <= y + Line
      BY <2>1
    <2>5. ASSUME NEW d \in Chapter, Top[d] <= y + Line PROVE d <= c
      <3>1. Len(Top) - d \in T
        BY <2>5, TopTypes
      <3>2. n <= Len(Top) - d
        BY <2>3, <3>1
      <3> QED
        BY <2>1, <3>2, TopTypes
    <2> HIDE DEF c
    <2> QED
      BY <1>2, <2>4, <2>5, ActiveAtIs
  <1> QED
    BY <1>1, <1>2

(* A chapter that one jumps to is the current one, the last too, whose top *)
(* may be out of reach; without a hash, and at the top, it is the first.   *)
Names(hash, c) == hash = c \/ (hash = NoChapter /\ c = 1)

LEMMA PlaceTypes == \A c \in Chapter : Place(c) \in Places /\ HashPlace(c) = Place(c)
  BY TopTypes DEF Place, Places, HashPlace, NoChapter

LEMMA ActiveAtPlace == \A c \in Chapter : ActiveAt(Place(c)) = c
  <1> SUFFICES ASSUME NEW c \in Chapter PROVE ActiveAt(Place(c)) = c
    OBVIOUS
  <1>1. Place(c) \in Places
    BY PlaceTypes
  <1>2. CASE Place(c) = Bottom
    <2>1. c = Len(Top)
      BY <1>2, TopTypes DEF Place
    <2> QED
      BY <1>1, <1>2, <2>1, ActiveAtIs
  <1>3. CASE Place(c) # Bottom
    <2>1. Place(c) = Top[c]
      BY <1>3 DEF Place
    <2>2. Top[c] <= Place(c) + Line /\ \A d \in Chapter : Top[d] <= Place(c) + Line => d <= c
      BY <2>1, TopTypes
    <2> QED
      BY <1>1, <1>3, <2>2, ActiveAtIs
  <1> QED
    BY <1>2, <1>3

LEMMA HashPlaced ==
  \A c \in Chapter \cup {NoChapter} : HashPlace(c) \in Places /\ Names(c, ActiveAt(HashPlace(c)))
  <1> SUFFICES ASSUME NEW c \in Chapter \cup {NoChapter}
               PROVE  HashPlace(c) \in Places /\ Names(c, ActiveAt(HashPlace(c)))
    OBVIOUS
  <1>1. CASE c \in Chapter
    BY <1>1, PlaceTypes, ActiveAtPlace DEF Names
  <1>2. CASE c = NoChapter
    <2>1. HashPlace(c) = 0 /\ 0 \in Places /\ 1 \in Chapter
      BY <1>2, TopTypes DEF HashPlace, Places
    <2>2. ActiveAt(0) = 1
      <3>1. CASE Bottom = 0
        <4>1. 1 = Len(Top)
          <5>1. Len(Top) \in Chapter /\ 1 \in Chapter
            BY TopTypes
          <5>2. ASSUME NEW d \in Chapter, 1 < d PROVE FALSE
            <6>1. Top[1] + Line < Top[d] /\ Top[1] < Bottom
              BY <5>1, <5>2, TopTypes
            <6> QED
              BY <3>1, <6>1, TopTypes
          <5>3. Len(Top) \in Nat /\ Len(Top) >= 1
            BY TopTypes
          <5>4. ~(1 < Len(Top))
            BY <5>1, <5>2
          <5> QED
            BY <5>3, <5>4
        <4> QED
          BY <2>1, <3>1, <4>1, ActiveAtIs
      <3>2. CASE Bottom # 0
        <4>1. Top[1] <= 0 + Line /\ \A d \in Chapter : Top[d] <= 0 + Line => d <= 1
          BY TopTypes
        <4> QED
          BY <2>1, <3>2, <4>1, ActiveAtIs
      <3> QED
        BY <3>1, <3>2
    <2> QED
      BY <1>2, <2>1, <2>2 DEF Names
  <1> QED
    BY <1>1, <1>2

(* The inductive invariant: where the page is going, and what the hash is  *)
(* then.                                                                   *)
Somewhere == Places \cup {NoWhere}
Hashes == Chapter \cup {NoChapter}

StoryTypes ==
  /\ at \in Places /\ goal \in Somewhere /\ remembered \in Somewhere /\ toast \in Somewhere
  /\ active \in Chapter /\ writing \in Hashes
  /\ hashes \in Seq(Hashes) /\ here \in 1..Len(hashes)
  /\ framed \in BOOLEAN /\ mounted \in BOOLEAN /\ strayed \in BOOLEAN
  /\ reducedMotion \in BOOLEAN

Dest == IF ~mounted THEN remembered ELSE IF goal = NoWhere THEN at ELSE goal

GoalAway == goal # NoWhere => goal # at
ShownFits == mounted /\ ~framed => active = ActiveAt(at)
LeftQuiet == ~mounted => goal = NoWhere /\ writing = NoChapter /\ remembered # NoWhere
HashOnItsWay == ~strayed /\ writing = NoChapter =>
  Names(hashes[here], ActiveAt(Dest)) \/ (mounted /\ active # ActiveAt(Dest))

StoryInv == StoryTypes /\ GoalAway /\ ShownFits /\ LeftQuiet /\ HashOnItsWay

LEMMA SomewhereIs == \A y \in Somewhere : y # NoWhere => y \in Places
  BY DEF Somewhere

LEMMA NoWhereElse == \A y \in Places : y # NoWhere /\ y \in Int
  BY TopTypes DEF Places, NoWhere

LEMMA DestType == StoryTypes /\ LeftQuiet => Dest \in Places
  BY SomewhereIs DEF StoryTypes, LeftQuiet, Dest

LEMMA InitStory == StoryInit => StoryInv
  <1> SUFFICES ASSUME StoryInit PROVE StoryInv
    OBVIOUS
  <1>1. PICK c \in Hashes : hashes = <<c>> /\ at = HashPlace(c)
    BY DEF StoryInit, Hashes
  <1>2. hashes \in Seq(Hashes) /\ Len(hashes) = 1 /\ hashes[1] = c
    <2> HIDE DEF Hashes
    <2> QED
      BY <1>1
  <1>3. at \in Places /\ Names(c, ActiveAt(at))
    BY <1>1, HashPlaced DEF Hashes
  <1>4. StoryTypes
    <2>1. 1 \in Chapter /\ NoChapter \in Hashes /\ NoWhere \in Somewhere
      BY TopTypes DEF Hashes, Somewhere
    <2>2. /\ reducedMotion \in BOOLEAN /\ here = 1 /\ goal = NoWhere /\ framed = TRUE
          /\ active = 1 /\ writing = NoChapter /\ mounted = TRUE /\ remembered = NoWhere
          /\ toast = NoWhere /\ strayed = FALSE
      BY DEF StoryInit
    <2>3. here \in 1..Len(hashes)
      BY <1>2, <2>2
    <2> QED
      BY <1>2, <1>3, <2>1, <2>2, <2>3 DEF StoryTypes
  <1>5. Dest = at
    BY DEF StoryInit, Dest
  <1>6. GoalAway /\ ShownFits /\ LeftQuiet /\ HashOnItsWay
    BY <1>2, <1>3, <1>5 DEF StoryInit, GoalAway, ShownFits, LeftQuiet, HashOnItsWay
  <1> QED
    BY <1>4, <1>6 DEF StoryInv

(* The browser scrolls to y, at once or smoothly. *)
LEMMA ScrollFacts ==
  ASSUME StoryInv, mounted, mounted' = mounted, NEW y \in Places, ScrollTo(y), active' = active
  PROVE  /\ at' \in Places /\ goal' \in Somewhere /\ framed' \in BOOLEAN
         /\ GoalAway' /\ ShownFits' /\ Dest' = y
  <1>1. at \in Places /\ framed \in BOOLEAN /\ y # NoWhere
    BY NoWhereElse DEF StoryInv, StoryTypes
  <1>2. CASE reducedMotion
    BY <1>1, <1>2 DEF StoryInv, ScrollTo, GoalAway, ShownFits, Dest, Somewhere
  <1>3. CASE ~reducedMotion
    BY <1>1, <1>3 DEF StoryInv, ScrollTo, GoalAway, ShownFits, Dest, Somewhere
  <1> QED
    BY <1>2, <1>3

LEMMA SmoothStepStory == StoryInv /\ SmoothStep => StoryInv'
  <1> SUFFICES ASSUME StoryInv, SmoothStep PROVE StoryInv'
    OBVIOUS
  <1>1. /\ mounted /\ mounted' = mounted /\ goal # NoWhere /\ framed' = TRUE
        /\ at' = IF goal > at THEN at + 1 ELSE at - 1
        /\ goal' = IF at' = goal THEN NoWhere ELSE goal
        /\ UNCHANGED <<reducedMotion, active, writing, hashes, here, remembered, toast, strayed>>
    BY DEF SmoothStep
  <1>2. at \in Places /\ goal \in Places /\ goal # at
    BY <1>1, SomewhereIs DEF StoryInv, StoryTypes, GoalAway
  <1>3. at' \in Places
    BY <1>1, <1>2, TopTypes DEF Places
  <1>4. goal' \in Somewhere /\ GoalAway' /\ Dest' = Dest
    BY <1>1, <1>2, <1>3 DEF GoalAway, Dest, Somewhere
  <1>5. StoryTypes' /\ ShownFits' /\ LeftQuiet'
    BY <1>1, <1>3, <1>4 DEF StoryInv, StoryTypes, ShownFits, LeftQuiet
  <1>6. HashOnItsWay'
    BY <1>1, <1>4 DEF StoryInv, HashOnItsWay
  <1> QED
    BY <1>4, <1>5, <1>6 DEF StoryInv

LEMMA FrameStory == StoryInv /\ Frame => StoryInv'
  <1> SUFFICES ASSUME StoryInv, Frame PROVE StoryInv'
    OBVIOUS
  <1> DEFINE changed == active' # active
  <1>1. /\ mounted /\ mounted' = mounted /\ framed' = FALSE /\ active' = ActiveAt(at)
        /\ writing' = IF changed /\ at > 0 THEN active' ELSE writing
        /\ strayed' = (strayed \/ (changed /\ at = 0))
        /\ UNCHANGED <<reducedMotion, at, goal, hashes, here, remembered, toast>>
    BY DEF Frame
  <1>2. at \in Places /\ active' \in Chapter
    BY <1>1, ActiveAtType DEF StoryInv, StoryTypes
  <1>3. at > 0 \/ at = 0
    BY <1>2, TopTypes DEF Places
  <1>4. StoryTypes'
    BY <1>1, <1>2 DEF StoryInv, StoryTypes, Hashes
  <1>5. GoalAway' /\ ShownFits' /\ LeftQuiet' /\ Dest' = Dest
    BY <1>1 DEF StoryInv, GoalAway, ShownFits, LeftQuiet, Dest
  <1>6. HashOnItsWay'
    <2> SUFFICES ASSUME ~strayed', writing' = NoChapter
                 PROVE  Names(hashes'[here'], ActiveAt(Dest'))
                        \/ (mounted' /\ active' # ActiveAt(Dest'))
      BY DEF HashOnItsWay
    <2>1. active' # NoChapter
      BY <1>2, TopTypes DEF NoChapter
    <2>2. ~changed /\ ~strayed /\ writing = NoChapter
      BY <1>1, <1>3, <2>1
    <2> QED
      BY <1>1, <1>5, <2>2 DEF StoryInv, HashOnItsWay
  <1> QED
    BY <1>4, <1>5, <1>6 DEF StoryInv

LEMMA WriteHashStory == StoryInv /\ WriteHash => StoryInv'
  <1> SUFFICES ASSUME StoryInv, WriteHash PROVE StoryInv'
    OBVIOUS
  <1>1. /\ mounted /\ mounted' = mounted /\ writing # NoChapter /\ writing' = NoChapter
        /\ hashes' = [hashes EXCEPT ![here] = writing]
        /\ strayed' = (writing # active)
        /\ UNCHANGED <<reducedMotion, at, goal, framed, active, here, remembered, toast>>
    BY DEF WriteHash, replaceHash
  <1>2. hashes \in Seq(Hashes) /\ here \in 1..Len(hashes) /\ writing \in Hashes
    BY DEF StoryInv, StoryTypes
  <1>3. hashes' \in Seq(Hashes) /\ Len(hashes') = Len(hashes) /\ hashes'[here] = writing
    <2> HIDE DEF Hashes
    <2> QED
      BY <1>1, <1>2
  <1>4. StoryTypes'
    BY <1>1, <1>2, <1>3 DEF StoryInv, StoryTypes, Hashes
  <1>5. GoalAway' /\ ShownFits' /\ LeftQuiet' /\ Dest' = Dest
    BY <1>1 DEF StoryInv, GoalAway, ShownFits, LeftQuiet, Dest
  <1>6. HashOnItsWay'
    BY <1>1, <1>3 DEF HashOnItsWay, Names
  <1> QED
    BY <1>4, <1>5, <1>6 DEF StoryInv

(* The user scrolls there, or goes back to where the result came. *)
LEMMA GoThere ==
  ASSUME StoryInv, mounted, mounted' = mounted,
         at' \in Places, goal' \in Somewhere, framed' \in BOOLEAN, toast' \in Somewhere,
         GoalAway', ShownFits', strayed' \in BOOLEAN,
         UNCHANGED <<reducedMotion, active, writing, hashes, here, remembered>>,
         ~strayed' => ~strayed /\ (Names(hashes[here], active) \/ writing # NoChapter
                                   \/ active # ActiveAt(Dest'))
  PROVE  StoryInv'
  <1>1. StoryTypes' /\ LeftQuiet'
    BY DEF StoryInv, StoryTypes, LeftQuiet
  <1>2. HashOnItsWay'
    BY DEF HashOnItsWay
  <1> QED
    BY <1>1, <1>2 DEF StoryInv

LEMMA SettledNames ==
  ASSUME StoryInv, mounted, ~framed, goal = NoWhere, ~strayed, writing = NoChapter
  PROVE  Names(hashes[here], active)
  BY DEF StoryInv, HashOnItsWay, ShownFits, Dest

LEMMA UserStory ==
  ASSUME StoryInv, NEW y \in Places, UserScrolls(y)
  PROVE  StoryInv'
  <1>1. /\ mounted /\ mounted' = mounted /\ ~framed /\ at' = y /\ goal' = NoWhere
        /\ framed' = TRUE /\ strayed' = (strayed \/ goal # NoWhere)
        /\ UNCHANGED <<reducedMotion, active, writing, hashes, here, remembered, toast>>
    BY DEF UserScrolls
  <1>2. strayed' \in BOOLEAN /\ toast' \in Somewhere
    BY <1>1 DEF StoryInv, StoryTypes
  <1>3. GoalAway' /\ ShownFits' /\ goal' \in Somewhere
    BY <1>1 DEF GoalAway, ShownFits, Somewhere
  <1>4. ~strayed' => ~strayed /\ (Names(hashes[here], active) \/ writing # NoChapter)
    BY <1>1, SettledNames
  <1> QED
    BY <1>1, <1>2, <1>3, <1>4, GoThere

LEMMA BackToSetupStory == StoryInv /\ BackToSetup => StoryInv'
  <1> SUFFICES ASSUME StoryInv, BackToSetup PROVE StoryInv'
    OBVIOUS
  <1>1. /\ mounted /\ mounted' = mounted /\ toast # NoWhere /\ toast' = NoWhere
        /\ ScrollTo(toast) /\ strayed' = (strayed \/ goal # NoWhere \/ framed)
        /\ UNCHANGED <<reducedMotion, active, writing, hashes, here, remembered>>
    BY DEF BackToSetup
  <1>2. toast \in Places
    BY <1>1, SomewhereIs DEF StoryInv, StoryTypes
  <1>3. strayed' \in BOOLEAN /\ toast' \in Somewhere
    BY <1>1 DEF StoryInv, StoryTypes, Somewhere
  <1>4. /\ at' \in Places /\ goal' \in Somewhere /\ framed' \in BOOLEAN
        /\ GoalAway' /\ ShownFits'
    BY <1>1, <1>2, ScrollFacts
  <1>5. ~strayed' => ~strayed /\ (Names(hashes[here], active) \/ writing # NoChapter)
    BY <1>1, SettledNames
  <1> QED
    BY <1>1, <1>3, <1>4, <1>5, GoThere

LEMMA ResultStory ==
  ASSUME StoryInv, NEW late \in BOOLEAN, ResultComes(late)
  PROVE  StoryInv'
  <1> DEFINE c == Len(Top)
  <1>0. c \in Chapter /\ Place(c) \in Places /\ ActiveAt(Place(c)) = c
    BY TopTypes, PlaceTypes, ActiveAtPlace
  <1>1. /\ mounted /\ mounted' = mounted
        /\ UNCHANGED <<reducedMotion, active, writing, remembered>>
    BY DEF ResultComes
  <1>2. CASE late \/ active = c
    <2>1. UNCHANGED <<at, goal, framed, hashes, here, toast, strayed>>
      BY <1>2 DEF ResultComes
    <2>2. StoryTypes' /\ Dest' = Dest
      BY <1>1, <2>1 DEF StoryInv, StoryTypes, Dest
    <2> QED
      BY <1>1, <2>1, <2>2
      DEF StoryInv, GoalAway, ShownFits, LeftQuiet, HashOnItsWay
  <1>3. CASE ~(late \/ active = c)
    <2>1. toast' = at /\ ScrollTo(Place(c)) /\ hashes' = hashes /\ here' = here
          /\ strayed' = strayed
      BY <1>3 DEF ResultComes, GoTo
    <2>2. /\ at' \in Places /\ goal' \in Somewhere /\ framed' \in BOOLEAN
          /\ GoalAway' /\ ShownFits' /\ Dest' = Place(c)
      BY <1>0, <1>1, <2>1, ScrollFacts
    <2>3. strayed' \in BOOLEAN /\ toast' \in Somewhere
      BY <2>1 DEF StoryInv, StoryTypes, Somewhere
    <2>4. active # ActiveAt(Dest')
      BY <1>0, <1>3, <2>2
    <2> QED
      BY <1>1, <2>1, <2>2, <2>3, <2>4, GoThere
  <1> QED
    BY <1>2, <1>3

(* A hash is made, or found, for the chapter one goes to. *)
LEMMA GoNamed ==
  ASSUME StoryInv, mounted, mounted' = mounted, NEW y \in Places, ScrollTo(y),
         hashes' \in Seq(Hashes), here' \in 1..Len(hashes'), Names(hashes'[here'], ActiveAt(y)),
         strayed' = FALSE, UNCHANGED <<reducedMotion, active, writing, remembered, toast>>
  PROVE  StoryInv'
  <1>1. /\ at' \in Places /\ goal' \in Somewhere /\ framed' \in BOOLEAN
        /\ GoalAway' /\ ShownFits' /\ Dest' = y
    BY ScrollFacts
  <1>2. StoryTypes' /\ LeftQuiet'
    BY <1>1 DEF StoryInv, StoryTypes, LeftQuiet
  <1>3. HashOnItsWay'
    BY <1>1 DEF HashOnItsWay
  <1> QED
    BY <1>1, <1>2, <1>3 DEF StoryInv

LEMMA PushHash ==
  ASSUME StoryTypes, NEW c \in Hashes
  PROVE  /\ pushHash(c) \in Seq(Hashes) /\ Len(pushHash(c)) = here + 1
         /\ pushHash(c)[here + 1] = c
  <1> HIDE DEF Hashes
  <1>1. hashes \in Seq(Hashes) /\ here \in 1..Len(hashes)
    BY DEF StoryTypes
  <1> DEFINE old == SubSeq(hashes, 1, here)
  <1>2. old \in Seq(Hashes) /\ Len(old) = here
    <2>1. \A i \in 1..here : hashes[i] \in Hashes
      BY <1>1
    <2> QED
      BY <1>1, <2>1, SubSeqProperties
  <1> HIDE DEF old
  <1>3. Append(old, c) \in Seq(Hashes) /\ Len(Append(old, c)) = here + 1
        /\ Append(old, c)[here + 1] = c
    BY <1>1, <1>2
  <1> QED
    BY <1>3 DEF pushHash, old

LEMMA JumpStory ==
  ASSUME StoryInv, NEW c \in Chapter, Jump(c)
  PROVE  StoryInv'
  <1>1. /\ mounted /\ mounted' = mounted /\ ScrollTo(Place(c))
        /\ hashes' = pushHash(c) /\ here' = here + 1 /\ strayed' = FALSE
        /\ UNCHANGED <<reducedMotion, active, writing, remembered, toast>>
    BY DEF Jump, GoTo
  <1>2. Place(c) \in Places /\ ActiveAt(Place(c)) = c /\ c \in Hashes
    BY PlaceTypes, ActiveAtPlace DEF Hashes
  <1>3. /\ hashes' \in Seq(Hashes) /\ Len(hashes') = here + 1 /\ hashes'[here'] = c
    BY <1>1, <1>2, PushHash DEF StoryInv
  <1>4. here' \in 1..Len(hashes')
    <2>1. here \in 1..Len(hashes) /\ Len(hashes) \in Nat
      BY DEF StoryInv, StoryTypes
    <2> QED
      BY <1>1, <1>3, <2>1
  <1> QED
    BY <1>1, <1>2, <1>3, <1>4, GoNamed DEF Names

LEMMA StepStory ==
  ASSUME StoryInv, NEW d \in {-1, 1}, Step(d)
  PROVE  StoryInv'
  <1>1. PICK c \in Chapter : Jump(c)
    <2> DEFINE c == IF active + d < 1 THEN 1 ELSE IF active + d > Len(Top) THEN Len(Top)
                    ELSE active + d
    <2>1. c \in Chapter
      BY TopTypes DEF StoryInv, StoryTypes
    <2>2. Jump(c)
      BY DEF Step
    <2> HIDE DEF c
    <2> QED
      BY <2>1, <2>2
  <1> QED
    BY <1>1, JumpStory

LEMMA TraverseStory ==
  ASSUME StoryInv, NEW d \in {-1, 1}, Traverse(d)
  PROVE  StoryInv'
  <1>1. /\ mounted /\ mounted' = mounted /\ here' \in DOMAIN hashes
        /\ ScrollTo(HashPlace(hashes[here'])) /\ strayed' = FALSE
        /\ UNCHANGED <<reducedMotion, active, writing, hashes, remembered, toast>>
    BY DEF Traverse
  <1>2. hashes \in Seq(Hashes)
    BY DEF StoryInv, StoryTypes
  <1> DEFINE c == hashes[here']
  <1>3. here' \in 1..Len(hashes) /\ c \in Hashes
    <2> HIDE DEF Hashes
    <2> QED
      BY <1>1, <1>2
  <1>4. HashPlace(c) \in Places /\ Names(c, ActiveAt(HashPlace(c)))
    BY <1>3, HashPlaced DEF Hashes
  <1> QED
    BY <1>1, <1>2, <1>3, <1>4, GoNamed

LEMMA LeaveStory == StoryInv /\ Leave => StoryInv'
  <1> SUFFICES ASSUME StoryInv, Leave PROVE StoryInv'
    OBVIOUS
  <1>1. /\ mounted /\ mounted' = FALSE /\ remembered' = at /\ writing' = NoChapter
        /\ framed' = FALSE /\ goal' = NoWhere /\ toast' = NoWhere
        /\ hashes' = SubSeq(hashes, 1, here)
        /\ strayed' = (strayed \/ writing # NoChapter \/ goal # NoWhere \/ framed)
        /\ UNCHANGED <<reducedMotion, at, active, here>>
    BY DEF Leave
  <1>2. hashes \in Seq(Hashes) /\ here \in 1..Len(hashes) /\ at \in Places
    BY DEF StoryInv, StoryTypes
  <1>3. hashes' \in Seq(Hashes) /\ Len(hashes') = here /\ hashes'[here] = hashes[here]
    <2> HIDE DEF Hashes
    <2>1. \A i \in 1..here : hashes[i] \in Hashes
      BY <1>2
    <2>2. /\ hashes' \in Seq(Hashes) /\ Len(hashes') = here
          /\ \A i \in 1..here : hashes'[i] = hashes[1 + i - 1]
      BY <1>1, <1>2, <2>1, SubSeqProperties
    <2> QED
      BY <1>2, <2>2
  <1>4. StoryTypes'
    <2>1. NoWhere \in Somewhere /\ at \in Somewhere /\ NoChapter \in Hashes
      BY <1>2 DEF Somewhere, Hashes
    <2>2. here' \in 1..Len(hashes')
      BY <1>1, <1>2, <1>3
    <2>3. strayed' \in BOOLEAN
      BY <1>1 DEF StoryInv, StoryTypes
    <2> QED
      BY <1>1, <1>2, <1>3, <2>1, <2>2, <2>3 DEF StoryInv, StoryTypes
  <1>5. GoalAway' /\ ShownFits' /\ LeftQuiet' /\ Dest' = at
    BY <1>1, <1>2, NoWhereElse DEF GoalAway, ShownFits, LeftQuiet, Dest
  <1>6. HashOnItsWay'
    <2> SUFFICES ASSUME ~strayed' PROVE Names(hashes'[here'], ActiveAt(Dest'))
      BY DEF HashOnItsWay
    <2>1. ~strayed /\ writing = NoChapter /\ goal = NoWhere /\ ~framed
      BY <1>1
    <2>2. Names(hashes[here], active) /\ active = ActiveAt(at)
      BY <1>1, <2>1, SettledNames DEF StoryInv, ShownFits
    <2> QED
      BY <1>1, <1>3, <1>5, <2>2
  <1> QED
    BY <1>4, <1>5, <1>6 DEF StoryInv

LEMMA ReturnStory == StoryInv /\ Return => StoryInv'
  <1> SUFFICES ASSUME StoryInv, Return PROVE StoryInv'
    OBVIOUS
  <1>1. /\ ~mounted /\ mounted' = TRUE /\ at' = remembered /\ active' = 1 /\ framed' = TRUE
        /\ UNCHANGED <<reducedMotion, goal, writing, hashes, here, remembered, toast, strayed>>
    BY DEF Return
  <1>2. remembered \in Places /\ 1 \in Chapter /\ goal = NoWhere
    BY <1>1, SomewhereIs, TopTypes DEF StoryInv, StoryTypes, LeftQuiet
  <1>3. StoryTypes'
    BY <1>1, <1>2 DEF StoryInv, StoryTypes
  <1>4. GoalAway' /\ ShownFits' /\ LeftQuiet' /\ Dest' = Dest
    BY <1>1, <1>2 DEF StoryInv, GoalAway, ShownFits, LeftQuiet, Dest
  <1>5. HashOnItsWay'
    BY <1>1, <1>4 DEF StoryInv, HashOnItsWay
  <1> QED
    BY <1>3, <1>4, <1>5 DEF StoryInv

LEMMA StayStory ==
  ASSUME StoryInv, toast' \in Somewhere,
         UNCHANGED <<reducedMotion, at, goal, framed, active, writing, hashes, here, mounted,
                     remembered, strayed>>
  PROVE  StoryInv'
  <1>1. StoryTypes' /\ Dest' = Dest
    BY DEF StoryInv, StoryTypes, Dest
  <1> QED
    BY <1>1 DEF StoryInv, GoalAway, ShownFits, LeftQuiet, HashOnItsWay

LEMMA NextStory == StoryInv /\ [StoryNext]_storyVars => StoryInv'
  <1> SUFFICES ASSUME StoryInv, [StoryNext]_storyVars PROVE StoryInv'
    OBVIOUS
  <1>1. toast \in Somewhere /\ NoWhere \in Somewhere
    BY DEF StoryInv, StoryTypes, Somewhere
  <1>2. CASE PressRun \/ ToastExpires \/ UNCHANGED storyVars
    BY <1>1, <1>2, StayStory DEF PressRun, ToastExpires, storyVars
  <1>3. ASSUME NEW y \in 0..Bottom, UserScrolls(y) PROVE StoryInv'
    BY <1>3, UserStory DEF Places
  <1> QED
    BY <1>2, <1>3, SmoothStepStory, FrameStory, WriteHashStory, JumpStory, StepStory,
       TraverseStory, BackToSetupStory, LeaveStory, ReturnStory, ResultStory DEF StoryNext

(* Once scrolling and the write have settled, the hash of the entry that   *)
(* is shown names the current chapter, for every page, every history and   *)
(* whatever is done on it, unless the hash was left for one of the reasons *)
(* that the model records.                                                 *)
THEOREM StoryHashFollows == StorySpec => []HashFollows
  <1>1. StoryInv => HashFollows
    BY SettledNames DEF HashFollows, StorySettled, Names
  <1> QED
    BY <1>1, InitStory, NextStory, PTL DEF StorySpec
-----------------------------------------------------------------------------
(* The simulation page: what is under way to it. *)

Counts == [VDevice -> Nat]
SimPhase == {"IDLE", "STARTING", "RUNNING", "STOPPING", "DONE"}
TickMessage == [kind : {"tick"}, seq : Nat, phase : SimPhase, sent : Counts, begun : BOOLEAN,
                diffs : SUBSET VDevice]
Snapshot == [kind : {"snapshot"}, seq : Nat, phase : SimPhase, sent : Counts, begun : BOOLEAN,
             summary : BOOLEAN]
Done == [kind |-> "done"]
Message == TickMessage \cup Snapshot \cup {Done}
EngineState == [phase : SimPhase, seq : Nat, devices : Counts, dirty : SUBSET VDevice,
                begun : BOOLEAN, summary : BOOLEAN, closing : BOOLEAN]
ViewState == [seq : Nat, phase : SimPhase, devices : Counts, known : BOOLEAN, named : BOOLEAN,
              summary : BOOLEAN, sent : Counts, late : BOOLEAN]

SimTypes ==
  /\ engine \in EngineState /\ view \in ViewState
  /\ wire = <<Down>> \/ wire \in Seq(Message)
  /\ answer \in {NoAnswer, Asked, Starting} \cup Snapshot

(* A run that goes on has had its first tick; what is torn down after a    *)
(* failed start has too, and does not run.                                 *)
TickedOnce ==
  /\ engine.phase \in {"RUNNING", "STOPPING"} => engine.seq > 0
  /\ engine.closing => engine.phase = "IDLE" /\ engine.seq > 0

(* The messages under way, and with them the tick that the engine would    *)
(* emit next.                                                              *)
Running == engine.phase = "RUNNING"
NextTick == TickOf(engine, FALSE)
Sent == IF Connected THEN wire ELSE <<>>
Pipe == IF Connected /\ Running THEN Append(Sent, NextTick) ELSE Sent

IsTick(m) == m.kind = "tick"
First(m) == IsTick(m) /\ m.seq = 1
Whole(m) == m.kind = "snapshot" \/ First(m)
Plain(m) == IsTick(m) /\ m.seq # 1 /\ m.phase = "RUNNING"

(* Whoever had s has with the diffs of m what m was sent with. *)
Linked(m, s) == \A d \in VDevice \ m.diffs : m.sent[d] = s[d]
Follows(m, l) == (Whole(l) \/ Plain(l)) /\ m.seq = l.seq + 1 /\ Linked(m, l.sent)

NoneWhole(p, i, j) == \A k \in i..j : ~Whole(p[k])
Latest(p, k) == \A i \in (k + 1)..Len(p) : ~First(p[i])

(* Ticks of diffs come only after a whole message, and no tick is missing  *)
(* between; the others tell of every device.                               *)
WholeTicks(p) == \A k \in 1..Len(p) : IsTick(p[k]) /\ ~Plain(p[k]) => p[k].diffs = VDevice
PlainRuns(p) == \A j, k \in 1..Len(p) :
  j < k /\ Plain(p[k]) /\ NoneWhole(p, j + 1, k) =>
    /\ Whole(p[j]) \/ Plain(p[j])
    /\ p[k].seq = p[j].seq + (k - j)
    /\ k = j + 1 => Linked(p[k], p[j].sent)

(* What was sent since the first tick under way has at most number q. *)
NotAhead(p, q) == \A k \in 1..Len(p) : Latest(p, k) /\ p[k] # Done => p[k].seq <= q

(* Who is at number q with s can take the diffs that come before the next  *)
(* whole message.                                                          *)
ViewLinked(p, q, s) == \A k \in 1..Len(p) : Plain(p[k]) /\ NoneWhole(p, 1, k) =>
  /\ p[k].seq = q + 1 => Linked(p[k], s)
  /\ k = 1 => p[k].seq <= q + 1

(* An answer with number q and s, against what is under way. *)
AnswerLinked(p, q, s) == \A k \in 1..Len(p) :
  Plain(p[k]) /\ Latest(p, k) /\ p[k].seq = q + 1 => Linked(p[k], s)
AnswerInTime(p, q, seen) ==
  Len(p) > 0 /\ Plain(p[1]) /\ Latest(p, 1) => p[1].seq <= q + 1 \/ q < seen

PipeRuns == WholeTicks(Pipe) /\ PlainRuns(Pipe) /\ NotAhead(Sent, engine.seq)

ViewFits ==
  /\ ~view.late => ViewLinked(Pipe, view.seq, view.sent)
  /\ Connected /\ NoneWhole(Pipe, 1, Len(Pipe)) => view.seq <= engine.seq

AnswerKnown == answer.kind = "snapshot" =>
  /\ answer.seq <= engine.seq
  /\ Running /\ answer.seq = engine.seq =>
       \A d \in VDevice \ engine.dirty : engine.devices[d] = answer.sent[d]
AnswerLinks == answer.kind = "snapshot" =>
  /\ AnswerLinked(Pipe, answer.seq, answer.sent)
  /\ AnswerInTime(Pipe, answer.seq, view.seq)

SimInv ==
  SimTypes /\ TickedOnce /\ PipeRuns /\ ViewFits /\ AnswerKnown /\ AnswerLinks /\ NotBehind
-----------------------------------------------------------------------------
(* What the handlers make of the records. *)

LEMMA UntouchedType == Untouched \in Counts
  BY DEF Untouched, Counts

LEMMA MessageKinds ==
  /\ \A m \in TickMessage : m \in Message /\ m.kind = "tick"
  /\ \A m \in Snapshot : m \in Message /\ m.kind = "snapshot"
  /\ Done \in Message /\ Done.kind = "done"
  /\ \A m \in Message : /\ m.kind = "tick" => m \in TickMessage
                        /\ m.kind = "snapshot" => m \in Snapshot
                        /\ m.kind \in {"tick", "snapshot"} \/ m = Done
                        /\ m # Down
  BY DEF Message, TickMessage, Snapshot, Done, Down

LEMMA AnswerKinds ==
  /\ NoAnswer.kind # "snapshot" /\ Asked.kind # "snapshot" /\ Starting.kind # "snapshot"
  /\ \A m \in Snapshot : m # NoAnswer /\ m # Asked /\ m # Starting
  BY DEF NoAnswer, Asked, Starting, Snapshot

LEMMA TickFacts ==
  ASSUME NEW e \in EngineState, NEW full \in BOOLEAN
  PROVE  LET t == TickOf(e, full) IN
         /\ t \in TickMessage /\ t.kind = "tick" /\ t.seq = e.seq + 1 /\ t.phase = e.phase
         /\ t.sent = e.devices /\ t.begun = e.begun
         /\ t.diffs = IF full THEN VDevice ELSE e.dirty
  BY DEF TickOf, TickMessage, EngineState

LEMMA SnapshotFacts ==
  ASSUME NEW e \in EngineState
  PROVE  /\ SnapshotOf(e) \in Snapshot /\ SnapshotOf(e).kind = "snapshot"
         /\ SnapshotOf(e).seq = e.seq /\ SnapshotOf(e).sent = e.devices
  BY DEF SnapshotOf, Snapshot, EngineState

LEMMA TickedFacts ==
  ASSUME NEW e \in EngineState
  PROVE  /\ Ticked(e) \in EngineState /\ Ticked(e).seq = e.seq + 1 /\ Ticked(e).dirty = {}
         /\ Ticked(e).phase = e.phase /\ Ticked(e).devices = e.devices
         /\ Ticked(e).closing = e.closing
  <1> DEFINE n == e.seq + 1
             s == {}
             x == [e EXCEPT !.seq = n, !.dirty = s]
  <1>1. n \in Nat /\ s \in SUBSET VDevice /\ Ticked(e) = x
    BY DEF EngineState, Ticked
  <1>2. n = e.seq + 1 /\ s = {}
    OBVIOUS
  <1> HIDE DEF n, s
  <1>3. /\ x \in EngineState /\ x.seq = n /\ x.dirty = s /\ x.phase = e.phase
        /\ x.devices = e.devices /\ x.closing = e.closing
    BY <1>1 DEF EngineState
  <1> QED
    BY <1>1, <1>2, <1>3

(* Another phase. *)
LEMMA PhaseFacts ==
  ASSUME NEW e \in EngineState, NEW p \in SimPhase
  PROVE  LET x == [e EXCEPT !.phase = p] IN
         /\ x \in EngineState /\ x.phase = p /\ x.seq = e.seq /\ x.dirty = e.dirty
         /\ x.devices = e.devices /\ x.closing = e.closing
  BY DEF EngineState

LEMMA ClosedFacts ==
  ASSUME NEW e \in EngineState
  PROVE  /\ Closed(e) \in EngineState /\ Closed(e).phase = "DONE" /\ Closed(e).seq = e.seq
         /\ Closed(e).devices = e.devices /\ Closed(e).closing = FALSE
  <1>1. "DONE" \in SimPhase
    BY DEF SimPhase
  <1> QED
    BY <1>1 DEF Closed, EngineState

LEMMA SetUpFacts ==
  ASSUME NEW e, e = [phase |-> "RUNNING", seq |-> 0, devices |-> Untouched, dirty |-> {},
                     begun |-> TRUE, summary |-> FALSE, closing |-> FALSE]
  PROVE  /\ e \in EngineState /\ e.phase = "RUNNING" /\ e.seq = 0 /\ e.devices = Untouched
         /\ e.closing = FALSE
  BY UntouchedType DEF EngineState, SimPhase

LEMMA FailedFacts ==
  ASSUME NEW e \in EngineState, NEW x,
         x = [e EXCEPT !.phase = "STOPPING", !.seq = 0, !.summary = FALSE, !.closing = e.begun]
  PROVE  x \in EngineState /\ x.phase = "STOPPING" /\ x.seq = 0
  <1> DEFINE p == "STOPPING"
             n == 0
             s == FALSE
             c == e.begun
             y == [e EXCEPT !.phase = p, !.seq = n, !.summary = s, !.closing = c]
  <1>1. p \in SimPhase /\ n \in Nat /\ s \in BOOLEAN /\ c \in BOOLEAN
    BY DEF EngineState, SimPhase
  <1>2. x = y /\ p = "STOPPING" /\ n = 0
    OBVIOUS
  <1> HIDE DEF p, n, s, c
  <1>3. y \in EngineState /\ y.phase = p /\ y.seq = n
    BY <1>1 DEF EngineState
  <1> QED
    BY <1>2, <1>3

LEMMA ChangedFacts ==
  ASSUME engine \in EngineState, NEW d \in VDevice, Change(d)
  PROVE  /\ engine' \in EngineState /\ engine'.phase = engine.phase /\ engine'.seq = engine.seq
         /\ engine'.closing = engine.closing
         /\ engine'.dirty = engine.dirty \cup {d}
         /\ \A c \in VDevice : c # d => engine'.devices[c] = engine.devices[c]
  <1> DEFINE n == engine.devices[d] + 1
             f == [engine.devices EXCEPT ![d] = n]
             s == engine.dirty \cup {d}
  <1>1. engine.devices \in Counts /\ n \in Nat /\ s \in SUBSET VDevice
    BY DEF EngineState, Counts
  <1>2. f \in Counts /\ \A c \in VDevice : c # d => f[c] = engine.devices[c]
    <2> HIDE DEF n
    <2> QED
      BY <1>1 DEF Counts
  <1>3. engine' = [engine EXCEPT !.devices = f, !.dirty = s]
    BY <1>1 DEF Change, EngineState, Counts
  <1>4. s = engine.dirty \cup {d}
    OBVIOUS
  <1> HIDE DEF f, s
  <1> DEFINE y == [engine EXCEPT !.devices = f, !.dirty = s]
  <1>5. /\ y \in EngineState /\ y.phase = engine.phase /\ y.seq = engine.seq
        /\ y.closing = engine.closing
        /\ y.dirty = s /\ y.devices = f
    BY <1>1, <1>2 DEF EngineState
  <1>6. engine' = y
    BY <1>3
  <1> HIDE DEF y
  <1> QED
    BY <1>2, <1>4, <1>5, <1>6

(* What the page makes of a message. *)
LEMMA ShownFacts ==
  ASSUME NEW s \in Snapshot, NEW late \in BOOLEAN
  PROVE  LET v == [Shown(s) EXCEPT !.late = late] IN
         /\ v \in ViewState /\ v.seq = s.seq /\ v.sent = s.sent /\ v.devices = s.sent
         /\ v.late = late
         /\ Shown(s) \in ViewState /\ Shown(s).seq = s.seq /\ Shown(s).sent = s.sent
         /\ Shown(s).devices = s.sent /\ Shown(s).late = FALSE
  BY DEF Shown, ViewState, Snapshot

LEMMA MergedFacts ==
  ASSUME NEW v \in ViewState, NEW t \in TickMessage
  PROVE  /\ Merged(v, t) \in ViewState
         /\ t.seq # 1 /\ t.seq <= v.seq => Merged(v, t) = v
         /\ t.seq = 1 \/ t.seq > v.seq =>
              /\ Merged(v, t).seq = t.seq /\ Merged(v, t).sent = t.sent
              /\ \A d \in t.diffs : Merged(v, t).devices[d] = t.sent[d]
         /\ t.seq # 1 /\ t.seq > v.seq =>
              /\ \A d \in VDevice \ t.diffs : Merged(v, t).devices[d] = v.devices[d]
              /\ Merged(v, t).late = (v.late /\ t.diffs # VDevice)
         /\ t.seq = 1 => Merged(v, t).late = FALSE
  <1> DEFINE base == IF t.seq = 1 THEN Fresh(v) ELSE v
             g == [d \in VDevice |-> IF d \in t.diffs THEN t.sent[d] ELSE base.devices[d]]
             l == base.late /\ t.diffs # VDevice
             m == [base EXCEPT !.seq = t.seq, !.phase = t.phase, !.known = t.begun,
                               !.sent = t.sent, !.devices = g, !.late = l]
  <1>1. EmptyView \in ViewState /\ EmptyView.late = FALSE
    BY UntouchedType DEF EmptyView, ViewState, SimPhase
  <1>2. Fresh(v) \in ViewState /\ Fresh(v).late = FALSE
    <2>1. v.named \in BOOLEAN
      BY DEF ViewState
    <2> QED
      BY <1>1, <2>1 DEF Fresh, ViewState
  <1>3. base \in ViewState
    BY <1>2
  <1>4. t.seq \in Nat /\ t.phase \in SimPhase /\ t.begun \in BOOLEAN /\ t.sent \in Counts
        /\ t.diffs \in SUBSET VDevice
    BY DEF TickMessage
  <1>5. g \in Counts /\ \A d \in VDevice : g[d] = IF d \in t.diffs THEN t.sent[d] ELSE base.devices[d]
    <2>1. base.devices \in Counts
      BY <1>3 DEF ViewState
    <2> HIDE DEF base
    <2> QED
      BY <1>4, <2>1 DEF Counts
  <1>6. l \in BOOLEAN
    OBVIOUS
  <1>7. m \in ViewState /\ m.seq = t.seq /\ m.sent = t.sent /\ m.devices = g /\ m.late = l
    <2> HIDE DEF base, g, l
    <2> QED
      BY <1>3, <1>4, <1>5, <1>6 DEF ViewState
  <1>8. Merged(v, t) = IF t.seq # 1 /\ t.seq <= v.seq THEN v ELSE m
    BY DEF Merged
  <1>9. v.seq \in Nat
    BY DEF ViewState
  <1>10. l = (base.late /\ t.diffs # VDevice) /\ base = (IF t.seq = 1 THEN Fresh(v) ELSE v)
    OBVIOUS
  <1>11. \A d \in VDevice : (d \in t.diffs => g[d] = t.sent[d]) /\ (d \notin t.diffs => g[d] = base.devices[d])
    BY <1>5
  <1>12. \A d \in t.diffs : d \in VDevice
    BY <1>4
  <1>13. t.seq = 1 => Merged(v, t) = m /\ base.late = FALSE
    BY <1>2, <1>8, <1>10
  <1>14. t.seq # 1 => base = v
    BY <1>10
  <1>15. t.seq # 1 /\ t.seq > v.seq => Merged(v, t) = m
    BY <1>4, <1>8, <1>9
  <1>16. t.seq # 1 /\ t.seq <= v.seq => Merged(v, t) = v
    BY <1>8
  <1>17. t.seq = 1 \/ t.seq > v.seq \/ (t.seq # 1 /\ t.seq <= v.seq)
    BY <1>4, <1>9
  <1> HIDE DEF m, g, l, base
  <1>18. t.seq = 1 \/ t.seq > v.seq => Merged(v, t) = m
    BY <1>13, <1>15
  <1>19. Merged(v, t) \in ViewState
    BY <1>7, <1>16, <1>17, <1>18
  <1>20. t.seq = 1 \/ t.seq > v.seq =>
           /\ Merged(v, t).seq = t.seq /\ Merged(v, t).sent = t.sent
           /\ \A d \in t.diffs : Merged(v, t).devices[d] = t.sent[d]
    BY <1>7, <1>11, <1>12, <1>18
  <1>21. t.seq # 1 /\ t.seq > v.seq =>
           /\ \A d \in VDevice \ t.diffs : Merged(v, t).devices[d] = v.devices[d]
           /\ Merged(v, t).late = (v.late /\ t.diffs # VDevice)
    BY <1>7, <1>10, <1>11, <1>14, <1>18
  <1>22. t.seq = 1 => Merged(v, t).late = FALSE
    BY <1>7, <1>10, <1>13
  <1> QED
    BY <1>16, <1>19, <1>20, <1>21, <1>22
-----------------------------------------------------------------------------
(* Messages that join what is under way, and messages that leave it. *)

LEMMA KindFacts ==
  /\ \A m \in Message : Whole(m) \/ Plain(m) \/ IsTick(m) => m.seq \in Nat /\ m.sent \in Counts
  /\ \A m \in Message : m # Done => m.seq \in Nat
  /\ \A m \in Message : ~(Whole(m) /\ Plain(m))
  /\ \A m \in Message : First(m) => Whole(m)
  /\ ~Whole(Done) /\ ~Plain(Done) /\ ~IsTick(Done) /\ ~First(Done)
  <1>1. \A m \in TickMessage : m.seq \in Nat /\ m.sent \in Counts
    BY DEF TickMessage
  <1>2. \A m \in Snapshot : m.seq \in Nat /\ m.sent \in Counts
    BY DEF Snapshot
  <1> QED
    BY <1>1, <1>2, MessageKinds DEF Whole, Plain, IsTick, First

LEMMA Appended ==
  ASSUME NEW p \in Seq(Message), NEW m \in Message
  PROVE  /\ Append(p, m) \in Seq(Message) /\ Len(Append(p, m)) = Len(p) + 1
         /\ \A k \in 1..Len(p) : Append(p, m)[k] = p[k]
         /\ Append(p, m)[Len(p) + 1] = m
         /\ Len(p) \in Nat /\ \A k \in 1..Len(p) : p[k] \in Message
  <1> HIDE DEF Message
  <1> QED
    BY AppendProperties

LEMMA Shifted ==
  ASSUME NEW p \in Seq(Message), p # <<>>
  PROVE  /\ Tail(p) \in Seq(Message) /\ Len(Tail(p)) = Len(p) - 1 /\ Len(p) >= 1
         /\ \A k \in 1..Len(Tail(p)) : Tail(p)[k] = p[k + 1]
         /\ Head(p) = p[1] /\ Head(p) \in Message
         /\ Len(p) \in Nat /\ \A k \in 1..Len(p) : p[k] \in Message
  <1> HIDE DEF Message
  <1> QED
    BY HeadTailProperties

LEMMA WholesGrow ==
  ASSUME NEW p \in Seq(Message), NEW m \in Message
  PROVE  LET r == Append(p, m)  n == Len(p) IN
         /\ \A i \in 1..(n + 1), k \in 1..n : NoneWhole(r, i, k) <=> NoneWhole(p, i, k)
         /\ \A i \in 1..(n + 1) : NoneWhole(r, i, n + 1) <=> NoneWhole(p, i, n) /\ ~Whole(m)
         /\ \A k \in 1..n : Latest(r, k) <=> Latest(p, k) /\ ~First(m)
         /\ Latest(r, n + 1)
  <1> DEFINE r == Append(p, m)
             n == Len(p)
  <1>1. /\ n \in Nat /\ Len(r) = n + 1
        /\ \A k \in 1..n : r[k] = p[k]
        /\ r[n + 1] = m
    BY Appended
  <1> HIDE DEF r, n
  <1>2. \A i \in 1..(n + 1), k \in 1..n : NoneWhole(r, i, k) <=> NoneWhole(p, i, k)
    BY <1>1 DEF NoneWhole
  <1>3. \A i \in 1..(n + 1) : NoneWhole(r, i, n + 1) <=> NoneWhole(p, i, n) /\ ~Whole(m)
    BY <1>1 DEF NoneWhole
  <1>4. \A k \in 1..n : Latest(r, k) <=> Latest(p, k) /\ ~First(m)
    BY <1>1 DEF Latest, n
  <1>5. Latest(r, n + 1)
    BY <1>1 DEF Latest
  <1> QED
    BY <1>2, <1>3, <1>4, <1>5 DEF r, n

LEMMA NoneGrows ==
  ASSUME NEW p \in Seq(Message), NEW m \in Message
  PROVE  NoneWhole(Append(p, m), 1, Len(Append(p, m))) <=> NoneWhole(p, 1, Len(p)) /\ ~Whole(m)
  <1>1. Len(Append(p, m)) = Len(p) + 1 /\ 1 \in 1..(Len(p) + 1)
    BY Appended
  <1> QED
    BY <1>1, WholesGrow

LEMMA RunsGrow ==
  ASSUME NEW p \in Seq(Message), NEW m \in Message
  PROVE  LET r == Append(p, m) IN
         WholeTicks(r) /\ PlainRuns(r) <=>
           /\ WholeTicks(p) /\ PlainRuns(p)
           /\ IsTick(m) /\ ~Plain(m) => m.diffs = VDevice
           /\ Plain(m) /\ p # <<>> => Follows(m, p[Len(p)])
  <1> DEFINE r == Append(p, m)
             n == Len(p)
  <1>1. /\ n \in Nat /\ Len(r) = n + 1
        /\ \A k \in 1..n : r[k] = p[k] /\ p[k] \in Message
        /\ r[n + 1] = m
    BY Appended
  <1>2. /\ \A i \in 1..(n + 1), k \in 1..n : NoneWhole(r, i, k) <=> NoneWhole(p, i, k)
        /\ \A i \in 1..(n + 1) : NoneWhole(r, i, n + 1) <=> NoneWhole(p, i, n) /\ ~Whole(m)
    BY WholesGrow
  <1>3. n = Len(p) /\ (p # <<>> <=> n > 0)
    BY <1>1
  <1> HIDE DEF r, n
  <1>4. WholeTicks(r) <=> WholeTicks(p) /\ (IsTick(m) /\ ~Plain(m) => m.diffs = VDevice)
    BY <1>1, <1>3 DEF WholeTicks
  <1>5. ASSUME PlainRuns(r) PROVE PlainRuns(p)
    <2> SUFFICES ASSUME NEW j \in 1..n, NEW k \in 1..n,
                        j < k, Plain(p[k]), NoneWhole(p, j + 1, k)
                 PROVE  /\ Whole(p[j]) \/ Plain(p[j])
                        /\ p[k].seq = p[j].seq + (k - j)
                        /\ k = j + 1 => Linked(p[k], p[j].sent)
      BY <1>3 DEF PlainRuns
    <2>1. j \in 1..Len(r) /\ k \in 1..Len(r) /\ j + 1 \in 1..(n + 1)
      BY <1>1
    <2>2. r[j] = p[j] /\ r[k] = p[k] /\ NoneWhole(r, j + 1, k)
      BY <1>1, <1>2, <2>1
    <2> QED
      BY <1>5, <2>1, <2>2 DEF PlainRuns
  <1>6. ASSUME PlainRuns(r), Plain(m), p # <<>> PROVE Follows(m, p[n])
    <2>1. n \in 1..Len(r) /\ n + 1 \in 1..Len(r) /\ n < n + 1 /\ n \in 1..n /\ n + 1 \in 1..(n + 1)
      BY <1>1, <1>3, <1>6
    <2>2. r[n] = p[n] /\ r[n + 1] = m
      BY <1>1, <2>1
    <2>3. NoneWhole(r, n + 1, n + 1)
      BY <1>1, <1>6, KindFacts DEF NoneWhole
    <2>4. m.seq = p[n].seq + ((n + 1) - n) /\ (Whole(p[n]) \/ Plain(p[n])) /\ Linked(m, p[n].sent)
      BY <1>6, <2>1, <2>2, <2>3 DEF PlainRuns
    <2>5. (n + 1) - n = 1
      BY <1>1
    <2> QED
      BY <2>4, <2>5 DEF Follows
  <1>7. ASSUME PlainRuns(p), Plain(m) /\ p # <<>> => Follows(m, p[n])
        PROVE  PlainRuns(r)
    <2> SUFFICES ASSUME NEW j \in 1..(n + 1), NEW k \in 1..(n + 1),
                        j < k, Plain(r[k]), NoneWhole(r, j + 1, k)
                 PROVE  /\ Whole(r[j]) \/ Plain(r[j])
                        /\ r[k].seq = r[j].seq + (k - j)
                        /\ k = j + 1 => Linked(r[k], r[j].sent)
      BY <1>1 DEF PlainRuns
    <2>1. j \in 1..n /\ r[j] = p[j] /\ j + 1 \in 1..(n + 1) /\ p # <<>>
      BY <1>1, <1>3
    <2>2. CASE k \in 1..n
      BY <1>1, <1>2, <1>3, <1>7, <2>1, <2>2 DEF PlainRuns
    <2>3. CASE k = n + 1
      <3>1. r[k] = m /\ Plain(m) /\ Follows(m, p[n]) /\ NoneWhole(p, j + 1, n)
        BY <1>1, <1>2, <1>7, <2>1, <2>3
      <3>2. CASE j = n
        <4>1. k - j = 1
          BY <1>1, <2>3, <3>2
        <4> QED
          BY <2>1, <3>1, <3>2, <4>1 DEF Follows
      <3>3. CASE j # n
        <4>1. n \in 1..n /\ j < n /\ n \in (j + 1)..n /\ k # j + 1 /\ p[n] \in Message
          BY <1>1, <2>1, <2>3, <3>3
        <4>2. Plain(p[n]) /\ m.seq = p[n].seq + 1
          BY <3>1, <4>1 DEF NoneWhole, Follows
        <4>3. (Whole(p[j]) \/ Plain(p[j])) /\ p[n].seq = p[j].seq + (n - j)
          BY <1>3, <1>7, <2>1, <3>1, <4>1, <4>2 DEF PlainRuns
        <4>4. p[j].seq \in Nat
          BY <1>1, <2>1, <4>3, KindFacts
        <4>5. m.seq = p[j].seq + (k - j)
          <5>1. \A x \in Nat : x + (k - j) = (x + (n - j)) + 1
            BY <1>1, <2>1, <2>3
          <5>2. m.seq = (p[j].seq + (n - j)) + 1
            BY <4>2, <4>3
          <5> QED
            BY <4>4, <5>1, <5>2
        <4> QED
          BY <2>1, <3>1, <4>1, <4>3, <4>5
      <3> QED
        BY <3>2, <3>3
    <2> QED
      BY <1>1, <2>2, <2>3
  <1> QED
    BY <1>3, <1>4, <1>5, <1>6, <1>7 DEF r, n

LEMMA AheadGrows ==
  ASSUME NEW p \in Seq(Message), NEW m \in Message, NEW q \in Nat, NEW q2 \in Nat,
         m # Done => m.seq <= q2,
         First(m) \/ (NotAhead(p, q) /\ q <= q2)
  PROVE  NotAhead(Append(p, m), q2)
  <1> DEFINE r == Append(p, m)
             n == Len(p)
  <1>1. /\ n \in Nat /\ Len(r) = n + 1
        /\ \A k \in 1..n : r[k] = p[k] /\ p[k] \in Message
        /\ r[n + 1] = m
    BY Appended
  <1>2. \A k \in 1..n : Latest(r, k) <=> Latest(p, k) /\ ~First(m)
    BY WholesGrow
  <1>3. n = Len(p)
    OBVIOUS
  <1> HIDE DEF r, n
  <1> SUFFICES ASSUME NEW k \in 1..(n + 1), Latest(r, k), r[k] # Done
               PROVE  r[k].seq <= q2
    BY <1>1 DEF NotAhead, r
  <1>4. CASE k = n + 1
    BY <1>1, <1>4
  <1>5. CASE k \in 1..n
    <2>1. r[k] = p[k] /\ p[k].seq \in Nat /\ ~First(m) /\ Latest(p, k)
      BY <1>1, <1>2, <1>5, KindFacts
    <2>2. p[k].seq <= q
      BY <1>3, <1>5, <2>1 DEF NotAhead
    <2> QED
      BY <2>1, <2>2
  <1> QED
    BY <1>1, <1>4, <1>5

LEMMA AheadRises ==
  ASSUME NEW p \in Seq(Message), NEW q \in Nat, NEW q2 \in Nat, NotAhead(p, q), q <= q2
  PROVE  NotAhead(p, q2)
  <1>1. \A k \in 1..Len(p) : p[k] \in Message
    OBVIOUS
  <1>2. \A k \in 1..Len(p) : p[k] # Done => p[k].seq \in Nat
    BY <1>1, KindFacts
  <1> QED
    BY <1>2 DEF NotAhead

LEMMA ViewGrows ==
  ASSUME NEW p \in Seq(Message), NEW m \in Message, NEW q, NEW s
  PROVE  ViewLinked(Append(p, m), q, s) <=>
           /\ ViewLinked(p, q, s)
           /\ Plain(m) /\ NoneWhole(p, 1, Len(p)) =>
                /\ m.seq = q + 1 => Linked(m, s)
                /\ p = <<>> => m.seq <= q + 1
  <1> DEFINE r == Append(p, m)
             n == Len(p)
  <1>1. /\ n \in Nat /\ Len(r) = n + 1
        /\ \A k \in 1..n : r[k] = p[k] /\ p[k] \in Message
        /\ r[n + 1] = m
    BY Appended
  <1>2. /\ \A k \in 1..n : NoneWhole(r, 1, k) <=> NoneWhole(p, 1, k)
        /\ NoneWhole(r, 1, n + 1) <=> NoneWhole(p, 1, n) /\ ~Whole(m)
    BY <1>1, WholesGrow
  <1>3. n = Len(p) /\ (p = <<>> <=> n = 0)
    BY <1>1
  <1>4. Plain(m) => ~Whole(m)
    BY KindFacts
  <1> DEFINE F(k) == /\ r[k].seq = q + 1 => Linked(r[k], s)
                     /\ k = 1 => r[k].seq <= q + 1
  <1> HIDE DEF r, n
  <1>5. ViewLinked(r, q, s) <=> \A k \in 1..(n + 1) : Plain(r[k]) /\ NoneWhole(r, 1, k) => F(k)
    BY <1>1 DEF ViewLinked
  <1>6. ViewLinked(p, q, s) <=> \A k \in 1..n : Plain(r[k]) /\ NoneWhole(r, 1, k) => F(k)
    BY <1>1, <1>2, <1>3 DEF ViewLinked
  <1>7. (Plain(m) /\ NoneWhole(p, 1, n) =>
           /\ m.seq = q + 1 => Linked(m, s)
           /\ p = <<>> => m.seq <= q + 1)
        <=> (Plain(r[n + 1]) /\ NoneWhole(r, 1, n + 1) => F(n + 1))
    BY <1>1, <1>2, <1>3, <1>4
  <1> HIDE DEF F
  <1>8. \A k : k \in 1..(n + 1) <=> k \in 1..n \/ k = n + 1
    BY <1>1
  <1>9. ViewLinked(r, q, s) <=>
          ViewLinked(p, q, s) /\ (Plain(r[n + 1]) /\ NoneWhole(r, 1, n + 1) => F(n + 1))
    BY <1>5, <1>6, <1>8, Zenon
  <1> QED
    BY <1>3, <1>7, <1>9 DEF r, n

LEMMA AnswerGrows ==
  ASSUME NEW p \in Seq(Message), NEW m \in Message, NEW q, NEW s
  PROVE  /\ (First(m) \/ AnswerLinked(p, q, s)) /\ (Plain(m) /\ m.seq = q + 1 => Linked(m, s))
              => AnswerLinked(Append(p, m), q, s)
         /\ AnswerLinked(Append(p, m), q, s) /\ ~First(m)
              => AnswerLinked(p, q, s) /\ (Plain(m) /\ m.seq = q + 1 => Linked(m, s))
  <1> DEFINE r == Append(p, m)
             n == Len(p)
  <1>1. /\ n \in Nat /\ Len(r) = n + 1
        /\ \A k \in 1..n : r[k] = p[k] /\ p[k] \in Message
        /\ r[n + 1] = m
    BY Appended
  <1>2. /\ \A k \in 1..n : Latest(r, k) <=> Latest(p, k) /\ ~First(m)
        /\ Latest(r, n + 1)
    BY WholesGrow
  <1>3. n = Len(p)
    OBVIOUS
  <1> DEFINE F(k) == Plain(r[k]) /\ r[k].seq = q + 1 => Linked(r[k], s)
  <1> HIDE DEF r, n
  <1>5. AnswerLinked(r, q, s) <=> \A k \in 1..(n + 1) : Latest(r, k) => F(k)
    BY <1>1 DEF AnswerLinked
  <1>6. AnswerLinked(p, q, s) <=> \A k \in 1..n : Latest(p, k) => F(k)
    BY <1>1, <1>3 DEF AnswerLinked
  <1>7. (Plain(m) /\ m.seq = q + 1 => Linked(m, s)) <=> F(n + 1)
    BY <1>1
  <1> HIDE DEF F
  <1>8. \A k : k \in 1..(n + 1) <=> k \in 1..n \/ k = n + 1
    BY <1>1
  <1>9. /\ (First(m) \/ AnswerLinked(p, q, s)) /\ F(n + 1) => AnswerLinked(r, q, s)
        /\ AnswerLinked(r, q, s) /\ ~First(m) => AnswerLinked(p, q, s) /\ F(n + 1)
    BY <1>2, <1>5, <1>6, <1>8, Zenon
  <1> QED
    BY <1>7, <1>9 DEF r

LEMMA TimeGrows ==
  ASSUME NEW p \in Seq(Message), NEW m \in Message, NEW q, NEW seen
  PROVE  /\ p # <<>> /\ (First(m) \/ AnswerInTime(p, q, seen)) => AnswerInTime(Append(p, m), q, seen)
         /\ p # <<>> /\ ~First(m) /\ AnswerInTime(Append(p, m), q, seen) => AnswerInTime(p, q, seen)
         /\ p = <<>> => /\ AnswerInTime(p, q, seen)
                        /\ AnswerInTime(Append(p, m), q, seen) <=>
                              (Plain(m) => m.seq <= q + 1 \/ q < seen)
  <1> DEFINE r == Append(p, m)
             n == Len(p)
  <1>1. /\ n \in Nat /\ Len(r) = n + 1
        /\ \A k \in 1..n : r[k] = p[k] /\ p[k] \in Message
        /\ r[n + 1] = m
    BY Appended
  <1>2. /\ \A k \in 1..n : Latest(r, k) <=> Latest(p, k) /\ ~First(m)
        /\ Latest(r, n + 1)
    BY WholesGrow
  <1>3. n = Len(p) /\ (p = <<>> <=> n = 0)
    BY <1>1
  <1> HIDE DEF r, n
  <1>4. CASE p = <<>>
    <2>1. n = 0 /\ Len(r) = 1 /\ r[1] = m /\ Latest(r, 1)
      BY <1>1, <1>2, <1>3, <1>4
    <2>2. AnswerInTime(p, q, seen)
      BY <1>3, <2>1 DEF AnswerInTime
    <2>3. AnswerInTime(r, q, seen) <=> (Plain(m) => m.seq <= q + 1 \/ q < seen)
      BY <2>1 DEF AnswerInTime
    <2> QED
      BY <1>4, <2>2, <2>3 DEF r
  <1>5. CASE p # <<>>
    <2>1. 1 \in 1..n /\ Len(r) > 0 /\ Len(p) > 0
      BY <1>1, <1>3, <1>5
    <2>2. r[1] = p[1] /\ (Latest(r, 1) <=> Latest(p, 1) /\ ~First(m))
      BY <1>1, <1>2, <2>1
    <2> QED
      BY <1>5, <2>1, <2>2 DEF AnswerInTime, r
  <1> QED
    BY <1>4, <1>5

(* The rest of a run, after its first message. *)
LEMMA RunsShift ==
  ASSUME NEW p \in Seq(Message), p # <<>>, WholeTicks(p), PlainRuns(p)
  PROVE  LET r == Tail(p)  h == Head(p) IN
         /\ WholeTicks(r) /\ PlainRuns(r)
         /\ IsTick(h) /\ ~Plain(h) => h.diffs = VDevice
         /\ \A k \in 1..Len(r) : Plain(r[k]) /\ NoneWhole(r, 1, k) =>
              /\ Whole(h) \/ Plain(h)
              /\ r[k].seq = h.seq + k
              /\ k = 1 => Linked(r[k], h.sent)
  <1> DEFINE r == Tail(p)
             h == Head(p)
             n == Len(p)
  <1>1. /\ n \in Nat /\ n >= 1 /\ Len(r) = n - 1
        /\ \A k \in 1..Len(r) : r[k] = p[k + 1]
        /\ h = p[1]
    BY Shifted
  <1>2. n = Len(p)
    OBVIOUS
  <1> HIDE DEF r, h, n
  <1>3. WholeTicks(r)
    BY <1>1, <1>2 DEF WholeTicks
  <1>4. IsTick(h) /\ ~Plain(h) => h.diffs = VDevice
    BY <1>1, <1>2 DEF WholeTicks
  <1>5. ASSUME NEW i \in 1..n, NEW k \in 1..Len(r), NoneWhole(r, i, k)
        PROVE  NoneWhole(p, i + 1, k + 1)
    <2> SUFFICES ASSUME NEW x \in (i + 1)..(k + 1) PROVE ~Whole(p[x])
      BY DEF NoneWhole
    <2>1. x - 1 \in i..k /\ x - 1 \in 1..Len(r) /\ (x - 1) + 1 = x
      BY <1>1
    <2>2. r[x - 1] = p[x]
      BY <1>1, <2>1
    <2> QED
      BY <1>5, <2>1, <2>2 DEF NoneWhole
  <1>6. PlainRuns(r)
    <2> SUFFICES ASSUME NEW j \in 1..Len(r), NEW k \in 1..Len(r),
                        j < k, Plain(r[k]), NoneWhole(r, j + 1, k)
                 PROVE  /\ Whole(r[j]) \/ Plain(r[j])
                        /\ r[k].seq = r[j].seq + (k - j)
                        /\ k = j + 1 => Linked(r[k], r[j].sent)
      BY DEF PlainRuns
    <2>1. /\ r[j] = p[j + 1] /\ r[k] = p[k + 1] /\ j + 1 \in 1..n /\ k + 1 \in 1..n
          /\ j + 1 < k + 1 /\ (k + 1) - (j + 1) = k - j
          /\ (k = j + 1 => k + 1 = (j + 1) + 1)
      BY <1>1
    <2>2. NoneWhole(p, (j + 1) + 1, k + 1)
      BY <1>5, <2>1
    <2>3. /\ Whole(p[j + 1]) \/ Plain(p[j + 1])
          /\ p[k + 1].seq = p[j + 1].seq + ((k + 1) - (j + 1))
          /\ k + 1 = (j + 1) + 1 => Linked(p[k + 1], p[j + 1].sent)
      BY <1>2, <2>1, <2>2 DEF PlainRuns
    <2> QED
      BY <2>1, <2>3
  <1>7. ASSUME NEW k \in 1..Len(r), Plain(r[k]), NoneWhole(r, 1, k)
        PROVE  /\ Whole(h) \/ Plain(h)
               /\ r[k].seq = h.seq + k
               /\ k = 1 => Linked(r[k], h.sent)
    <2>1. /\ r[k] = p[k + 1] /\ 1 \in 1..n /\ k + 1 \in 1..n /\ 1 < k + 1 /\ (k + 1) - 1 = k
          /\ (k = 1 => k + 1 = 1 + 1)
      BY <1>1
    <2>2. NoneWhole(p, 1 + 1, k + 1)
      BY <1>5, <1>7, <2>1
    <2>3. /\ Whole(p[1]) \/ Plain(p[1])
          /\ p[k + 1].seq = p[1].seq + ((k + 1) - 1)
          /\ k + 1 = 1 + 1 => Linked(p[k + 1], p[1].sent)
      BY <1>2, <1>7, <2>1, <2>2 DEF PlainRuns
    <2> QED
      BY <1>1, <2>1, <2>3
  <1> QED
    BY <1>3, <1>4, <1>6, <1>7 DEF r, h

LEMMA WholesShift ==
  ASSUME NEW p \in Seq(Message), p # <<>>
  PROVE  LET r == Tail(p) IN
         /\ \A k \in 1..Len(r) : NoneWhole(p, 1, k + 1) <=> NoneWhole(r, 1, k) /\ ~Whole(Head(p))
         /\ NoneWhole(p, 1, Len(p)) <=> NoneWhole(r, 1, Len(r)) /\ ~Whole(Head(p))
         /\ \A k \in 1..Len(r) : Latest(r, k) <=> Latest(p, k + 1)
         /\ NoneWhole(r, 1, Len(r)) => Latest(p, 1)
         /\ 1 \in 1..Len(r) /\ Latest(r, 1) /\ ~First(r[1]) => Latest(p, 1)
  <1> DEFINE r == Tail(p)
             n == Len(p)
             l == Len(r)
  <1>1. /\ n \in Nat /\ n >= 1 /\ l = n - 1
        /\ \A k \in 1..l : r[k] = p[k + 1]
        /\ Head(p) = p[1] /\ n = Len(p) /\ l = Len(r)
    BY Shifted
  <1>2. \A k \in 2..n : k - 1 \in 1..l /\ r[k - 1] = p[k]
    BY <1>1
  <1>3. \A k \in 1..n : First(p[k]) => Whole(p[k])
    BY Shifted, KindFacts
  <1> HIDE DEF r, n, l
  <1>4. ASSUME NEW k \in 0..l
        PROVE  NoneWhole(p, 1, k + 1) <=> NoneWhole(r, 1, k) /\ ~Whole(p[1])
    <2>1. ASSUME NoneWhole(p, 1, k + 1) PROVE NoneWhole(r, 1, k) /\ ~Whole(p[1])
      BY <1>1, <2>1 DEF NoneWhole
    <2>2. ASSUME NoneWhole(r, 1, k), ~Whole(p[1]), NEW i \in 1..(k + 1) PROVE ~Whole(p[i])
      <3>1. CASE i = 1
        BY <2>2, <3>1
      <3>2. CASE i # 1
        <4>1. i \in 2..n /\ i - 1 \in 1..k
          BY <1>1, <3>2
        <4> QED
          BY <1>2, <2>2, <4>1 DEF NoneWhole
      <3> QED
        BY <3>1, <3>2
    <2> QED
      BY <2>1, <2>2 DEF NoneWhole
  <1>5. ASSUME NEW k \in 1..l PROVE Latest(r, k) <=> Latest(p, k + 1)
    <2>1. ASSUME Latest(p, k + 1) PROVE Latest(r, k)
      BY <1>1, <2>1 DEF Latest
    <2>2. ASSUME Latest(r, k), NEW i \in (k + 1 + 1)..n PROVE ~First(p[i])
      <3>1. i \in 2..n /\ i - 1 \in (k + 1)..l
        BY <1>1
      <3> QED
        BY <1>1, <1>2, <2>2, <3>1 DEF Latest
    <2> QED
      BY <1>1, <2>1, <2>2 DEF Latest
  <1>6. ASSUME NoneWhole(r, 1, l) PROVE Latest(p, 1)
    <2> SUFFICES ASSUME NEW i \in (1 + 1)..n PROVE ~First(p[i])
      BY <1>1 DEF Latest
    <2>1. i \in 2..n /\ i \in 1..n /\ i - 1 \in 1..l
      BY <1>1
    <2> QED
      BY <1>2, <1>3, <1>6, <2>1 DEF NoneWhole
  <1>7. ASSUME 1 \in 1..l, Latest(r, 1), ~First(r[1]) PROVE Latest(p, 1)
    <2> SUFFICES ASSUME NEW i \in (1 + 1)..n PROVE ~First(p[i])
      BY <1>1 DEF Latest
    <2>1. i \in 2..n /\ i - 1 \in 1..l /\ (i - 1 = 1 \/ i - 1 \in (1 + 1)..l)
      BY <1>1
    <2> QED
      BY <1>1, <1>2, <1>7, <2>1 DEF Latest
  <1>8. NoneWhole(p, 1, n) <=> NoneWhole(r, 1, l) /\ ~Whole(p[1])
    <2>1. l \in 0..l /\ l + 1 = n
      BY <1>1
    <2> QED
      BY <1>4, <2>1
  <1>9. \A k \in 1..l : NoneWhole(p, 1, k + 1) <=> NoneWhole(r, 1, k) /\ ~Whole(p[1])
    BY <1>1, <1>4
  <1> QED
    BY <1>1, <1>5, <1>6, <1>7, <1>8, <1>9 DEF r, n, l

LEMMA AheadShift ==
  ASSUME NEW p \in Seq(Message), p # <<>>, NEW q \in Nat, NotAhead(p, q)
  PROVE  /\ NotAhead(Tail(p), q)
         /\ NoneWhole(Tail(p), 1, Len(Tail(p))) /\ Head(p) # Done => Head(p).seq <= q
  <1> DEFINE r == Tail(p)
  <1>1. /\ Len(p) \in Nat /\ Len(p) >= 1 /\ Len(r) = Len(p) - 1
        /\ \A k \in 1..Len(r) : r[k] = p[k + 1]
        /\ Head(p) = p[1]
    BY Shifted
  <1>2. /\ \A k \in 1..Len(r) : Latest(r, k) <=> Latest(p, k + 1)
        /\ NoneWhole(r, 1, Len(r)) => Latest(p, 1)
    BY WholesShift
  <1> HIDE DEF r
  <1>3. NotAhead(r, q)
    BY <1>1, <1>2 DEF NotAhead
  <1>4. NoneWhole(r, 1, Len(r)) /\ Head(p) # Done => Head(p).seq <= q
    BY <1>1, <1>2 DEF NotAhead
  <1> QED
    BY <1>3, <1>4 DEF r

(* The first message, taken or passed over. *)
LEMMA LinksShift ==
  ASSUME NEW p \in Seq(Message), p # <<>>, WholeTicks(p), PlainRuns(p),
         NEW q \in Nat, NEW s, NEW seen \in Nat
  PROVE  LET r == Tail(p)  h == Head(p) IN
         /\ Whole(h) \/ Plain(h) => ViewLinked(r, h.seq, h.sent) /\ AnswerInTime(r, q, h.seq)
         /\ ~Whole(h) /\ ~Plain(h) => ViewLinked(r, q, s) /\ AnswerInTime(r, q, seen)
         /\ ~Whole(h) /\ ViewLinked(p, q, s) /\ (Plain(h) => h.seq <= q) => ViewLinked(r, q, s)
         /\ ~Whole(h) /\ AnswerInTime(p, q, seen) /\ (Plain(h) => h.seq <= seen)
              => AnswerInTime(r, q, seen)
         /\ AnswerLinked(p, q, s) => AnswerLinked(r, q, s)
  <1> DEFINE r == Tail(p)
             h == Head(p)
  <1>1. /\ Len(p) \in Nat /\ Len(p) >= 1 /\ Len(r) = Len(p) - 1 /\ Len(r) \in Nat
        /\ \A k \in 1..Len(r) : r[k] = p[k + 1] /\ r[k] \in Message
        /\ h = p[1] /\ h \in Message
    BY Shifted
  <1>2. /\ \A k \in 1..Len(r) : NoneWhole(p, 1, k + 1) <=> NoneWhole(r, 1, k) /\ ~Whole(h)
        /\ \A k \in 1..Len(r) : Latest(r, k) <=> Latest(p, k + 1)
        /\ 1 \in 1..Len(r) /\ Latest(r, 1) /\ ~First(r[1]) => Latest(p, 1)
    BY WholesShift
  <1>3. \A k \in 1..Len(r) : Plain(r[k]) /\ NoneWhole(r, 1, k) =>
          /\ Whole(h) \/ Plain(h)
          /\ r[k].seq = h.seq + k
          /\ k = 1 => Linked(r[k], h.sent)
    BY RunsShift
  <1>4. Whole(h) \/ Plain(h) => h.seq \in Nat
    BY <1>1, KindFacts
  <1>5. \A k \in 1..Len(r) : Plain(r[k]) => r[k].seq \in Nat /\ ~Whole(r[k]) /\ ~First(r[k])
    BY <1>1, KindFacts
  <1> HIDE DEF r, h
  <1>6. 1 \in 1..Len(r) /\ Plain(r[1]) => NoneWhole(r, 1, 1)
    <2>1. \A k \in 1..1 : k = 1
      OBVIOUS
    <2> QED
      BY <1>5, <2>1 DEF NoneWhole
  <1>7. 1 \in 1..Len(r) /\ Plain(r[1]) => (Whole(h) \/ Plain(h)) /\ r[1].seq = h.seq + 1
    BY <1>3, <1>6
  <1>8. ASSUME Whole(h) \/ Plain(h) PROVE ViewLinked(r, h.seq, h.sent)
    <2> SUFFICES ASSUME NEW k \in 1..Len(r), Plain(r[k]), NoneWhole(r, 1, k)
                 PROVE  /\ r[k].seq = h.seq + 1 => Linked(r[k], h.sent)
                        /\ k = 1 => r[k].seq <= h.seq + 1
      BY DEF ViewLinked
    <2>1. r[k].seq = h.seq + k /\ (k = 1 => Linked(r[k], h.sent)) /\ h.seq \in Nat
      BY <1>3, <1>4, <1>8
    <2> QED
      BY <2>1
  <1>9. ASSUME Whole(h) \/ Plain(h) PROVE AnswerInTime(r, q, h.seq)
    <2> SUFFICES ASSUME Len(r) > 0, Plain(r[1]) PROVE r[1].seq <= q + 1 \/ q < h.seq
      BY DEF AnswerInTime
    <2>1. 1 \in 1..Len(r)
      BY <1>1
    <2>2. r[1].seq = h.seq + 1 /\ h.seq \in Nat
      BY <1>4, <1>7, <1>9, <2>1
    <2> QED
      BY <2>2
  <1>10. ASSUME ~Whole(h), ~Plain(h) PROVE ViewLinked(r, q, s) /\ AnswerInTime(r, q, seen)
    <2>1. ViewLinked(r, q, s)
      BY <1>3, <1>10 DEF ViewLinked
    <2>2. Len(r) > 0 => 1 \in 1..Len(r)
      BY <1>1
    <2> QED
      BY <1>7, <1>10, <2>1, <2>2 DEF AnswerInTime
  <1>11. ASSUME ~Whole(h), ViewLinked(p, q, s), Plain(h) => h.seq <= q PROVE ViewLinked(r, q, s)
    <2> SUFFICES ASSUME NEW k \in 1..Len(r), Plain(r[k]), NoneWhole(r, 1, k)
                 PROVE  /\ r[k].seq = q + 1 => Linked(r[k], s)
                        /\ k = 1 => r[k].seq <= q + 1
      BY DEF ViewLinked
    <2>1. k + 1 \in 1..Len(p) /\ r[k] = p[k + 1] /\ NoneWhole(p, 1, k + 1)
      BY <1>1, <1>2, <1>11
    <2>2. r[k].seq = q + 1 => Linked(r[k], s)
      BY <1>11, <2>1 DEF ViewLinked
    <2>3. Plain(h) /\ h.seq <= q /\ h.seq \in Nat /\ r[k].seq = h.seq + k
      BY <1>3, <1>4, <1>11
    <2> QED
      BY <2>2, <2>3
  <1>12. ASSUME ~Whole(h), AnswerInTime(p, q, seen), Plain(h) => h.seq <= seen
         PROVE  AnswerInTime(r, q, seen)
    <2> SUFFICES ASSUME Len(r) > 0, Plain(r[1]), Latest(r, 1) PROVE r[1].seq <= q + 1 \/ q < seen
      BY DEF AnswerInTime
    <2>1. 1 \in 1..Len(r) /\ Len(p) > 0
      BY <1>1
    <2>2. r[1].seq = h.seq + 1 /\ h.seq \in Nat /\ Plain(h) /\ h.seq <= seen
      BY <1>4, <1>7, <1>12, <2>1
    <2>3. h.seq <= q + 1 \/ q < seen
      BY <1>1, <1>2, <1>5, <1>12, <2>1, <2>2 DEF AnswerInTime
    <2> QED
      BY <2>2, <2>3
  <1>13. ASSUME AnswerLinked(p, q, s) PROVE AnswerLinked(r, q, s)
    <2> SUFFICES ASSUME NEW k \in 1..Len(r), Plain(r[k]), Latest(r, k), r[k].seq = q + 1
                 PROVE  Linked(r[k], s)
      BY DEF AnswerLinked
    <2>1. k + 1 \in 1..Len(p) /\ r[k] = p[k + 1] /\ Latest(p, k + 1)
      BY <1>1, <1>2
    <2> QED
      BY <1>13, <2>1 DEF AnswerLinked
  <1> QED
    BY <1>8, <1>9, <1>10, <1>11, <1>12, <1>13 DEF r, h
-----------------------------------------------------------------------------
(* The page takes a message. *)

LEMMA HandledFacts ==
  ASSUME view \in ViewState, NEW m \in Message
  PROVE  LET v == Handled(m) IN
         /\ v \in ViewState
         /\ \/ m # Done /\ v.seq = m.seq /\ v.sent = m.sent
            \/ /\ ~Whole(m) /\ (Plain(m) => m.seq <= view.seq)
               /\ v.seq = view.seq /\ v.sent = view.sent /\ v.devices = view.devices
               /\ v.late = view.late
         /\ (\A d \in VDevice : v.devices[d] = v.sent[d])
            \/ (v.sent = view.sent /\ v.devices = view.devices /\ v.late = view.late)
            \/ /\ IsTick(m) /\ ~Plain(m) /\ v.sent = m.sent
               /\ \A d \in m.diffs : v.devices[d] = m.sent[d]
            \/ /\ IsTick(m) /\ m.seq # 1 /\ m.seq > view.seq /\ v.sent = m.sent
               /\ v.late = (view.late /\ m.diffs # VDevice)
               /\ \A d \in m.diffs : v.devices[d] = m.sent[d]
               /\ \A d \in VDevice \ m.diffs : v.devices[d] = view.devices[d]
  <1>1. CASE m.kind = "snapshot"
    <2>1. m \in Snapshot /\ Handled(m) = Shown(m) /\ m # Done
      BY <1>1, MessageKinds DEF Handled
    <2>2. /\ Shown(m) \in ViewState /\ Shown(m).seq = m.seq /\ Shown(m).sent = m.sent
          /\ Shown(m).devices = m.sent
      BY <2>1, ShownFacts
    <2> HIDE DEF Message
    <2> QED
      BY <2>1, <2>2, Zenon
  <1>2. CASE m.kind = "tick"
    <2>1. m \in TickMessage /\ Handled(m) = Merged(view, m) /\ m # Done /\ IsTick(m)
      BY <1>2, MessageKinds DEF Handled, IsTick
    <2>2. m.seq \in Nat /\ view.seq \in Nat /\ m.diffs \subseteq VDevice
      BY <2>1 DEF TickMessage, ViewState
    <2>3. Merged(view, m) \in ViewState
      BY <2>1, MergedFacts
    <2>4. CASE m.seq # 1 /\ m.seq <= view.seq
      <3>1. Handled(m) = view /\ ~Whole(m)
        BY <2>1, <2>4, MergedFacts DEF Whole, First, IsTick
      <3> QED
        BY <2>4, <3>1
    <2>5. CASE m.seq = 1
      <3>1. /\ Merged(view, m).seq = m.seq /\ Merged(view, m).sent = m.sent
            /\ \A d \in m.diffs : Merged(view, m).devices[d] = m.sent[d]
        BY <2>1, <2>5, MergedFacts
      <3>2. ~Plain(m)
        BY <2>5 DEF Plain
      <3> QED
        BY <2>1, <2>3, <3>1, <3>2
    <2>6. CASE m.seq # 1 /\ m.seq > view.seq
      <3>1. /\ Merged(view, m).seq = m.seq /\ Merged(view, m).sent = m.sent
            /\ \A d \in m.diffs : Merged(view, m).devices[d] = m.sent[d]
            /\ \A d \in VDevice \ m.diffs : Merged(view, m).devices[d] = view.devices[d]
            /\ Merged(view, m).late = (view.late /\ m.diffs # VDevice)
        BY <2>1, <2>6, MergedFacts
      <3> QED
        BY <2>1, <2>3, <2>6, <3>1
    <2> QED
      BY <2>2, <2>4, <2>5, <2>6
  <1>3. CASE m = Done
    <2>1. Handled(m) = [view EXCEPT !.summary = TRUE]
      BY <1>3, MessageKinds DEF Handled
    <2> DEFINE b == TRUE
               v == [view EXCEPT !.summary = b]
    <2>2. Handled(m) = v /\ b \in BOOLEAN
      BY <2>1
    <2> HIDE DEF b
    <2>3. /\ v \in ViewState /\ v.seq = view.seq /\ v.sent = view.sent
          /\ v.devices = view.devices /\ v.late = view.late
      BY <2>2 DEF ViewState
    <2> HIDE DEF v
    <2> QED
      BY <1>3, <2>2, <2>3, KindFacts
  <1> QED
    BY <1>1, <1>2, <1>3, MessageKinds
-----------------------------------------------------------------------------
(* What is under way, in a state. *)

LEMMA NotDown == \A w \in Seq(Message) : w # <<Down>>
  <1> SUFFICES ASSUME NEW w \in Seq(Message), w = <<Down>> PROVE FALSE
    OBVIOUS
  <1>1. Len(w) = 1 /\ w[1] = Down
    OBVIOUS
  <1> HIDE DEF Message
  <1>2. w[1] \in Message
    BY <1>1
  <1> QED
    BY <1>1, <1>2, MessageKinds

LEMMA EmptyFacts ==
  /\ <<>> \in Seq(Message) /\ WholeTicks(<<>>) /\ PlainRuns(<<>>)
  /\ \A q : NotAhead(<<>>, q)
  /\ \A q, s : ViewLinked(<<>>, q, s) /\ AnswerLinked(<<>>, q, s)
  /\ \A q, seen : AnswerInTime(<<>>, q, seen)
  BY DEF WholeTicks, PlainRuns, NotAhead, ViewLinked, AnswerLinked, AnswerInTime

LEMMA NextTickFacts ==
  SimTypes /\ TickedOnce =>
    /\ engine.seq \in Nat
    /\ NextTick \in Message /\ NextTick.seq = engine.seq + 1 /\ NextTick.sent = engine.devices
    /\ NextTick.diffs = engine.dirty
    /\ Running => Plain(NextTick) /\ ~Whole(NextTick) /\ ~First(NextTick)
  <1> SUFFICES ASSUME SimTypes, TickedOnce
               PROVE  /\ engine.seq \in Nat
                      /\ NextTick \in Message /\ NextTick.seq = engine.seq + 1
                      /\ NextTick.sent = engine.devices /\ NextTick.diffs = engine.dirty
                      /\ Running => Plain(NextTick) /\ ~Whole(NextTick) /\ ~First(NextTick)
    OBVIOUS
  <1>1. engine \in EngineState /\ engine.seq \in Nat
    BY DEF SimTypes, EngineState
  <1>2. /\ NextTick \in TickMessage /\ NextTick.kind = "tick" /\ NextTick.seq = engine.seq + 1
        /\ NextTick.phase = engine.phase /\ NextTick.sent = engine.devices
        /\ NextTick.diffs = engine.dirty
    BY <1>1, TickFacts DEF NextTick
  <1>3. NextTick \in Message
    BY <1>2, MessageKinds
  <1>4. ASSUME Running PROVE Plain(NextTick)
    <2>1. engine.seq > 0 /\ engine.phase = "RUNNING"
      BY <1>4 DEF TickedOnce, Running
    <2> QED
      BY <1>1, <1>2, <2>1 DEF Plain, IsTick
  <1> QED
    BY <1>1, <1>2, <1>3, <1>4, KindFacts

LEMMA PipeType ==
  SimTypes /\ TickedOnce =>
    /\ Sent \in Seq(Message) /\ Pipe \in Seq(Message)
    /\ Connected => wire \in Seq(Message) /\ Sent = wire
    /\ Connected /\ Running => Pipe = Append(Sent, NextTick)
    /\ ~Running \/ ~Connected => Pipe = Sent
    /\ ~Connected => Sent = <<>> /\ Pipe = <<>>
  <1> SUFFICES ASSUME SimTypes, TickedOnce
               PROVE  /\ Sent \in Seq(Message) /\ Pipe \in Seq(Message)
                      /\ Connected => wire \in Seq(Message) /\ Sent = wire
                      /\ Connected /\ Running => Pipe = Append(Sent, NextTick)
                      /\ ~Running \/ ~Connected => Pipe = Sent
                      /\ ~Connected => Sent = <<>> /\ Pipe = <<>>
    OBVIOUS
  <1>1. Connected => wire \in Seq(Message)
    BY DEF SimTypes, Connected
  <1>2. Sent \in Seq(Message)
    BY <1>1, EmptyFacts DEF Sent
  <1>3. Append(Sent, NextTick) \in Seq(Message)
    BY <1>2, NextTickFacts, Appended
  <1> QED
    BY <1>1, <1>2, <1>3 DEF Pipe, Sent

(* A page that is not connected has nothing under way. *)
LEMMA Offline ==
  SimTypes /\ TickedOnce /\ ~Connected => PipeRuns /\ ViewFits /\ AnswerLinks
  BY PipeType, EmptyFacts DEF PipeRuns, ViewFits, AnswerLinks

(* A snapshot of the engine as it is. *)
AnswerServed == answer = SnapshotOf(engine)

LEMMA Served ==
  SimTypes /\ TickedOnce /\ PipeRuns /\ AnswerServed => AnswerKnown /\ AnswerLinks
  <1> SUFFICES ASSUME SimTypes, TickedOnce, PipeRuns, AnswerServed
               PROVE  AnswerKnown /\ AnswerLinks
    OBVIOUS
  <1> DEFINE q == engine.seq
             s == engine.devices
  <1>1. answer.seq = q /\ answer.sent = s /\ q \in Nat
    BY SnapshotFacts DEF AnswerServed, SimTypes, EngineState
  <1>2. AnswerKnown
    BY <1>1 DEF AnswerKnown
  <1>3. Sent \in Seq(Message) /\ NotAhead(Sent, q)
    BY PipeType DEF PipeRuns
  <1>4. \A k \in 1..Len(Sent) : Sent[k] \in Message /\ (Plain(Sent[k]) => Sent[k] # Done /\ Sent[k].seq \in Nat)
    <2>1. \A k \in 1..Len(Sent) : Sent[k] \in Message
      <3> HIDE DEF Message
      <3> QED
        BY <1>3
    <2> QED
      BY <2>1, KindFacts
  <1>5. \A k \in 1..Len(Sent) : Plain(Sent[k]) /\ Latest(Sent, k) => Sent[k].seq <= q /\ Sent[k].seq # q + 1
    BY <1>1, <1>3, <1>4 DEF NotAhead
  <1>6. AnswerLinked(Sent, q, s)
    BY <1>5 DEF AnswerLinked
  <1>7. AnswerInTime(Sent, q, view.seq)
    <2> SUFFICES ASSUME Len(Sent) > 0, Plain(Sent[1]), Latest(Sent, 1) PROVE Sent[1].seq <= q + 1
      BY DEF AnswerInTime
    <2>1. 1 \in 1..Len(Sent)
      BY <1>3
    <2> QED
      BY <1>1, <1>4, <1>5, <2>1
  <1>8. CASE Connected /\ Running
    <2>1. /\ NextTick \in Message /\ ~First(NextTick) /\ NextTick.seq = q + 1
          /\ NextTick.sent = s /\ Pipe = Append(Sent, NextTick)
      BY <1>8, NextTickFacts, PipeType
    <2>2. Linked(NextTick, s)
      BY <2>1 DEF Linked
    <2> HIDE DEF q, s
    <2>3. AnswerLinked(Pipe, q, s)
      BY <1>3, <1>6, <2>1, <2>2, AnswerGrows
    <2>4. AnswerInTime(Pipe, q, view.seq)
      BY <1>1, <1>3, <1>7, <2>1, TimeGrows
    <2> QED
      BY <1>1, <1>2, <2>3, <2>4 DEF AnswerLinks
  <1>9. CASE ~(Connected /\ Running)
    BY <1>1, <1>2, <1>6, <1>7, <1>9, PipeType DEF AnswerLinks
  <1> QED
    BY <1>8, <1>9

(* The last message of what is under way becomes another. *)
LEMMA Replaced ==
  ASSUME NEW p \in Seq(Message), NEW t \in Message, NEW u \in Message,
         ~Whole(t), ~Whole(u), ~First(t), ~First(u), Plain(t),
         Plain(u) => u.seq = t.seq /\ \A s : Linked(t, s) => Linked(u, s),
         IsTick(u) /\ ~Plain(u) => u.diffs = VDevice
  PROVE  LET r == Append(p, t)  x == Append(p, u) IN
         /\ WholeTicks(r) /\ PlainRuns(r) => WholeTicks(x) /\ PlainRuns(x)
         /\ \A q, s : ViewLinked(r, q, s) => ViewLinked(x, q, s)
         /\ NoneWhole(x, 1, Len(x)) => NoneWhole(r, 1, Len(r))
         /\ \A q, s : AnswerLinked(r, q, s) => AnswerLinked(x, q, s)
         /\ \A q, seen : AnswerInTime(r, q, seen) => AnswerInTime(x, q, seen)
  <1> DEFINE r == Append(p, t)
             x == Append(p, u)
  <1>1. WholeTicks(r) /\ PlainRuns(r) => WholeTicks(x) /\ PlainRuns(x)
    BY RunsGrow DEF Follows
  <1>2. ASSUME NEW q, NEW s, ViewLinked(r, q, s) PROVE ViewLinked(x, q, s)
    BY <1>2, ViewGrows
  <1>3. NoneWhole(x, 1, Len(x)) => NoneWhole(r, 1, Len(r))
    <2>1. 1 \in 1..(Len(p) + 1) /\ Len(x) = Len(p) + 1 /\ Len(r) = Len(p) + 1
      BY Appended
    <2> HIDE DEF x, r
    <2>2. NoneWhole(x, 1, Len(p) + 1) <=> NoneWhole(p, 1, Len(p)) /\ ~Whole(u)
      BY <2>1, WholesGrow DEF x
    <2>3. NoneWhole(r, 1, Len(p) + 1) <=> NoneWhole(p, 1, Len(p)) /\ ~Whole(t)
      BY <2>1, WholesGrow DEF r
    <2> QED
      BY <2>1, <2>2, <2>3
  <1>4. ASSUME NEW q, NEW s, AnswerLinked(r, q, s) PROVE AnswerLinked(x, q, s)
    BY <1>4, AnswerGrows
  <1>5. ASSUME NEW q, NEW seen, AnswerInTime(r, q, seen) PROVE AnswerInTime(x, q, seen)
    BY <1>5, TimeGrows
  <1> QED
    BY <1>1, <1>2, <1>3, <1>4, <1>5

(* A whole message starts anew: what comes after it is not for who is      *)
(* where the page is.                                                      *)
LEMMA StartsAnew ==
  ASSUME NEW p \in Seq(Message), NEW f \in Message, Whole(f)
  PROVE  /\ ~NoneWhole(Append(p, f), 1, Len(Append(p, f)))
         /\ \A q, s : ViewLinked(p, q, s) => ViewLinked(Append(p, f), q, s)
         /\ \A t \in Message :
              LET x == Append(Append(p, f), t) IN
              /\ ~NoneWhole(x, 1, Len(x))
              /\ \A q, s : ViewLinked(p, q, s) => ViewLinked(x, q, s)
  <1> DEFINE r == Append(p, f)
  <1>1. r \in Seq(Message) /\ Len(r) = Len(p) + 1 /\ 1 \in 1..(Len(p) + 1)
    BY Appended
  <1>2. ~NoneWhole(r, 1, Len(r))
    BY <1>1, WholesGrow
  <1>3. ~Plain(f)
    BY KindFacts
  <1>4. ASSUME NEW q, NEW s, ViewLinked(p, q, s) PROVE ViewLinked(r, q, s)
    BY <1>3, <1>4, ViewGrows
  <1>5. ASSUME NEW t \in Message
        PROVE  /\ ~NoneWhole(Append(r, t), 1, Len(Append(r, t)))
               /\ \A q, s : ViewLinked(p, q, s) => ViewLinked(Append(r, t), q, s)
    <2> HIDE DEF r
    <2>1. Len(Append(r, t)) = Len(r) + 1 /\ 1 \in 1..(Len(r) + 1)
      BY <1>1, Appended
    <2>2. ~NoneWhole(Append(r, t), 1, Len(r) + 1)
      BY <1>1, <1>2, <2>1, WholesGrow
    <2>3. ASSUME NEW q, NEW s, ViewLinked(p, q, s) PROVE ViewLinked(Append(r, t), q, s)
      BY <1>1, <1>2, <1>4, <2>3, ViewGrows
    <2> QED
      BY <2>1, <2>2, <2>3
  <1> QED
    BY <1>2, <1>4, <1>5
-----------------------------------------------------------------------------
(* Every step keeps what is known of the page and what is under way to it. *)

LEMMA ToPageOne ==
  ASSUME SimTypes, NEW m \in Message, ToPage(<<m>>)
  PROVE  /\ wire' = <<Down>> \/ wire' \in Seq(Message)
         /\ Connected' <=> Connected
         /\ Connected => Sent' = Append(Sent, m)
  <1>1. CASE ~Connected
    BY <1>1 DEF ToPage, Connected
  <1>2. CASE Connected
    <2>1. wire \in Seq(Message) /\ wire' = wire \o <<m>>
      BY <1>2 DEF SimTypes, Connected, ToPage
    <2>2. wire' = Append(wire, m)
      <3> HIDE DEF Message
      <3> QED
        BY <2>1
    <2>3. wire' \in Seq(Message)
      BY <2>1, <2>2, Appended
    <2>4. wire' # <<Down>>
      BY <2>3, NotDown
    <2> QED
      BY <1>2, <2>2, <2>3, <2>4 DEF Sent, Connected
  <1> QED
    BY <1>1, <1>2

LEMMA ToPageTwo ==
  ASSUME SimTypes, NEW m \in Message, NEW t \in Message, ToPage(<<m, t>>)
  PROVE  /\ wire' = <<Down>> \/ wire' \in Seq(Message)
         /\ Connected' <=> Connected
         /\ Connected => Sent' = Append(Append(Sent, m), t)
  <1>1. CASE ~Connected
    BY <1>1 DEF ToPage, Connected
  <1>2. CASE Connected
    <2>1. wire \in Seq(Message) /\ wire' = wire \o <<m, t>>
      BY <1>2 DEF SimTypes, Connected, ToPage
    <2>2. wire' = Append(Append(wire, m), t)
      <3> HIDE DEF Message
      <3> QED
        BY <2>1
    <2>3. wire' \in Seq(Message)
      BY <2>1, <2>2, Appended
    <2>4. wire' # <<Down>>
      BY <2>3, NotDown
    <2> QED
      BY <1>2, <2>2, <2>3, <2>4 DEF Sent, Connected
  <1> QED
    BY <1>1, <1>2

LEMMA NextTickFactsPrime ==
  SimTypes' /\ TickedOnce' =>
    /\ engine'.seq \in Nat
    /\ NextTick' \in Message /\ NextTick'.seq = engine'.seq + 1
    /\ NextTick'.sent = engine'.devices /\ NextTick'.diffs = engine'.dirty
    /\ Running' => Plain(NextTick') /\ ~Whole(NextTick') /\ ~First(NextTick')
  <1>1. (SimTypes /\ TickedOnce =>
           /\ engine.seq \in Nat
           /\ NextTick \in Message /\ NextTick.seq = engine.seq + 1
           /\ NextTick.sent = engine.devices /\ NextTick.diffs = engine.dirty
           /\ Running => Plain(NextTick) /\ ~Whole(NextTick) /\ ~First(NextTick))'
    BY NextTickFacts, PTL
  <1> QED
    BY <1>1

LEMMA PipeTypePrime ==
  SimTypes' /\ TickedOnce' =>
    /\ Sent' \in Seq(Message) /\ Pipe' \in Seq(Message)
    /\ Connected' => wire' \in Seq(Message) /\ Sent' = wire'
    /\ Connected' /\ Running' => Pipe' = Append(Sent', NextTick')
    /\ ~Running' \/ ~Connected' => Pipe' = Sent'
    /\ ~Connected' => Sent' = <<>> /\ Pipe' = <<>>
  <1>1. (SimTypes /\ TickedOnce =>
           /\ Sent \in Seq(Message) /\ Pipe \in Seq(Message)
           /\ Connected => wire \in Seq(Message) /\ Sent = wire
           /\ Connected /\ Running => Pipe = Append(Sent, NextTick)
           /\ ~Running \/ ~Connected => Pipe = Sent
           /\ ~Connected => Sent = <<>> /\ Pipe = <<>>)'
    BY PipeType, PTL
  <1> QED
    BY <1>1

LEMMA OfflinePrime ==
  SimTypes' /\ TickedOnce' /\ ~Connected' => PipeRuns' /\ ViewFits' /\ AnswerLinks'
  BY Offline, PTL

LEMMA ServedPrime ==
  SimTypes' /\ TickedOnce' /\ PipeRuns' /\ AnswerServed' => AnswerKnown' /\ AnswerLinks'
  BY Served, PTL

LEMMA SimInitHolds == SimInit => SimInv
  <1> SUFFICES ASSUME SimInit PROVE SimInv
    OBVIOUS
  <1>1. EmptyView \in ViewState
    BY UntouchedType DEF EmptyView, ViewState, SimPhase
  <1>2. engine \in EngineState
    BY UntouchedType DEF SimInit, EngineState, SimPhase
  <1>3. SimTypes /\ TickedOnce /\ ~Connected
    BY <1>1, <1>2 DEF SimInit, SimTypes, TickedOnce, Connected
  <1>4. AnswerKnown
    BY AnswerKinds DEF SimInit, AnswerKnown
  <1>5. NotBehind
    BY DEF SimInit, EmptyView, Untouched, NotBehind
  <1> QED
    BY <1>3, <1>4, <1>5, Offline DEF SimInv

LEMMA EmitTickSim ==
  ASSUME SimInv, EmitTick
  PROVE  SimInv'
  <1> USE DEF SimInv
  <1>1. /\ engine' = Ticked(engine) /\ ToPage(<<NextTick>>) /\ Running
        /\ view' = view /\ answer' = answer
    BY DEF EmitTick, NextTick, Running
  <1>2. /\ engine' \in EngineState /\ engine'.seq = engine.seq + 1 /\ engine'.dirty = {}
        /\ engine'.phase = engine.phase /\ engine'.devices = engine.devices
        /\ engine'.closing = engine.closing
    BY <1>1, TickedFacts DEF SimTypes
  <1>3. /\ engine.seq \in Nat /\ NextTick \in Message /\ NextTick.seq = engine.seq + 1
        /\ NextTick.sent = engine.devices /\ Plain(NextTick) /\ ~Whole(NextTick) /\ ~First(NextTick)
    BY <1>1, NextTickFacts
  <1>4. /\ wire' = <<Down>> \/ wire' \in Seq(Message)
        /\ Connected' <=> Connected
        /\ Connected => Sent' = Append(Sent, NextTick)
    BY <1>1, <1>3, ToPageOne
  <1>5. SimTypes' /\ TickedOnce' /\ Running'
    BY <1>1, <1>2, <1>3, <1>4 DEF SimTypes, TickedOnce, Running
  <1>6. /\ NextTick' \in Message /\ NextTick'.seq = engine.seq + 2
        /\ NextTick'.sent = engine.devices /\ Plain(NextTick') /\ ~Whole(NextTick')
        /\ ~First(NextTick')
    BY <1>2, <1>3, <1>5, NextTickFactsPrime
  <1>7. AnswerKnown'
    <2>1. answer.kind = "snapshot" => answer.seq \in Nat
      BY AnswerKinds DEF SimTypes, Snapshot, NoAnswer, Asked, Starting
    <2>2. answer.kind = "snapshot" => answer.seq <= engine.seq
      BY DEF AnswerKnown
    <2> QED
      BY <1>1, <1>2, <1>3, <2>1, <2>2 DEF AnswerKnown
  <1>8. NotBehind'
    BY <1>1 DEF NotBehind
  <1>9. CASE ~Connected
    BY <1>4, <1>5, <1>7, <1>8, <1>9, OfflinePrime
  <1>10. CASE Connected
    <2> DEFINE t == NextTick
               u == NextTick'
    <2>1. /\ Sent \in Seq(Message) /\ Pipe \in Seq(Message) /\ Pipe = Append(Sent, t)
          /\ Sent' = Pipe /\ Pipe' = Append(Pipe, u)
      BY <1>1, <1>4, <1>5, <1>10, PipeType, PipeTypePrime
    <2>2. Len(Pipe) = Len(Sent) + 1 /\ Pipe[Len(Pipe)] = t /\ Pipe # <<>> /\ Len(Sent) \in Nat
      BY <1>3, <2>1, Appended
    <2> HIDE DEF t, u
    <2>3. Follows(u, t)
      BY <1>3, <1>6 DEF Follows, Linked, t, u
    <2>4. WholeTicks(Pipe') /\ PlainRuns(Pipe')
      BY <1>6, <2>1, <2>2, <2>3, RunsGrow DEF PipeRuns, u
    <2>5. NotAhead(Sent', engine'.seq)
      <3>1. engine.seq + 1 \in Nat /\ t \in Message /\ t.seq <= engine.seq + 1 /\ engine.seq <= engine.seq + 1
        BY <1>3 DEF t
      <3> QED
        BY <1>2, <1>3, <2>1, <3>1, AheadGrows DEF PipeRuns
    <2>6. view.seq \in Nat
      BY DEF SimTypes, ViewState
    <2>7. NoneWhole(Pipe, 1, Len(Pipe)) => view.seq <= engine.seq
      BY <1>10 DEF ViewFits
    <2>8. ~view.late => ViewLinked(Pipe', view.seq, view.sent)
      <3>1. NoneWhole(Pipe, 1, Len(Pipe)) => u.seq # view.seq + 1
        BY <1>3, <1>6, <2>6, <2>7 DEF u
      <3> QED
        BY <1>6, <2>1, <2>2, <3>1, ViewGrows DEF ViewFits, u
    <2>9. NoneWhole(Pipe', 1, Len(Pipe')) => view.seq <= engine'.seq
      <3>2. NoneWhole(Pipe', 1, Len(Pipe')) => NoneWhole(Pipe, 1, Len(Pipe))
        BY <1>6, <2>1, NoneGrows DEF u
      <3> QED
        BY <1>2, <1>3, <2>6, <2>7, <3>2
    <2>10. AnswerLinks'
      <3> SUFFICES ASSUME answer.kind = "snapshot"
                   PROVE  /\ AnswerLinked(Pipe', answer.seq, answer.sent)
                          /\ AnswerInTime(Pipe', answer.seq, view.seq)
        BY <1>1 DEF AnswerLinks
      <3>1. AnswerLinked(Pipe, answer.seq, answer.sent) /\ AnswerInTime(Pipe, answer.seq, view.seq)
        BY DEF AnswerLinks
      <3>2. answer.seq \in Nat /\ answer.seq <= engine.seq
        BY AnswerKinds DEF SimTypes, Snapshot, AnswerKnown
      <3>3. u.seq # answer.seq + 1 /\ u \in Message
        BY <1>3, <1>6, <3>2 DEF u
      <3> QED
        BY <2>1, <2>2, <3>1, <3>3, AnswerGrows, TimeGrows
    <2> QED
      BY <1>1, <1>5, <1>7, <1>8, <2>4, <2>5, <2>8, <2>9, <2>10 DEF PipeRuns, ViewFits
  <1> QED
    BY <1>9, <1>10

LEMMA ChangeSim ==
  ASSUME SimInv, NEW d \in VDevice, Change(d)
  PROVE  SimInv'
  <1> USE DEF SimInv
  <1>1. /\ view' = view /\ answer' = answer /\ wire' = wire /\ engine \in EngineState
    BY DEF Change, SimTypes
  <1>2. /\ engine' \in EngineState /\ engine'.phase = engine.phase /\ engine'.seq = engine.seq
        /\ engine'.closing = engine.closing
        /\ engine'.dirty = engine.dirty \cup {d}
        /\ \A c \in VDevice : c # d => engine'.devices[c] = engine.devices[c]
    BY <1>1, ChangedFacts
  <1>3. SimTypes' /\ TickedOnce' /\ (Running' <=> Running) /\ (Connected' <=> Connected)
    BY <1>1, <1>2 DEF SimTypes, TickedOnce, Running, Connected
  <1>4. Sent' = Sent
    BY <1>1, <1>3 DEF Sent
  <1>5. AnswerKnown'
    <2>1. \A c \in VDevice \ engine'.dirty : c \in VDevice \ engine.dirty /\ c # d
      BY <1>2
    <2> QED
      BY <1>1, <1>2, <1>3, <2>1 DEF AnswerKnown
  <1>6. NotBehind'
    BY <1>1 DEF NotBehind
  <1>7. CASE Connected /\ Running
    <2> DEFINE t == NextTick
               u == NextTick'
    <2>1. Sent \in Seq(Message) /\ Pipe = Append(Sent, t) /\ Pipe' = Append(Sent, u)
      BY <1>3, <1>4, <1>7, PipeType, PipeTypePrime
    <2>2. /\ t \in Message /\ t.seq = engine.seq + 1 /\ Plain(t) /\ ~Whole(t) /\ ~First(t)
          /\ t.sent = engine.devices /\ t.diffs = engine.dirty
      BY <1>7, NextTickFacts
    <2>3. /\ u \in Message /\ u.seq = engine.seq + 1 /\ Plain(u) /\ ~Whole(u) /\ ~First(u)
          /\ u.sent = engine'.devices /\ u.diffs = engine'.dirty
      BY <1>2, <1>3, <1>7, NextTickFactsPrime
    <2> HIDE DEF t, u
    <2>4. \A s : Linked(t, s) => Linked(u, s)
      <3>1. \A c \in VDevice \ u.diffs : c \in VDevice \ t.diffs /\ u.sent[c] = t.sent[c]
        BY <1>2, <2>2, <2>3
      <3> QED
        BY <3>1 DEF Linked
    <2>5. /\ WholeTicks(Pipe) /\ PlainRuns(Pipe) => WholeTicks(Pipe') /\ PlainRuns(Pipe')
          /\ \A q, s : ViewLinked(Pipe, q, s) => ViewLinked(Pipe', q, s)
          /\ NoneWhole(Pipe', 1, Len(Pipe')) => NoneWhole(Pipe, 1, Len(Pipe))
          /\ \A q, s : AnswerLinked(Pipe, q, s) => AnswerLinked(Pipe', q, s)
          /\ \A q, seen : AnswerInTime(Pipe, q, seen) => AnswerInTime(Pipe', q, seen)
      BY <2>1, <2>2, <2>3, <2>4, Replaced
    <2>6. PipeRuns'
      BY <1>2, <1>4, <2>5 DEF PipeRuns
    <2>7. ViewFits'
      BY <1>1, <1>2, <1>3, <2>5 DEF ViewFits
    <2>8. AnswerLinks'
      BY <1>1, <2>5 DEF AnswerLinks
    <2> QED
      BY <1>3, <1>5, <1>6, <2>6, <2>7, <2>8
  <1>8. CASE ~(Connected /\ Running)
    <2>1. Pipe' = Pipe
      BY <1>3, <1>4, <1>8 DEF Pipe
    <2> QED
      BY <1>1, <1>2, <1>3, <1>4, <1>5, <1>6, <2>1 DEF PipeRuns, ViewFits, AnswerLinks
  <1> QED
    BY <1>7, <1>8

LEMMA StopRunSim ==
  ASSUME SimInv, StopRun
  PROVE  SimInv'
  <1> USE DEF SimInv
  <1> DEFINE p == "STOPPING"
             e == [engine EXCEPT !.phase = p]
             u == TickOf(e, TRUE)
  <1>1. /\ engine' = Ticked(e) /\ ToPage(<<u>>) /\ Running
        /\ view' = view /\ answer' = answer /\ engine \in EngineState
    BY DEF StopRun, Running, SimTypes
  <1>2. p \in SimPhase /\ p = "STOPPING"
    BY DEF SimPhase
  <1>3. e \in EngineState /\ e.phase = p /\ e.seq = engine.seq /\ e.closing = engine.closing
    BY <1>1, <1>2, PhaseFacts
  <1> HIDE DEF p, e
  <1>4. /\ engine' \in EngineState /\ engine'.seq = engine.seq + 1
        /\ engine'.phase = "STOPPING" /\ engine'.closing = engine.closing
    BY <1>1, <1>2, <1>3, TickedFacts
  <1>5. u \in TickMessage /\ u.kind = "tick" /\ u.seq = engine.seq + 1 /\ u.phase = "STOPPING"
        /\ u.diffs = VDevice
    BY <1>2, <1>3, TickFacts
  <1>6. engine.seq \in Nat /\ engine.seq > 0 /\ ~engine.closing
    BY <1>1, NextTickFacts DEF TickedOnce, Running
  <1> HIDE DEF u
  <1>7. u \in Message /\ ~Whole(u) /\ ~First(u) /\ ~Plain(u)
    BY <1>5, <1>6, MessageKinds DEF Whole, First, Plain, IsTick
  <1>8. /\ wire' = <<Down>> \/ wire' \in Seq(Message)
        /\ Connected' <=> Connected
        /\ Connected => Sent' = Append(Sent, u)
    BY <1>1, <1>7, ToPageOne
  <1>9. SimTypes' /\ TickedOnce' /\ ~Running'
    BY <1>1, <1>4, <1>6, <1>8 DEF SimTypes, TickedOnce, Running
  <1>10. AnswerKnown'
    <2>1. answer.kind = "snapshot" => answer.seq \in Nat
      BY AnswerKinds DEF SimTypes, Snapshot
    <2> QED
      BY <1>1, <1>4, <1>6, <1>9, <2>1 DEF AnswerKnown
  <1>11. NotBehind'
    BY <1>1 DEF NotBehind
  <1>12. CASE ~Connected
    BY <1>8, <1>9, <1>10, <1>11, <1>12, OfflinePrime
  <1>13. CASE Connected
    <2> DEFINE t == NextTick
    <2>1. Sent \in Seq(Message) /\ Pipe = Append(Sent, t) /\ Sent' = Append(Sent, u) /\ Pipe' = Sent'
      BY <1>1, <1>8, <1>9, <1>13, PipeType, PipeTypePrime
    <2>2. t \in Message /\ Plain(t) /\ ~Whole(t) /\ ~First(t)
      BY <1>1, NextTickFacts
    <2> HIDE DEF t
    <2>3. /\ WholeTicks(Pipe) /\ PlainRuns(Pipe) => WholeTicks(Pipe') /\ PlainRuns(Pipe')
          /\ \A q, s : ViewLinked(Pipe, q, s) => ViewLinked(Pipe', q, s)
          /\ NoneWhole(Pipe', 1, Len(Pipe')) => NoneWhole(Pipe, 1, Len(Pipe))
          /\ \A q, s : AnswerLinked(Pipe, q, s) => AnswerLinked(Pipe', q, s)
          /\ \A q, seen : AnswerInTime(Pipe, q, seen) => AnswerInTime(Pipe', q, seen)
      BY <1>5, <1>7, <2>1, <2>2, Replaced
    <2>4. NotAhead(Sent', engine'.seq)
      <3>1. engine.seq + 1 \in Nat /\ engine.seq <= engine.seq + 1 /\ u.seq <= engine.seq + 1
        BY <1>5, <1>6
      <3> QED
        BY <1>4, <1>6, <1>7, <2>1, <3>1, AheadGrows DEF PipeRuns
    <2>5. PipeRuns'
      BY <2>3, <2>4 DEF PipeRuns
    <2>6. ViewFits'
      <3>1. view.seq \in Nat
        BY DEF SimTypes, ViewState
      <3>2. NoneWhole(Pipe', 1, Len(Pipe')) => view.seq <= engine.seq + 1
        BY <1>6, <1>13, <2>3, <3>1 DEF ViewFits
      <3> QED
        BY <1>1, <1>4, <2>3, <3>2 DEF ViewFits
    <2>7. AnswerLinks'
      BY <1>1, <2>3 DEF AnswerLinks
    <2> QED
      BY <1>9, <1>10, <1>11, <2>5, <2>6, <2>7
  <1> QED
    BY <1>12, <1>13

(* What ends with no answer on its way. *)
LEMMA Unanswered ==
  answer'.kind # "snapshot" => AnswerKnown' /\ AnswerLinks'
  BY DEF AnswerKnown, AnswerLinks

LEMMA NoSnapshot ==
  ASSUME SimTypes, Prompt, MayEnd
  PROVE  answer \in {NoAnswer, Asked, Starting} /\ answer.kind # "snapshot"
  BY MessageKinds DEF SimTypes, MayEnd

LEMMA SetUpSim ==
  ASSUME SimInv, Prompt, SetUp
  PROVE  SimInv'
  <1> USE DEF SimInv
  <1> DEFINE e == [phase |-> "RUNNING", seq |-> 0, devices |-> Untouched, dirty |-> {},
                   begun |-> TRUE, summary |-> FALSE, closing |-> FALSE]
             f == TickOf(e, TRUE)
  <1>1. /\ engine' = Ticked(e) /\ ToPage(<<f>>) /\ ~Running /\ MayEnd
        /\ view' = view
        /\ answer' = IF answer = Starting THEN SnapshotOf(Ticked(e)) ELSE answer
    BY DEF SetUp, Running
  <1>2. e \in EngineState /\ e.phase = "RUNNING" /\ e.seq = 0 /\ e.devices = Untouched
        /\ e.closing = FALSE
    BY SetUpFacts
  <1> HIDE DEF e
  <1>3. /\ engine' \in EngineState /\ engine'.seq = 1 /\ engine'.dirty = {}
        /\ engine'.phase = "RUNNING" /\ engine'.devices = Untouched /\ engine'.closing = FALSE
    BY <1>1, <1>2, TickedFacts
  <1>4. f \in TickMessage /\ f.kind = "tick" /\ f.seq = 1 /\ f.diffs = VDevice
        /\ f.sent = Untouched
    <2>1. f \in TickMessage /\ f.kind = "tick" /\ f.seq = e.seq + 1 /\ f.diffs = VDevice
          /\ f.sent = e.devices
      BY <1>2, TickFacts
    <2> HIDE DEF f
    <2> QED
      BY <1>2, <2>1
  <1> HIDE DEF f
  <1>5. f \in Message /\ First(f) /\ Whole(f) /\ ~Plain(f) /\ f # Done
    BY <1>4, MessageKinds DEF First, Whole, Plain, IsTick
  <1>6. /\ wire' = <<Down>> \/ wire' \in Seq(Message)
        /\ Connected' <=> Connected
        /\ Connected => Sent' = Append(Sent, f)
    BY <1>1, <1>5, ToPageOne
  <1>7. answer' \in {NoAnswer, Asked, Starting} \cup Snapshot
        /\ (AnswerServed' \/ answer'.kind # "snapshot")
    <2>1. answer \in {NoAnswer, Asked, Starting} /\ answer.kind # "snapshot"
      BY <1>1, NoSnapshot
    <2>2. CASE answer = Starting
      BY <1>1, <1>3, <2>2, SnapshotFacts DEF AnswerServed
    <2>3. CASE answer # Starting
      BY <1>1, <2>1, <2>3
    <2> QED
      BY <2>2, <2>3
  <1>8. SimTypes' /\ TickedOnce' /\ Running'
    BY <1>1, <1>3, <1>6, <1>7 DEF SimTypes, TickedOnce, Running
  <1>9. PipeRuns' /\ ViewFits'
    <2>1. CASE ~Connected
      BY <1>6, <1>8, <2>1, OfflinePrime
    <2>2. CASE Connected
      <3> DEFINE u == NextTick'
      <3>1. /\ Sent \in Seq(Message) /\ Sent' \in Seq(Message) /\ Pipe = Sent
            /\ Sent' = Append(Sent, f) /\ Pipe' = Append(Sent', u)
        BY <1>1, <1>6, <1>8, <2>2, PipeType, PipeTypePrime
      <3>2. /\ u \in Message /\ u.seq = 2 /\ Plain(u) /\ u.sent = Untouched
        BY <1>3, <1>8, NextTickFactsPrime
      <3> HIDE DEF u
      <3>3. Sent' # <<>> /\ Sent'[Len(Sent')] = f
        BY <1>5, <3>1, Appended
      <3>4. Follows(u, f)
        BY <1>4, <1>5, <3>2 DEF Follows, Linked
      <3>5. WholeTicks(Sent') /\ PlainRuns(Sent')
        BY <1>4, <1>5, <3>1, RunsGrow DEF PipeRuns
      <3>6. WholeTicks(Pipe') /\ PlainRuns(Pipe')
        BY <3>1, <3>2, <3>3, <3>4, <3>5, RunsGrow
      <3>7. NotAhead(Sent', engine'.seq)
        <4>1. 1 \in Nat /\ f.seq <= 1
          BY <1>4
        <4> QED
          BY <1>3, <1>5, <3>1, <4>1, AheadGrows
      <3>8. ~NoneWhole(Pipe', 1, Len(Pipe'))
            /\ \A q, s : ViewLinked(Pipe, q, s) => ViewLinked(Pipe', q, s)
        BY <1>5, <3>1, <3>2, StartsAnew
      <3> QED
        BY <1>1, <3>6, <3>7, <3>8 DEF PipeRuns, ViewFits
    <2> QED
      BY <2>1, <2>2
  <1>10. AnswerKnown' /\ AnswerLinks'
    BY <1>7, <1>8, <1>9, ServedPrime, Unanswered
  <1>11. NotBehind'
    BY <1>1 DEF NotBehind
  <1> QED
    BY <1>8, <1>9, <1>10, <1>11

LEMMA StartFailsSim ==
  ASSUME SimInv, Prompt, StartFails
  PROVE  SimInv'
  <1> USE DEF SimInv
  <1> DEFINE e == [engine EXCEPT !.phase = "STOPPING", !.seq = 0, !.summary = FALSE,
                                 !.closing = engine.begun]
             x == Ticked(e)
             f == TickOf(e, TRUE)
             p == "IDLE"
  <1>1. /\ engine' = [x EXCEPT !.phase = p] /\ ToPage(<<f>>) /\ ~Running /\ MayEnd
        /\ view' = view /\ engine \in EngineState
        /\ answer' = IF answer = Starting THEN NoAnswer ELSE answer
    BY DEF StartFails, Running, Refused, SimTypes
  <1>2. e \in EngineState /\ e.seq = 0
    BY <1>1, FailedFacts
  <1>3. p \in SimPhase /\ p = "IDLE"
    BY DEF SimPhase
  <1> HIDE DEF e, p
  <1>4. x \in EngineState /\ x.seq = 1
    <2>1. x \in EngineState /\ x.seq = e.seq + 1
      BY <1>2, TickedFacts
    <2> HIDE DEF x
    <2> QED
      BY <1>2, <2>1
  <1>5. f \in TickMessage /\ f.kind = "tick" /\ f.seq = 1 /\ f.diffs = VDevice
    <2>1. f \in TickMessage /\ f.kind = "tick" /\ f.seq = e.seq + 1 /\ f.diffs = VDevice
      BY <1>2, TickFacts
    <2> HIDE DEF f
    <2> QED
      BY <1>2, <2>1
  <1> HIDE DEF f, x
  <1>6. engine' \in EngineState /\ engine'.seq = 1 /\ engine'.phase = "IDLE"
    <2>1. /\ engine' \in EngineState /\ engine'.seq = x.seq /\ engine'.phase = p
      BY <1>1, <1>3, <1>4, PhaseFacts
    <2> QED
      BY <1>3, <1>4, <2>1
  <1>7. f \in Message /\ First(f) /\ Whole(f) /\ ~Plain(f) /\ f # Done
    BY <1>5, MessageKinds DEF First, Whole, Plain, IsTick
  <1>8. /\ wire' = <<Down>> \/ wire' \in Seq(Message)
        /\ Connected' <=> Connected
        /\ Connected => Sent' = Append(Sent, f)
    BY <1>1, <1>7, ToPageOne
  <1>9. answer' \in {NoAnswer, Asked, Starting} /\ answer'.kind # "snapshot"
    BY <1>1, NoSnapshot, AnswerKinds
  <1>10. SimTypes' /\ TickedOnce' /\ ~Running'
    <2>1. engine'.closing => engine'.phase = "IDLE" /\ engine'.seq > 0
      BY <1>6
    <2>2. engine'.phase # "RUNNING" /\ engine'.phase # "STOPPING"
      BY <1>6
    <2> QED
      BY <1>1, <1>6, <1>8, <1>9, <2>1, <2>2 DEF SimTypes, TickedOnce, Running
  <1>11. PipeRuns' /\ ViewFits'
    <2>1. CASE ~Connected
      BY <1>8, <1>10, <2>1, OfflinePrime
    <2>2. CASE Connected
      <3>1. /\ Sent \in Seq(Message) /\ Pipe = Sent
            /\ Sent' = Append(Sent, f) /\ Pipe' = Append(Sent, f)
        BY <1>1, <1>8, <1>10, <2>2, PipeType, PipeTypePrime
      <3>2. WholeTicks(Pipe') /\ PlainRuns(Pipe')
        BY <1>5, <1>7, <3>1, RunsGrow DEF PipeRuns
      <3>3. NotAhead(Sent', engine'.seq)
        <4>1. 1 \in Nat /\ f.seq <= 1
          BY <1>5
        <4> QED
          BY <1>6, <1>7, <3>1, <4>1, AheadGrows
      <3>4. ~NoneWhole(Pipe', 1, Len(Pipe'))
            /\ \A q, s : ViewLinked(Pipe, q, s) => ViewLinked(Pipe', q, s)
        BY <1>7, <3>1, StartsAnew
      <3> QED
        BY <1>1, <3>2, <3>3, <3>4 DEF PipeRuns, ViewFits
    <2> QED
      BY <2>1, <2>2
  <1>12. AnswerKnown' /\ AnswerLinks'
    BY <1>9, Unanswered
  <1>13. NotBehind'
    BY <1>1 DEF NotBehind
  <1> QED
    BY <1>10, <1>11, <1>12, <1>13

LEMMA FinishRunSim ==
  ASSUME SimInv, Prompt, FinishRun
  PROVE  SimInv'
  <1> USE DEF SimInv
  <1> DEFINE e == Closed(engine)
             g == TickOf(e, TRUE)
             q == engine.seq
  <1>1. /\ engine' = Ticked(e) /\ ToPage(<<Done, g>>) /\ MayEnd
        /\ view' = view /\ answer' = answer /\ engine \in EngineState
        /\ (engine.phase = "STOPPING" \/ engine.closing)
    BY DEF FinishRun, Done, SimTypes, Closing
  <1>2. ~Running /\ q \in Nat /\ q > 0
    BY <1>1, NextTickFacts DEF TickedOnce, Running
  <1>3. e \in EngineState /\ e.phase = "DONE" /\ e.seq = q /\ e.closing = FALSE
    BY <1>1, ClosedFacts
  <1> HIDE DEF e
  <1>4. /\ engine' \in EngineState /\ engine'.seq = q + 1 /\ engine'.phase = "DONE"
        /\ engine'.closing = FALSE
    BY <1>1, <1>3, TickedFacts
  <1>5. g \in TickMessage /\ g.kind = "tick" /\ g.seq = q + 1 /\ g.phase = "DONE" /\ g.diffs = VDevice
    BY <1>3, TickFacts
  <1> HIDE DEF g
  <1>6. /\ g \in Message /\ ~Whole(g) /\ ~First(g) /\ ~Plain(g)
        /\ Done \in Message /\ ~Whole(Done) /\ ~Plain(Done) /\ ~IsTick(Done)
    BY <1>2, <1>5, MessageKinds, KindFacts DEF First, Whole, Plain, IsTick
  <1>7. /\ wire' = <<Down>> \/ wire' \in Seq(Message)
        /\ Connected' <=> Connected
        /\ Connected => Sent' = Append(Append(Sent, Done), g)
    BY <1>1, <1>6, ToPageTwo
  <1>8. answer'.kind # "snapshot"
    BY <1>1, NoSnapshot
  <1>9. SimTypes' /\ TickedOnce' /\ ~Running'
    BY <1>1, <1>4, <1>7 DEF SimTypes, TickedOnce, Running
  <1>10. PipeRuns' /\ ViewFits'
    <2>1. CASE ~Connected
      BY <1>7, <1>9, <2>1, OfflinePrime
    <2>2. CASE Connected
      <3> DEFINE r == Append(Sent, Done)
      <3>1. Sent \in Seq(Message) /\ Pipe = Sent /\ Sent' = Append(r, g) /\ Pipe' = Append(r, g)
        BY <1>2, <1>7, <1>9, <2>2, PipeType, PipeTypePrime
      <3>2. r \in Seq(Message)
        BY <1>6, <3>1, Appended
      <3>3. WholeTicks(r) /\ PlainRuns(r)
        BY <1>6, <3>1, RunsGrow DEF PipeRuns
      <3>4. NotAhead(r, q)
        BY <1>2, <1>6, <3>1, AheadGrows DEF PipeRuns
      <3>5. \A n, s : ViewLinked(Sent, n, s) => ViewLinked(r, n, s)
        BY <1>6, <3>1, ViewGrows
      <3>6. NoneWhole(r, 1, Len(r)) => NoneWhole(Sent, 1, Len(Sent))
        BY <1>6, <3>1, NoneGrows
      <3> HIDE DEF r, q
      <3>7. WholeTicks(Pipe') /\ PlainRuns(Pipe')
        BY <1>5, <1>6, <3>1, <3>2, <3>3, RunsGrow
      <3>8. NotAhead(Sent', engine'.seq)
        <4>1. q + 1 \in Nat /\ q <= q + 1 /\ g.seq <= q + 1
          BY <1>2, <1>5
        <4> QED
          BY <1>2, <1>4, <1>6, <3>1, <3>2, <3>4, <4>1, AheadGrows
      <3>9. \A n, s : ViewLinked(Pipe, n, s) => ViewLinked(Pipe', n, s)
        BY <1>6, <3>1, <3>2, <3>5, ViewGrows
      <3>10. NoneWhole(Pipe', 1, Len(Pipe')) => view.seq <= engine'.seq
        <4>1. NoneWhole(Pipe', 1, Len(Pipe')) => view.seq <= q
          BY <1>6, <2>2, <3>1, <3>2, <3>6, NoneGrows DEF ViewFits, q
        <4>2. view.seq \in Nat
          BY DEF SimTypes, ViewState
        <4> QED
          BY <1>2, <1>4, <4>1, <4>2
      <3> QED
        BY <1>1, <3>7, <3>8, <3>9, <3>10 DEF PipeRuns, ViewFits
    <2> QED
      BY <2>1, <2>2
  <1>11. AnswerKnown' /\ AnswerLinks'
    BY <1>8, Unanswered
  <1>12. NotBehind'
    BY <1>1 DEF NotBehind
  <1> QED
    BY <1>9, <1>10, <1>11, <1>12

(* Steps of an engine that does not run and does not tick. *)
LEMMA QuietSim ==
  ASSUME SimInv, NEW p \in SimPhase, engine' = [engine EXCEPT !.phase = p],
         engine.phase # "RUNNING", p \notin {"RUNNING", "STOPPING"}, ~engine.closing,
         view' = view, wire' = wire,
         answer' = answer \/ answer' \in {NoAnswer, Starting}
  PROVE  SimInv'
  <1> USE DEF SimInv
  <1>1. /\ engine' \in EngineState /\ engine'.phase = p /\ engine'.seq = engine.seq
        /\ engine'.closing = engine.closing
    BY PhaseFacts DEF SimTypes
  <1>2. SimTypes' /\ TickedOnce' /\ ~Running /\ ~Running'
    BY <1>1 DEF SimTypes, TickedOnce, Running
  <1>3. Connected' <=> Connected
    BY DEF Connected
  <1>4. Sent' = Sent /\ Pipe' = Pipe
    BY <1>2, <1>3 DEF Sent, Pipe
  <1>5. answer'.kind = "snapshot" => answer' = answer
    BY AnswerKinds
  <1>6. PipeRuns' /\ ViewFits'
    BY <1>1, <1>3, <1>4 DEF PipeRuns, ViewFits
  <1>7. AnswerKnown' /\ AnswerLinks'
    BY <1>1, <1>2, <1>4, <1>5 DEF AnswerKnown, AnswerLinks
  <1>8. NotBehind'
    BY DEF NotBehind
  <1> QED
    BY <1>2, <1>6, <1>7, <1>8

LEMMA BeginSim ==
  ASSUME SimInv, NEW mine \in BOOLEAN, Begin(mine)
  PROVE  SimInv'
  <1> DEFINE p == "STARTING"
  <1>1. /\ engine' = [engine EXCEPT !.phase = p] /\ engine.phase # "RUNNING" /\ ~engine.closing
        /\ view' = view /\ wire' = wire /\ (answer' = answer \/ answer' \in {NoAnswer, Starting})
    BY DEF Begin
  <1>2. p \in SimPhase /\ p \notin {"RUNNING", "STOPPING"}
    BY DEF SimPhase
  <1> HIDE DEF p
  <1> QED
    BY <1>1, <1>2, QuietSim

LEMMA LabBusySim ==
  ASSUME SimInv, LabBusy
  PROVE  SimInv'
  <1> DEFINE p == "IDLE"
  <1>1. /\ engine' = [engine EXCEPT !.phase = p] /\ engine.phase # "RUNNING" /\ ~engine.closing
        /\ view' = view /\ wire' = wire /\ (answer' = answer \/ answer' \in {NoAnswer, Starting})
    BY DEF LabBusy, Refused, SimInv, TickedOnce
  <1>2. p \in SimPhase /\ p \notin {"RUNNING", "STOPPING"}
    BY DEF SimPhase
  <1> HIDE DEF p
  <1> QED
    BY <1>1, <1>2, QuietSim

LEMMA JoinSimSim ==
  ASSUME SimInv, JoinSim
  PROVE  SimInv'
  <1> USE DEF SimInv
  <1> DEFINE c == SnapshotOf(engine)
             r == Append(<<>>, c)
  <1>1. /\ wire' = <<c>> /\ engine' = engine /\ view' = view /\ answer' = answer
        /\ engine \in EngineState
    BY DEF JoinSim, SimTypes
  <1>2. c \in Snapshot /\ c.kind = "snapshot" /\ c.seq = engine.seq /\ c.sent = engine.devices
        /\ engine.seq \in Nat
    BY <1>1, SnapshotFacts, NextTickFacts
  <1>3. r = <<c>>
    OBVIOUS
  <1> HIDE DEF c
  <1>4. c \in Message /\ Whole(c) /\ ~IsTick(c) /\ ~Plain(c) /\ c # Done
    BY <1>2, MessageKinds DEF Whole, IsTick, Plain
  <1>5. r \in Seq(Message) /\ r # <<>> /\ Len(r) = 1 /\ r[Len(r)] = c
    BY <1>3, <1>4, EmptyFacts, Appended
  <1>6. wire' \in Seq(Message) /\ Connected'
    BY <1>1, <1>3, <1>5, NotDown DEF Connected
  <1>7. SimTypes' /\ TickedOnce' /\ (Running' <=> Running)
    BY <1>1, <1>6 DEF SimTypes, TickedOnce, Running
  <1>8. /\ Sent' = r
        /\ Running' => Pipe' = Append(r, NextTick')
        /\ ~Running' => Pipe' = r
    BY <1>1, <1>3, <1>6, <1>7, PipeTypePrime
  <1>9. NextTick' = NextTick
    BY <1>1 DEF NextTick
  <1> DEFINE t == NextTick
  <1>10. /\ t \in Message /\ t.seq = engine.seq + 1 /\ t.sent = engine.devices
         /\ t.diffs = engine.dirty /\ (Running => Plain(t) /\ ~First(t))
    BY NextTickFacts
  <1>11. /\ WholeTicks(r) /\ PlainRuns(r) /\ NotAhead(r, engine.seq)
    <2>1. engine.seq <= engine.seq /\ c.seq <= engine.seq
      BY <1>2
    <2> QED
      BY <1>2, <1>4, <2>1, EmptyFacts, RunsGrow, AheadGrows
  <1>12. /\ ~NoneWhole(r, 1, Len(r)) /\ \A q, s : ViewLinked(r, q, s)
         /\ \A q, s : AnswerLinked(r, q, s)
         /\ \A q, seen : AnswerInTime(r, q, seen)
    <2>1. ~NoneWhole(r, 1, Len(r)) /\ \A q, s : ViewLinked(r, q, s)
      BY <1>4, EmptyFacts, StartsAnew
    <2>2. \A q, s : AnswerLinked(r, q, s)
      BY <1>4, EmptyFacts, AnswerGrows
    <2>3. \A q, seen : AnswerInTime(r, q, seen)
      BY <1>4, EmptyFacts, TimeGrows
    <2> QED
      BY <2>1, <2>2, <2>3
  <1>13. AnswerKnown' /\ NotBehind'
    BY <1>1, <1>7 DEF AnswerKnown, NotBehind
  <1> HIDE DEF r, t
  <1>14. CASE ~Running
    <2>1. Pipe' = r
      BY <1>7, <1>8, <1>14
    <2> QED
      BY <1>1, <1>7, <1>8, <1>11, <1>12, <1>13, <2>1 DEF PipeRuns, ViewFits, AnswerLinks
  <1>15. CASE Running
    <2>1. Pipe' = Append(r, t)
      BY <1>7, <1>8, <1>9, <1>15 DEF t
    <2>2. Follows(t, c)
      BY <1>2, <1>4, <1>10 DEF Follows, Linked
    <2>3. WholeTicks(Pipe') /\ PlainRuns(Pipe')
      BY <1>5, <1>10, <1>11, <1>15, <2>1, <2>2, RunsGrow
    <2>4. ~NoneWhole(Pipe', 1, Len(Pipe'))
      BY <1>5, <1>10, <1>12, <2>1, NoneGrows
    <2>5. ViewLinked(Pipe', view.seq, view.sent)
      BY <1>5, <1>10, <1>12, <2>1, ViewGrows
    <2>6. AnswerLinks'
      <3> SUFFICES ASSUME answer.kind = "snapshot"
                   PROVE  /\ AnswerLinked(Pipe', answer.seq, answer.sent)
                          /\ AnswerInTime(Pipe', answer.seq, view.seq)
        BY <1>1 DEF AnswerLinks
      <3>1. answer.seq \in Nat
        BY AnswerKinds DEF SimTypes, Snapshot
      <3>2. t.seq = answer.seq + 1 => Linked(t, answer.sent)
        <4> SUFFICES ASSUME t.seq = answer.seq + 1 PROVE Linked(t, answer.sent)
          OBVIOUS
        <4>1. answer.seq = engine.seq
          BY <1>2, <1>10, <3>1
        <4> QED
          BY <1>10, <1>15, <4>1 DEF AnswerKnown, Linked
      <3> QED
        BY <1>5, <1>10, <1>12, <2>1, <3>2, AnswerGrows, TimeGrows
    <2> QED
      BY <1>1, <1>7, <1>8, <1>11, <1>13, <2>3, <2>4, <2>5, <2>6 DEF PipeRuns, ViewFits
  <1> QED
    BY <1>14, <1>15

LEMMA CutSim ==
  ASSUME SimInv, Cut
  PROVE  SimInv'
  <1>1. wire' = <<Down>> /\ engine' = engine /\ view' = view /\ answer' = answer
    BY DEF Cut
  <1>2. SimTypes' /\ TickedOnce' /\ ~Connected' /\ AnswerKnown' /\ NotBehind'
    BY <1>1 DEF SimInv, SimTypes, TickedOnce, Connected, AnswerKnown, NotBehind, Running
  <1> QED
    BY <1>2, OfflinePrime DEF SimInv

(* Steps that only change what is on its way over HTTP. *)
LEMMA PipeStays ==
  ASSUME wire' = wire, engine' = engine
  PROVE  /\ Sent' = Sent /\ Pipe' = Pipe
         /\ (Connected' <=> Connected) /\ (Running' <=> Running)
  BY DEF Sent, Pipe, Connected, Running, NextTick

LEMMA ServeStateSim ==
  ASSUME SimInv, ServeState
  PROVE  SimInv'
  <1>1. /\ wire' = wire /\ engine' = engine /\ view' = view /\ answer' = SnapshotOf(engine)
    BY DEF ServeState
  <1>2. Sent' = Sent /\ Pipe' = Pipe /\ (Connected' <=> Connected)
    BY <1>1, PipeStays
  <1>3. SimTypes' /\ TickedOnce'
    BY <1>1, SnapshotFacts DEF SimInv, SimTypes, TickedOnce
  <1>4. PipeRuns' /\ ViewFits' /\ NotBehind'
    BY <1>1, <1>2 DEF SimInv, PipeRuns, ViewFits, NotBehind
  <1>5. AnswerServed'
    BY <1>1 DEF AnswerServed
  <1> QED
    BY <1>3, <1>4, <1>5, ServedPrime DEF SimInv

LEMMA AnswerLostSim ==
  ASSUME SimInv, AnswerLost
  PROVE  SimInv'
  <1>1. /\ wire' = wire /\ engine' = engine /\ view' = view /\ answer' = NoAnswer
    BY DEF AnswerLost
  <1>2. Sent' = Sent /\ Pipe' = Pipe /\ (Connected' <=> Connected)
    BY <1>1, PipeStays
  <1>3. SimTypes' /\ TickedOnce'
    BY <1>1 DEF SimInv, SimTypes, TickedOnce
  <1>4. PipeRuns' /\ ViewFits' /\ NotBehind'
    BY <1>1, <1>2 DEF SimInv, PipeRuns, ViewFits, NotBehind
  <1> QED
    BY <1>1, <1>3, <1>4, AnswerKinds, Unanswered DEF SimInv

LEMMA ShowAnswerSim ==
  ASSUME SimInv, ShowAnswer
  PROVE  SimInv'
  <1> USE DEF SimInv
  <1> DEFINE l == OutOfStep
             v == [Shown(answer) EXCEPT !.late = l]
  <1>1. /\ wire' = wire /\ engine' = engine /\ answer' = NoAnswer /\ view' = v
        /\ answer.kind = "snapshot"
    BY DEF ShowAnswer
  <1>2. answer \in Snapshot /\ answer.seq \in Nat
    BY <1>1, AnswerKinds DEF SimTypes, Snapshot
  <1>3. l \in BOOLEAN
    BY DEF OutOfStep
  <1>4. l <=> OutOfStep
    OBVIOUS
  <1> HIDE DEF l
  <1>5. /\ view' \in ViewState /\ view'.seq = answer.seq /\ view'.sent = answer.sent
        /\ view'.devices = answer.sent /\ view'.late = l
    BY <1>1, <1>2, <1>3, ShownFacts
  <1> HIDE DEF v
  <1>6. Sent' = Sent /\ Pipe' = Pipe /\ (Connected' <=> Connected)
    BY <1>1, PipeStays
  <1>7. SimTypes' /\ TickedOnce' /\ PipeRuns'
    BY <1>1, <1>5, <1>6 DEF SimTypes, TickedOnce, PipeRuns
  <1>8. AnswerKnown' /\ AnswerLinks'
    BY <1>1, AnswerKinds, Unanswered
  <1>9. NotBehind'
    <2>1. \A d \in VDevice : answer.sent[d] \in Nat
      BY <1>2 DEF Snapshot, Counts
    <2>2. \A d \in VDevice : answer.sent[d] >= answer.sent[d]
      BY <2>1
    <2> QED
      BY <1>5, <2>2 DEF NotBehind
  <1>10. answer.seq <= engine.seq
    BY <1>1 DEF AnswerKnown
  <1>11. ASSUME ~l PROVE ViewLinked(Pipe, answer.seq, answer.sent)
    <2>1. CASE ~Connected
      BY <2>1, PipeType, EmptyFacts
    <2>2. CASE Connected
      <3>1. /\ Sent = wire /\ Sent \in Seq(Message) /\ Pipe \in Seq(Message)
            /\ Running => Pipe = Append(Sent, NextTick)
            /\ ~Running => Pipe = Sent
        BY <2>2, PipeType
      <3>2. ~(answer.seq < view.seq) /\ \A k \in 1..Len(Sent) : ~First(Sent[k])
        <4>1. DOMAIN wire = 1..Len(Sent)
          BY <3>1
        <4> QED
          BY <1>4, <1>11, <3>1, <4>1 DEF OutOfStep, First, IsTick
      <3>3. \A k \in 1..Len(Pipe) : ~First(Pipe[k])
        <4>1. CASE Running
          <5>1. NextTick \in Message /\ ~First(NextTick) /\ Pipe = Append(Sent, NextTick)
            BY <3>1, <4>1, NextTickFacts
          <5>2. /\ Len(Pipe) = Len(Sent) + 1 /\ Pipe[Len(Sent) + 1] = NextTick /\ Len(Sent) \in Nat
                /\ \A k \in 1..Len(Sent) : Pipe[k] = Sent[k]
            BY <3>1, <5>1, Appended
          <5>3. \A k \in 1..Len(Pipe) : k \in 1..Len(Sent) \/ k = Len(Sent) + 1
            BY <5>2
          <5> QED
            BY <3>2, <5>1, <5>2, <5>3
        <4>2. CASE ~Running
          BY <3>1, <3>2, <4>2
        <4> QED
          BY <4>1, <4>2
      <3>4. \A k \in 1..Len(Pipe) : Latest(Pipe, k)
        <4>1. \A k \in 1..Len(Pipe) : \A i \in (k + 1)..Len(Pipe) : i \in 1..Len(Pipe)
          BY <3>1
        <4> QED
          BY <3>3, <4>1 DEF Latest
      <3>5. AnswerLinked(Pipe, answer.seq, answer.sent) /\ AnswerInTime(Pipe, answer.seq, view.seq)
        BY <1>1 DEF AnswerLinks
      <3> SUFFICES ASSUME NEW k \in 1..Len(Pipe), Plain(Pipe[k])
                   PROVE  /\ Pipe[k].seq = answer.seq + 1 => Linked(Pipe[k], answer.sent)
                          /\ k = 1 => Pipe[k].seq <= answer.seq + 1
        BY DEF ViewLinked
      <3>6. Pipe[k].seq = answer.seq + 1 => Linked(Pipe[k], answer.sent)
        BY <3>4, <3>5 DEF AnswerLinked
      <3>7. k = 1 => Pipe[k].seq <= answer.seq + 1
        <4>1. Len(Pipe) > 0
          BY <3>1
        <4> QED
          BY <3>2, <3>4, <3>5, <4>1 DEF AnswerInTime
      <3> QED
        BY <3>6, <3>7
    <2> QED
      BY <2>1, <2>2
  <1>12. ViewFits'
    BY <1>1, <1>5, <1>6, <1>10, <1>11 DEF ViewFits
  <1> QED
    BY <1>7, <1>8, <1>9, <1>12

LEMMA TailOfAppended ==
  ASSUME NEW p \in Seq(Message), p # <<>>, NEW m \in Message
  PROVE  /\ Head(Append(p, m)) = Head(p) /\ Tail(Append(p, m)) = Append(Tail(p), m)
         /\ Append(p, m) # <<>>
  <1> HIDE DEF Message
  <1> QED
    OBVIOUS

(* The oldest message leaves what is under way. *)
LEMMA PipeShifts ==
  ASSUME SimTypes, TickedOnce, Receive
  PROVE  /\ Sent \in Seq(Message) /\ Pipe \in Seq(Message) /\ Sent # <<>> /\ Pipe # <<>>
         /\ Head(Pipe) = Head(wire) /\ Head(Sent) = Head(wire) /\ Head(wire) \in Message
         /\ Connected /\ Connected' /\ wire' \in Seq(Message)
         /\ Sent' = Tail(Sent) /\ Pipe' = Tail(Pipe)
  <1>1. /\ Connected /\ wire # <<>> /\ wire' = Tail(wire) /\ engine' = engine
    BY DEF Receive
  <1>2. /\ wire \in Seq(Message) /\ Sent = wire /\ Pipe \in Seq(Message)
        /\ Running => Pipe = Append(wire, NextTick)
        /\ ~Running => Pipe = wire
    BY <1>1, PipeType
  <1>3. wire' \in Seq(Message) /\ Head(wire) \in Message /\ Connected'
    BY <1>1, <1>2, Shifted, NotDown DEF Connected
  <1>4. /\ (Running' <=> Running) /\ NextTick' = NextTick
    BY <1>1 DEF Running, NextTick
  <1>5. Sent' = Tail(wire)
    BY <1>1, <1>3 DEF Sent
  <1>6. CASE Running
    <2>1. NextTick \in Message /\ Pipe' = Append(Tail(wire), NextTick)
      BY <1>3, <1>4, <1>5, <1>6, NextTickFacts DEF Pipe
    <2> QED
      BY <1>1, <1>2, <1>3, <1>5, <1>6, <2>1, TailOfAppended
  <1>7. CASE ~Running
    <2>1. Pipe' = Tail(wire)
      BY <1>4, <1>5, <1>7 DEF Pipe
    <2> QED
      BY <1>1, <1>2, <1>3, <1>5, <1>7, <2>1
  <1> QED
    BY <1>6, <1>7

LEMMA ReceiveSim ==
  ASSUME SimInv, Receive
  PROVE  SimInv'
  <1> USE DEF SimInv
  <1> DEFINE h == Head(wire)
             v == Handled(h)
  <1>1. /\ engine' = engine /\ view' = v
        /\ (answer' = answer \/ (answer' = Asked /\ answer = NoAnswer))
        /\ view \in ViewState
    BY DEF Receive, Fetching, SimTypes
  <1>2. /\ Sent \in Seq(Message) /\ Pipe \in Seq(Message) /\ Sent # <<>> /\ Pipe # <<>>
        /\ Head(Pipe) = h /\ Head(Sent) = h /\ h \in Message
        /\ Connected /\ Connected' /\ wire' \in Seq(Message)
        /\ Sent' = Tail(Sent) /\ Pipe' = Tail(Pipe)
    BY PipeShifts
  <1>3. /\ view' \in ViewState
        /\ \/ h # Done /\ view'.seq = h.seq /\ view'.sent = h.sent
           \/ /\ ~Whole(h) /\ (Plain(h) => h.seq <= view.seq)
              /\ view'.seq = view.seq /\ view'.sent = view.sent /\ view'.devices = view.devices
              /\ view'.late = view.late
        /\ (\A d \in VDevice : view'.devices[d] = view'.sent[d])
           \/ (view'.sent = view.sent /\ view'.devices = view.devices /\ view'.late = view.late)
           \/ /\ IsTick(h) /\ ~Plain(h) /\ view'.sent = h.sent
              /\ \A d \in h.diffs : view'.devices[d] = h.sent[d]
           \/ /\ IsTick(h) /\ h.seq # 1 /\ h.seq > view.seq /\ view'.sent = h.sent
              /\ view'.late = (view.late /\ h.diffs # VDevice)
              /\ \A d \in h.diffs : view'.devices[d] = h.sent[d]
              /\ \A d \in VDevice \ h.diffs : view'.devices[d] = view.devices[d]
    BY <1>1, <1>2, HandledFacts
  <1> HIDE DEF h, v
  <1>4. /\ WholeTicks(Pipe) /\ PlainRuns(Pipe) /\ NotAhead(Sent, engine.seq)
        /\ engine.seq \in Nat /\ view.seq \in Nat /\ view'.seq \in Nat
    BY <1>3, NextTickFacts DEF PipeRuns, SimTypes, ViewState
  <1>5. SimTypes' /\ TickedOnce'
    BY <1>1, <1>2, <1>3 DEF SimTypes, TickedOnce
  <1>6. answer'.kind = "snapshot" => answer' = answer
    BY <1>1, AnswerKinds
  <1>7. WholeTicks(Pipe') /\ PlainRuns(Pipe') /\ (IsTick(h) /\ ~Plain(h) => h.diffs = VDevice)
    BY <1>2, <1>4, RunsShift
  <1>8. /\ NotAhead(Sent', engine'.seq)
        /\ NoneWhole(Sent', 1, Len(Sent')) /\ h # Done => h.seq <= engine.seq
    BY <1>1, <1>2, <1>4, AheadShift
  <1>9. NoneWhole(Pipe', 1, Len(Pipe')) => NoneWhole(Sent', 1, Len(Sent'))
    <2>1. /\ Sent' \in Seq(Message)
          /\ Running' => Pipe' = Append(Sent', NextTick') /\ NextTick' \in Message
          /\ ~Running' => Pipe' = Sent'
      BY <1>2, <1>5, PipeTypePrime, NextTickFactsPrime
    <2> QED
      BY <2>1, NoneGrows
  <1>10. AnswerKnown'
    BY <1>1, <1>6 DEF AnswerKnown, Running
  <1>11. /\ Whole(h) \/ Plain(h) => ViewLinked(Pipe', h.seq, h.sent)
         /\ ~Whole(h) /\ ~Plain(h) => ViewLinked(Pipe', view'.seq, view'.sent)
         /\ ~Whole(h) /\ ViewLinked(Pipe, view.seq, view.sent) /\ (Plain(h) => h.seq <= view.seq)
              => ViewLinked(Pipe', view.seq, view.sent)
    <2>1. \A q \in Nat : \A s :
            /\ Whole(h) \/ Plain(h) => ViewLinked(Pipe', h.seq, h.sent)
            /\ ~Whole(h) /\ ~Plain(h) => ViewLinked(Pipe', q, s)
            /\ ~Whole(h) /\ ViewLinked(Pipe, q, s) /\ (Plain(h) => h.seq <= q)
                 => ViewLinked(Pipe', q, s)
      BY <1>2, <1>4, LinksShift
    <2> QED
      BY <1>4, <2>1
  <1>12. ViewFits'
    <2>1. ~view'.late => ViewLinked(Pipe', view'.seq, view'.sent)
      BY <1>3, <1>11 DEF ViewFits
    <2>2. NoneWhole(Pipe', 1, Len(Pipe')) => view'.seq <= engine.seq
      <3> SUFFICES ASSUME NoneWhole(Pipe', 1, Len(Pipe')) PROVE view'.seq <= engine.seq
        OBVIOUS
      <3>1. CASE h # Done /\ view'.seq = h.seq
        BY <1>8, <1>9, <3>1
      <3>2. CASE ~Whole(h) /\ view'.seq = view.seq
        <4>1. NoneWhole(Pipe, 1, Len(Pipe))
          BY <1>2, <3>2, WholesShift
        <4> QED
          BY <1>2, <3>2, <4>1 DEF ViewFits
      <3> QED
        BY <1>3, <3>1, <3>2
    <2> QED
      BY <1>1, <2>1, <2>2 DEF ViewFits
  <1>13. AnswerLinks'
    <2> SUFFICES ASSUME answer' = answer, answer.kind = "snapshot"
                 PROVE  /\ AnswerLinked(Pipe', answer.seq, answer.sent)
                        /\ AnswerInTime(Pipe', answer.seq, view'.seq)
      BY <1>6 DEF AnswerLinks
    <2> DEFINE q == answer.seq
               s == answer.sent
    <2>1. q \in Nat
      BY AnswerKinds DEF SimTypes, Snapshot
    <2>2. AnswerLinked(Pipe, q, s) /\ AnswerInTime(Pipe, q, view.seq)
      BY DEF AnswerLinks
    <2> HIDE DEF q, s
    <2>3. AnswerLinked(Pipe', q, s)
      BY <1>2, <1>4, <2>1, <2>2, LinksShift
    <2>4. \A seen \in Nat :
            /\ Whole(h) \/ Plain(h) => AnswerInTime(Pipe', q, h.seq)
            /\ ~Whole(h) /\ ~Plain(h) => AnswerInTime(Pipe', q, seen)
            /\ ~Whole(h) /\ AnswerInTime(Pipe, q, seen) /\ (Plain(h) => h.seq <= seen)
                 => AnswerInTime(Pipe', q, seen)
      BY <1>2, <1>4, <2>1, LinksShift
    <2>5. AnswerInTime(Pipe', q, view'.seq)
      BY <1>3, <1>4, <2>2, <2>4
    <2> QED
      BY <2>3, <2>5 DEF q, s
  <1>14. NotBehind'
    <2> SUFFICES ASSUME ~view'.late, NEW d \in VDevice
                 PROVE  view'.devices[d] >= view'.sent[d]
      BY DEF NotBehind
    <2>1. view'.sent[d] \in Nat
      BY <1>3 DEF ViewState, Counts
    <2>2. view'.devices[d] = view'.sent[d] => view'.devices[d] >= view'.sent[d]
      BY <2>1
    <2>3. CASE \A x \in VDevice : view'.devices[x] = view'.sent[x]
      BY <2>2, <2>3
    <2>4. CASE view'.sent = view.sent /\ view'.devices = view.devices /\ view'.late = view.late
      BY <2>4 DEF NotBehind
    <2>5. CASE /\ IsTick(h) /\ ~Plain(h) /\ view'.sent = h.sent
               /\ \A x \in h.diffs : view'.devices[x] = h.sent[x]
      BY <1>7, <2>2, <2>5
    <2>6. CASE /\ IsTick(h) /\ h.seq # 1 /\ h.seq > view.seq /\ view'.sent = h.sent
               /\ view'.late = (view.late /\ h.diffs # VDevice)
               /\ \A x \in h.diffs : view'.devices[x] = h.sent[x]
               /\ \A x \in VDevice \ h.diffs : view'.devices[x] = view.devices[x]
      <3>1. CASE d \in h.diffs
        BY <2>2, <2>6, <3>1
      <3>2. CASE d \notin h.diffs
        <4>1. Plain(h) /\ ~view.late /\ ~Whole(h) /\ h.seq \in Nat
          BY <1>2, <1>7, <2>6, <3>2, KindFacts
        <4>2. Pipe[1] = h /\ 1 \in 1..Len(Pipe)
          BY <1>2, Shifted
        <4>3. NoneWhole(Pipe, 1, 1)
          <5>1. \A k \in 1..1 : k = 1
            OBVIOUS
          <5> QED
            BY <4>1, <4>2, <5>1 DEF NoneWhole
        <4>4. h.seq <= view.seq + 1 /\ (h.seq = view.seq + 1 => Linked(h, view.sent))
          BY <4>1, <4>2, <4>3 DEF ViewFits, ViewLinked
        <4>5. h.seq = view.seq + 1
          BY <1>4, <2>6, <4>1, <4>4
        <4>6. view'.devices[d] = view.devices[d] /\ view'.sent[d] = view.sent[d]
          BY <2>6, <3>2, <4>4, <4>5 DEF Linked
        <4> QED
          BY <4>1, <4>6 DEF NotBehind
      <3> QED
        BY <3>1, <3>2
    <2> QED
      BY <1>3, <2>3, <2>4, <2>5, <2>6
  <1> QED
    BY <1>5, <1>7, <1>8, <1>10, <1>12, <1>13, <1>14 DEF PipeRuns

LEMMA SimKept ==
  ASSUME Prompt, SimInv, [SimPageNext]_simVars
  PROVE  SimInv'
  <1>1. CASE \E mine \in BOOLEAN : Begin(mine)
    BY <1>1, BeginSim
  <1>2. CASE \E d \in VDevice : Change(d)
    BY <1>2, ChangeSim
  <1>3. CASE SetUp \/ LabBusy \/ StartFails \/ EmitTick \/ StopRun \/ FinishRun
    BY <1>3, SetUpSim, LabBusySim, StartFailsSim, EmitTickSim, StopRunSim, FinishRunSim
  <1>4. CASE PageSteps
    BY <1>4, JoinSimSim, ReceiveSim, ServeStateSim, ShowAnswerSim DEF PageSteps
  <1>5. CASE Cut \/ AnswerLost
    BY <1>5, CutSim, AnswerLostSim
  <1>6. CASE UNCHANGED simVars
    <2>1. /\ wire' = wire /\ engine' = engine /\ view' = view /\ answer' = answer
      BY <1>6 DEF simVars
    <2>2. Sent' = Sent /\ Pipe' = Pipe /\ (Connected' <=> Connected) /\ (Running' <=> Running)
      BY <2>1, PipeStays
    <2> QED
      BY <2>1, <2>2
      DEF SimInv, SimTypes, TickedOnce, PipeRuns, ViewFits, AnswerKnown, AnswerLinks, NotBehind
  <1> QED
    BY <1>1, <1>2, <1>3, <1>4, <1>5, <1>6 DEF SimPageNext, ServerSteps

(* A page that shows tick n shows every device at least as new as the      *)
(* engine had it at tick n, as long as an answer over HTTP comes before    *)
(* the run it is about ends: simReducer's sequence guard, and buildTick's  *)
(* diffs of the dirty devices only.                                        *)
THEOREM SimPageNotBehind ==
  ASSUME Prompt
  PROVE  SimPageSpec => []NotBehind
  <1>1. SimInv => NotBehind
    BY DEF SimInv
  <1> QED
    BY <1>1, SimInitHolds, SimKept, PTL DEF SimPageSpec
-----------------------------------------------------------------------------
(* The end of a run on its way to the page.                                *)

(* The last word on the run of the engine e: a snapshot of what it is      *)
(* like, or the tick that tells of every device.                           *)
LastWord(m, e) ==
  /\ m # Done /\ m.seq = e.seq /\ m.phase = "DONE" /\ m.sent = e.devices
  /\ IF IsTick(m) THEN m.diffs = VDevice ELSE m.summary

(* It comes last, after the summary, and is the newest of the run.         *)
EndArrives == LET n == Len(wire) IN n > 0 =>
  /\ LastWord(wire[n], engine)
  /\ IsTick(wire[n]) => IF n > 1 THEN wire[n - 1] = Done ELSE view.summary
  /\ \A k \in 1..(n - 1) : Latest(wire, k) /\ wire[k] # Done => wire[k].seq < engine.seq

(* Who has heard it, over the socket or over HTTP, shows it.               *)
EndSeen == (NoneWhole(wire, 1, Len(wire)) /\ view.seq = engine.seq) \/ wire = <<>> => ShowsTheEnd

EndInv == engine.phase = "DONE" =>
  /\ engine.summary /\ engine.seq > 1
  /\ answer.kind = "snapshot" => answer = SnapshotOf(engine)
  /\ Connected => EndArrives /\ EndSeen

LEMMA EndRecords ==
  ASSUME engine \in EngineState
  PROVE  /\ SnapshotOf(engine).phase = engine.phase /\ SnapshotOf(engine).summary = engine.summary
         /\ Closed(engine).summary /\ Ticked(Closed(engine)).summary
  <1> DEFINE e == Closed(engine)
  <1>1. e \in EngineState
    BY ClosedFacts
  <1>2. e.summary
    BY DEF EngineState, Closed
  <1> HIDE DEF e
  <1> DEFINE n == e.seq + 1
             s == {}
             x == [e EXCEPT !.seq = n, !.dirty = s]
  <1>3. Ticked(e) = x
    BY <1>1 DEF EngineState, Ticked
  <1> HIDE DEF n, s
  <1>4. x.summary = e.summary
    BY <1>1 DEF EngineState
  <1>5. Ticked(e).summary
    BY <1>2, <1>3, <1>4
  <1> QED
    BY <1>2, <1>5 DEF SnapshotOf, e

(* The snapshot of an engine that is done. *)
LEMMA SnapshotEnds ==
  ASSUME SimTypes, EndInv, engine.phase = "DONE"
  PROVE  LET s == SnapshotOf(engine) IN
         s \in Snapshot /\ LastWord(s, engine) /\ ~IsTick(s) /\ Whole(s)
  <1> DEFINE s == SnapshotOf(engine)
  <1>1. engine \in EngineState
    BY DEF SimTypes
  <1>2. /\ s \in Snapshot /\ s.kind = "snapshot" /\ s.seq = engine.seq /\ s.sent = engine.devices
        /\ s.phase = "DONE" /\ s.summary
    BY <1>1, SnapshotFacts, EndRecords DEF EndInv
  <1> HIDE DEF s
  <1>3. s # Done /\ ~IsTick(s) /\ Whole(s)
    BY <1>2 DEF Done, IsTick, Whole
  <1> QED
    BY <1>2, <1>3 DEF LastWord, s

LEMMA ShownEnds ==
  ASSUME SimTypes, NEW s \in Snapshot, LastWord(s, engine), NEW late \in BOOLEAN, engine' = engine,
         view' = Shown(s) \/ view' = [Shown(s) EXCEPT !.late = late]
  PROVE  ShowsTheEnd' /\ view'.summary
  <1>1. ~IsTick(s) /\ s.phase = "DONE" /\ s.sent = engine.devices /\ s.summary
    BY DEF Snapshot, IsTick, LastWord
  <1>2. view'.phase = s.phase /\ view'.summary = s.summary /\ view'.devices = s.sent
    BY DEF Shown
  <1> QED
    BY <1>1, <1>2 DEF ShowsTheEnd

LEMMA MergedEnds ==
  ASSUME SimTypes, NEW t \in TickMessage, LastWord(t, engine), t.seq # 1, t.seq > view.seq, view.summary,
         engine' = engine, view' = Merged(view, t)
  PROVE  ShowsTheEnd'
  <1> DEFINE g == [d \in VDevice |-> IF d \in t.diffs THEN t.sent[d] ELSE view.devices[d]]
             l == view.late /\ t.diffs # VDevice
             v == [view EXCEPT !.seq = t.seq, !.phase = t.phase, !.known = t.begun, !.sent = t.sent,
                               !.devices = g, !.late = l]
  <1>1. view \in ViewState /\ t.seq \in Nat /\ view.seq \in Nat /\ t.sent \in Counts
    BY DEF SimTypes, ViewState, TickMessage
  <1>2. view' = v
    BY <1>1 DEF Merged
  <1>3. t.phase = "DONE" /\ t.sent = engine.devices /\ t.diffs = VDevice
    BY DEF LastWord, IsTick, TickMessage
  <1>4. g = engine.devices
    BY <1>1, <1>3 DEF Counts
  <1> HIDE DEF g, l
  <1>5. v.phase = t.phase /\ v.devices = g /\ v.summary = view.summary
    BY <1>1 DEF ViewState
  <1> HIDE DEF v
  <1> QED
    BY <1>2, <1>3, <1>4, <1>5 DEF ShowsTheEnd

(* What the page shows, shown once more, or with the summary. *)
LEMMA SummaryShown ==
  ASSUME SimTypes, view' = Handled(Done)
  PROVE  /\ view'.summary /\ view'.phase = view.phase /\ view'.devices = view.devices
         /\ view'.seq = view.seq
  BY DEF Handled, Done, SimTypes, ViewState

LEMMA FinishEnds ==
  ASSUME SimInv, Prompt, FinishRun
  PROVE  EndInv'
  <1> DEFINE e == Closed(engine)
             g == TickOf(e, TRUE)
             q == engine.seq
  <1>1. /\ engine' = Ticked(e) /\ ToPage(<<Done, g>>) /\ MayEnd
        /\ view' = view /\ answer' = answer /\ engine \in EngineState /\ SimTypes /\ TickedOnce
        /\ engine.phase = "STOPPING" \/ engine.closing
    BY DEF FinishRun, Done, SimInv, SimTypes, Closing
  <1>2. ~Running /\ q \in Nat /\ q > 0
    BY <1>1, NextTickFacts DEF TickedOnce, Running
  <1>3. e \in EngineState /\ e.phase = "DONE" /\ e.seq = q /\ e.devices = engine.devices
    BY <1>1, ClosedFacts
  <1>4. Ticked(e).summary
    BY <1>1, EndRecords
  <1> HIDE DEF e
  <1>5. /\ engine'.seq = q + 1 /\ engine'.phase = "DONE" /\ engine'.summary
        /\ engine'.devices = engine.devices
    BY <1>1, <1>3, <1>4, TickedFacts
  <1>6. /\ g \in TickMessage /\ g.kind = "tick" /\ g.seq = q + 1 /\ g.phase = "DONE"
        /\ g.sent = engine.devices /\ g.diffs = VDevice
    BY <1>3, TickFacts
  <1> HIDE DEF g
  <1>7. /\ g \in Message /\ ~Whole(g) /\ ~First(g) /\ g # Done /\ IsTick(g)
        /\ Done \in Message /\ ~Whole(Done) /\ ~First(Done)
    BY <1>2, <1>6, MessageKinds, KindFacts DEF First, Whole, IsTick
  <1>8. LastWord(g, engine')
    BY <1>5, <1>6, <1>7 DEF LastWord
  <1>9. /\ Connected' <=> Connected
        /\ wire' = <<Down>> \/ wire' \in Seq(Message)
        /\ Connected => Sent' = Append(Append(Sent, Done), g)
    BY <1>1, <1>7, ToPageTwo
  <1>10. answer'.kind # "snapshot"
    BY <1>1, NoSnapshot
  <1>11. ASSUME Connected PROVE EndArrives' /\ EndSeen'
    <2> DEFINE r == Append(Sent, Done)
               n == Len(Sent)
    <2>1. Sent \in Seq(Message) /\ Pipe = Sent /\ n \in Nat
      BY <1>1, <1>2, PipeType
    <2>2. wire' = Append(r, g)
      BY <1>9, <1>11 DEF Sent
    <2>3. /\ r \in Seq(Message) /\ Len(r) = n + 1 /\ r[n + 1] = Done
          /\ \A k \in 1..n : r[k] = Sent[k]
      BY <1>7, <2>1, Appended
    <2>4. \A k \in 1..n : Latest(r, k) => Latest(Sent, k)
      BY <1>7, <2>1, WholesGrow
    <2>5. NoneWhole(r, 1, Len(r)) => NoneWhole(Sent, 1, n)
      BY <1>7, <2>1, NoneGrows
    <2>6. \A k \in 1..(n + 1) : Latest(wire', k) => Latest(r, k)
      BY <1>7, <2>2, <2>3, WholesGrow
    <2>7. NoneWhole(wire', 1, Len(wire')) => NoneWhole(Sent, 1, n)
      BY <1>7, <2>2, <2>3, <2>5, NoneGrows
    <2>8. /\ Len(wire') = n + 2 /\ wire'[n + 2] = g /\ wire'[n + 1] = Done
          /\ \A k \in 1..n : wire'[k] = Sent[k]
      BY <1>7, <2>1, <2>2, <2>3, Appended
    <2> HIDE DEF r
    <2>9. \A k \in 1..n : Latest(Sent, k) /\ Sent[k] # Done => Sent[k].seq <= q
      BY DEF SimInv, PipeRuns, NotAhead
    <2>10. \A k \in 1..n : Sent[k] # Done => Sent[k].seq \in Nat
      BY <2>1, KindFacts, Appended, <1>7
    <2> HIDE DEF n, q
    <2>11. EndArrives'
      <3>1. ASSUME NEW k \in 1..(n + 1), Latest(wire', k), wire'[k] # Done
            PROVE  wire'[k].seq < engine'.seq
        <4>1. k \in 1..n
          BY <2>1, <2>8, <3>1
        <4>2. Latest(Sent, k) /\ wire'[k] = Sent[k]
          BY <2>4, <2>6, <2>8, <3>1, <4>1
        <4> QED
          BY <1>2, <1>5, <2>9, <2>10, <3>1, <4>1, <4>2
      <3>2. Len(wire') - 1 = n + 1 /\ Len(wire') > 1
        BY <2>1, <2>8
      <3>3. LastWord(wire'[Len(wire')], engine')
        BY <1>8, <2>8
      <3>4. Len(wire') > 1 /\ wire'[Len(wire') - 1] = Done
        BY <2>8, <3>2
      <3>5. \A k \in 1..(Len(wire') - 1) : Latest(wire', k) /\ wire'[k] # Done => wire'[k].seq < engine'.seq
        BY <2>8, <3>1, <3>2
      <3> QED
        BY <3>3, <3>4, <3>5 DEF EndArrives
    <2>12. EndSeen'
      <3>1. wire' # <<>>
        BY <2>1, <2>8
      <3>2. NoneWhole(Sent, 1, n) => view.seq <= q
        BY <1>11, <2>1 DEF SimInv, ViewFits, n, q
      <3>3. view.seq \in Nat
        BY <1>1 DEF SimTypes, ViewState
      <3> QED
        BY <1>1, <1>2, <1>5, <2>7, <3>1, <3>2, <3>3 DEF EndSeen
    <2> QED
      BY <2>11, <2>12
  <1> QED
    BY <1>2, <1>5, <1>9, <1>10, <1>11 DEF EndInv

(* Steps that the engine does not take. *)
LEMMA JoinEnds ==
  ASSUME SimInv, EndInv, JoinSim
  PROVE  EndInv'
  <1>1. /\ wire' = <<SnapshotOf(engine)>> /\ engine' = engine /\ answer' = answer /\ SimTypes
    BY DEF JoinSim, SimInv
  <1>2. ASSUME engine.phase = "DONE" PROVE EndArrives' /\ EndSeen'
    <2> DEFINE s == SnapshotOf(engine)
    <2>1. LastWord(s, engine) /\ ~IsTick(s) /\ Whole(s)
      BY <1>1, <1>2, SnapshotEnds
    <2> HIDE DEF s
    <2>2. Len(wire') = 1 /\ wire'[1] = s
      BY <1>1 DEF s
    <2>3. LastWord(s, engine')
      BY <1>1, <2>1 DEF LastWord
    <2> QED
      BY <2>1, <2>2, <2>3 DEF EndArrives, EndSeen, NoneWhole
  <1> QED
    BY <1>1, <1>2 DEF EndInv

LEMMA AnswerEnds ==
  ASSUME SimInv, EndInv, ServeState \/ AnswerLost
  PROVE  EndInv'
  <1>1. /\ wire' = wire /\ engine' = engine /\ view' = view
        /\ answer' = SnapshotOf(engine) \/ answer' = NoAnswer
    BY DEF ServeState, AnswerLost
  <1>2. Connected' <=> Connected
    BY <1>1 DEF Connected
  <1>3. answer'.kind = "snapshot" => answer' = SnapshotOf(engine')
    BY <1>1, AnswerKinds
  <1> QED
    BY <1>1, <1>2, <1>3 DEF EndInv, EndArrives, EndSeen, LastWord, ShowsTheEnd

LEMMA CutEnds ==
  ASSUME EndInv, Cut
  PROVE  EndInv'
  <1>1. engine' = engine /\ answer' = answer /\ ~Connected'
    BY DEF Cut, Connected
  <1> QED
    BY <1>1 DEF EndInv

LEMMA ShowEnds ==
  ASSUME SimInv, EndInv, ShowAnswer
  PROVE  EndInv'
  <1> DEFINE l == OutOfStep
  <1>1. /\ wire' = wire /\ engine' = engine /\ answer' = NoAnswer /\ SimTypes
        /\ view' = [Shown(answer) EXCEPT !.late = l] /\ answer.kind = "snapshot"
    BY DEF ShowAnswer, SimInv
  <1>2. l \in BOOLEAN
    BY DEF OutOfStep
  <1> HIDE DEF l
  <1>3. ASSUME engine.phase = "DONE" PROVE ShowsTheEnd' /\ view'.summary
    <2>1. answer = SnapshotOf(engine)
      BY <1>1, <1>3 DEF EndInv
    <2>2. answer \in Snapshot /\ LastWord(answer, engine)
      BY <1>1, <1>3, <2>1, SnapshotEnds
    <2> QED
      BY <1>1, <1>2, <2>2, ShownEnds
  <1>4. answer'.kind # "snapshot" /\ (Connected' <=> Connected)
    BY <1>1, AnswerKinds DEF Connected
  <1> QED
    BY <1>1, <1>3, <1>4 DEF EndInv, EndArrives, EndSeen, LastWord

(* The page takes the next message m of at least two ... *)
LEMMA ReceiveEarlier ==
  ASSUME SimInv, EndInv, engine.phase = "DONE", Receive, Len(wire) > 1
  PROVE  EndArrives' /\ EndSeen'
  <1> DEFINE m == wire[1]
             r == Tail(wire)
             n == Len(wire)
  <1>1. /\ SimTypes /\ TickedOnce /\ Connected /\ wire # <<>> /\ wire' = r /\ engine' = engine
        /\ view' = Handled(Head(wire)) /\ EndArrives /\ EndSeen
    BY DEF SimInv, EndInv, Receive
  <1>2. wire \in Seq(Message) /\ Sent = wire
    BY <1>1, PipeType
  <1>3. /\ Len(r) = n - 1 /\ n \in Nat /\ n > 1 /\ \A k \in 1..(n - 1) : r[k] = wire[k + 1]
        /\ Head(wire) = m /\ m \in Message
    BY <1>1, <1>2, Shifted
  <1>4. /\ \A k \in 1..(n - 1) : Latest(r, k) => Latest(wire, k + 1)
        /\ NoneWhole(wire, 1, n) <=> NoneWhole(r, 1, n - 1) /\ ~Whole(m)
        /\ NoneWhole(r, 1, n - 1) => Latest(wire, 1)
    BY <1>1, <1>2, <1>3, WholesShift
  <1>5. /\ LastWord(wire[n], engine) /\ (IsTick(wire[n]) => wire[n - 1] = Done)
        /\ \A k \in 1..(n - 1) : Latest(wire, k) /\ wire[k] # Done => wire[k].seq < engine.seq
    BY <1>1, <1>3 DEF EndArrives
  <1>6. view \in ViewState /\ view.seq \in Nat /\ engine.seq \in Nat
    BY <1>1 DEF SimTypes, ViewState, EngineState
  <1> HIDE DEF r, n
  <1>7. EndArrives'
    <2>1. r[n - 1] = wire[n] /\ (n > 2 => r[n - 2] = wire[n - 1])
      BY <1>3
    <2>2. n = 2 /\ m = Done => view'.summary
      BY <1>1, <1>3, SummaryShown
    <2>3. IsTick(r[n - 1]) => IF n - 1 > 1 THEN r[n - 2] = Done ELSE view'.summary
      BY <1>3, <1>5, <2>1, <2>2
    <2>4. \A k \in 1..(n - 2) : Latest(r, k) /\ r[k] # Done => r[k].seq < engine.seq
      <3>1. \A k \in 1..(n - 2) : k \in 1..(n - 1) /\ k + 1 \in 1..(n - 1)
        BY <1>3
      <3> QED
        BY <1>3, <1>4, <1>5, <3>1
    <2>5. n - 1 - 1 = n - 2
      BY <1>3
    <2> QED
      BY <1>1, <1>3, <1>5, <2>1, <2>3, <2>4, <2>5 DEF EndArrives
  <1>8. ASSUME NoneWhole(r, 1, n - 1), view'.seq = engine.seq
        PROVE  ShowsTheEnd'
    <2>1. Latest(wire, 1) /\ 1 \in 1..(n - 1)
      BY <1>3, <1>4, <1>8
    <2>2. m # Done => m.seq < engine.seq /\ m.seq \in Nat
      BY <1>3, <1>5, <2>1, KindFacts
    <2>3. ~(m # Done /\ view'.seq = m.seq)
      BY <1>6, <1>8, <2>2
    <2>4. /\ ~Whole(m) /\ view'.seq = view.seq
      <3>1. \/ m # Done /\ view'.seq = m.seq
            \/ ~Whole(m) /\ view'.seq = view.seq
        BY <1>1, <1>3, <1>6, HandledFacts
      <3> QED
        BY <2>3, <3>1
    <2>5. ShowsTheEnd
      BY <1>1, <1>4, <1>8, <2>4 DEF EndSeen, n
    <2>6. CASE m = Done
      BY <1>1, <1>3, <2>5, <2>6, SummaryShown DEF ShowsTheEnd
    <2>7. CASE m # Done
      <3>1. m \in TickMessage /\ m.kind = "tick" /\ m.seq # 1
        BY <1>3, <2>4, <2>7, MessageKinds DEF Whole, First, IsTick
      <3>2. view' = Merged(view, m)
        BY <1>1, <1>3, <3>1 DEF Handled
      <3>3. m.seq <= view.seq
        BY <1>6, <1>8, <2>2, <2>4, <2>7
      <3>4. view' = view
        BY <1>6, <3>1, <3>2, <3>3, MergedFacts
      <3> QED
        BY <1>1, <2>5, <3>4 DEF ShowsTheEnd
    <2> QED
      BY <2>6, <2>7
  <1>9. EndSeen'
    <2>1. wire' # <<>> /\ Len(wire') = n - 1
      BY <1>1, <1>3
    <2> QED
      BY <1>1, <1>8, <2>1 DEF EndSeen
  <1> QED
    BY <1>7, <1>9

(* ... or the last word. *)
LEMMA ReceiveLast ==
  ASSUME SimInv, EndInv, engine.phase = "DONE", Receive, Len(wire) <= 1
  PROVE  EndArrives' /\ EndSeen'
  <1> DEFINE m == wire[1]
  <1>1. /\ SimTypes /\ TickedOnce /\ Connected /\ wire # <<>> /\ wire' = Tail(wire) /\ engine' = engine
        /\ view' = Handled(Head(wire)) /\ EndArrives /\ EndSeen /\ engine.seq > 1 /\ ~Running
    BY DEF SimInv, EndInv, Receive, Running
  <1>2. wire \in Seq(Message) /\ Sent = wire /\ Pipe = wire
    BY <1>1, PipeType
  <1>3. /\ Len(wire) = 1 /\ Head(wire) = m /\ m \in Message /\ Len(Tail(wire)) = 0
        /\ Tail(wire) \in Seq(Message)
    <2>1. /\ Len(Tail(wire)) = Len(wire) - 1 /\ Len(wire) >= 1 /\ Len(wire) \in Nat
          /\ Head(wire) = m /\ Head(wire) \in Message /\ Tail(wire) \in Seq(Message)
      BY <1>1, <1>2, Shifted
    <2>2. Len(wire) = 1
      BY <2>1
    <2> QED
      BY <2>1, <2>2
  <1>4. wire' = <<>> /\ Len(wire') = 0
    <2> HIDE DEF Message
    <2> QED
      BY <1>1, <1>3
  <1>5. LastWord(m, engine) /\ (IsTick(m) => view.summary)
    BY <1>1, <1>3 DEF EndArrives
  <1>6. view \in ViewState /\ view.seq \in Nat /\ engine.seq \in Nat
    BY <1>1 DEF SimTypes, ViewState, EngineState
  <1>7. CASE m.kind = "snapshot"
    <2>1. m \in Snapshot /\ view' = Shown(m)
      BY <1>1, <1>3, <1>7, MessageKinds DEF Handled
    <2>2. ShowsTheEnd'
      BY <1>1, <1>5, <2>1, ShownEnds
    <2> QED
      BY <1>4, <2>2 DEF EndArrives, EndSeen
  <1>8. CASE m.kind = "tick"
    <2>1. m \in TickMessage /\ IsTick(m) /\ m.seq = engine.seq /\ m.seq # 1 /\ view' = Merged(view, m)
      BY <1>1, <1>3, <1>5, <1>6, <1>8, MessageKinds DEF Handled, IsTick, LastWord
    <2>2. CASE m.seq > view.seq
      <3>1. ShowsTheEnd'
        BY <1>1, <1>5, <2>1, <2>2, MergedEnds
      <3> QED
        BY <1>4, <3>1 DEF EndArrives, EndSeen
    <2>3. CASE m.seq <= view.seq
      <3>1. view' = view
        BY <1>6, <2>1, <2>3, MergedFacts
      <3>2. NoneWhole(wire, 1, Len(wire))
        BY <1>3, <2>1 DEF NoneWhole, Whole, First, IsTick
      <3>3. view.seq <= engine.seq
        BY <1>1, <1>2, <3>2 DEF SimInv, ViewFits
      <3>4. ShowsTheEnd
        BY <1>1, <1>6, <2>1, <2>3, <3>2, <3>3 DEF EndSeen
      <3>5. ShowsTheEnd'
        BY <1>1, <3>1, <3>4 DEF ShowsTheEnd
      <3> QED
        BY <1>4, <3>5 DEF EndArrives, EndSeen
    <2> QED
      BY <1>6, <2>1, <2>2, <2>3
  <1> QED
    BY <1>3, <1>5, <1>7, <1>8, MessageKinds DEF LastWord

LEMMA ReceiveEnds ==
  ASSUME SimInv, EndInv, Receive
  PROVE  EndInv'
  <1>1. engine' = engine /\ (answer' = answer \/ answer' = Asked)
    BY DEF Receive, Fetching
  <1>2. Len(wire) \in Nat
    <2>1. SimTypes /\ TickedOnce /\ Connected
      BY DEF SimInv, Receive
    <2>2. wire \in Seq(Message) /\ wire # <<>>
      BY <2>1, PipeType DEF Receive
    <2> QED
      BY <2>2, Shifted
  <1>3. engine.phase = "DONE" => EndArrives' /\ EndSeen'
    BY <1>2, ReceiveEarlier, ReceiveLast
  <1>4. answer'.kind = "snapshot" => answer' = answer
    BY <1>1, AnswerKinds
  <1> QED
    BY <1>1, <1>3, <1>4 DEF EndInv

LEMMA EndKept ==
  ASSUME Prompt, SimInv, EndInv, [SimPageNext]_simVars
  PROVE  EndInv'
  <1>1. CASE FinishRun
    BY <1>1, FinishEnds
  <1>2. CASE PageSteps \/ Cut \/ AnswerLost
    BY <1>2, JoinEnds, ReceiveEnds, AnswerEnds, ShowEnds, CutEnds DEF PageSteps
  <1>3. CASE UNCHANGED simVars
    BY <1>3 DEF simVars, EndInv, EndArrives, EndSeen, ShowsTheEnd, Connected
  <1>4. ASSUME \/ \E mine \in BOOLEAN : Begin(mine)
               \/ SetUp \/ LabBusy \/ StartFails
               \/ \E d \in VDevice : Change(d)
               \/ EmitTick \/ StopRun
        PROVE  engine'.phase # "DONE"
    <2>1. engine \in EngineState
      BY DEF SimInv, SimTypes
    <2>2. CASE \E d \in VDevice : Change(d)
      BY <2>1, <2>2, ChangedFacts DEF Change
    <2>3. CASE \/ \E mine \in BOOLEAN : Begin(mine)
               \/ SetUp \/ LabBusy \/ StartFails \/ EmitTick \/ StopRun
      BY <2>1, <2>3 DEF Begin, SetUp, LabBusy, StartFails, EmitTick, StopRun, Ticked, EngineState
    <2> QED
      BY <1>4, <2>2, <2>3
  <1> QED
    BY <1>1, <1>2, <1>3, <1>4 DEF EndInv, SimPageNext, ServerSteps

(* The safety half of OverIsShown, "two tabs stay in sync via the sim      *)
(* room": once a run is over, a connected page to which nothing is under   *)
(* way shows it over, with the summary and every device as it is, whatever *)
(* ticks were dropped or came after a snapshot of later date, provided an  *)
(* answer over HTTP comes before its run ends.                             *)
QuietPageShowsEnd == engine.phase = "DONE" /\ wire = <<>> => ShowsTheEnd

THEOREM SimPageShowsEnd ==
  ASSUME Prompt
  PROVE  SimPageSpec => []QuietPageShowsEnd
  <1>1. SimInit => EndInv
    BY DEF SimInit, EndInv
  <1>2. EndInv => QuietPageShowsEnd
    BY DEF EndInv, EndSeen, QuietPageShowsEnd, Connected
  <1> QED
    BY <1>1, <1>2, SimInitHolds, SimKept, EndKept, PTL DEF SimPageSpec
-----------------------------------------------------------------------------
(* Stats for nerds: the trace of every tab, and the two panels that follow *)
(* it and the pushes.                                                      *)

Entries == [id : Nat, lab : BOOLEAN]
Traced == [at : Window \ {Nerds}, id : Nat, kind : Kind]
Answers == Nat \cup {NotRead}
Loader == [timer : BOOLEAN, fetching : Seq(Answers), newest : Nat]

NerdsTypes ==
  /\ opened \in {"trace", "runs"} /\ truth \in [Fetched -> Nat]
  /\ asked \subseteq Traced /\ pushed \in BOOLEAN
  /\ entries \in [Window -> Seq(Entries)] /\ stored \in Seq(Entries)
  /\ told \subseteq Window /\ unsaved \subseteq Window
  /\ loader \in [Fetched -> Loader]
  /\ missed \subseteq Fetched /\ mixed \in BOOLEAN /\ acts \in Nat

(* The entry the effects depend on: trace[0].                              *)
Heading(s) == IF s = <<>> THEN Entry(0, "heartbeat") ELSE s[1]

(* An action that is not traced yet is the first entry of no trace.        *)
TraceIds ==
  /\ Heading(stored).id <= acts
  /\ \A w \in Window : Heading(entries[w]).id <= acts
  /\ \A r \in asked : /\ r.id \in 1 .. acts /\ r.id # Heading(stored).id
                      /\ \A w \in Window : r.id # Heading(entries[w]).id
  /\ \A q, r \in asked : q.id = r.id => q = r

SameTrace == \A w \in Window : entries[w] = stored \/ w \in told \/ w \in unsaved

(* The trace is cleared on one panel; the other is of experiments' runs.   *)
RunsTrace ==
  opened = "runs" =>
    /\ stored = <<>> => entries[Nerds] = <<>>
    /\ ~mixed => Heading(stored).lab \/ stored = <<>>

(* The page will be told of a trace that begins with something new to it.  *)
NewsStored == Nerds \in told /\ Heading(stored).id # Heading(entries[Nerds]).id

(* A fetch that the server answers now, or has answered with its last      *)
(* state, is under way; or one will be.                                    *)
Refetched(l, v) == \E k \in DOMAIN l.fetching : l.fetching[k] \in {NotRead, v}
Panelled(p, l, v) == l.newest = v \/ l.timer \/ p \in missed \/ Refetched(l, v)
PanelOf(kind) == IF kind = "lab" THEN "runs" ELSE "checks"
ToCome(p) ==
  \/ \E r \in asked : p = PanelOf(r.kind)
  \/ NewsStored
  \/ p = "checks" /\ pushed
PanelFollows(p) == Panelled(p, loader[p], truth[p]) \/ ToCome(p)
RunsWatched == opened = "runs" /\ ~mixed
PanelsFollow == \A p \in Fetched : p = "checks" \/ RunsWatched => PanelFollows(p)

(* No answer is newer than what the server has.                            *)
LoaderBehind(l, v) == l.newest <= v /\ \A k \in DOMAIN l.fetching : l.fetching[k] <= v
LoadersBehind == \A p \in Fetched : LoaderBehind(loader[p], truth[p])

NerdsInv == NerdsTypes /\ TraceIds /\ SameTrace /\ RunsTrace /\ PanelsFollow /\ LoadersBehind

(* The page's panels, and the loader of one of them changed.               *)
LEMMA PanelNames == "checks" \in Fetched /\ "runs" \in Fetched /\ "checks" # "runs"
                    /\ \A p \in Fetched : p = "checks" \/ p = "runs"
  BY DEF Fetched

LEMMA HeadingFacts ==
  /\ Heading(<<>>).id = 0
  /\ \A s \in Seq(Entries) : Heading(s) \in Entries /\ Heading(s).id \in Nat /\ Heading(s).lab \in BOOLEAN
  <1>1. Entry(0, "heartbeat") = [id |-> 0, lab |-> FALSE]
    BY DEF Entry
  <1>2. ASSUME NEW s \in Seq(Entries) PROVE Heading(s) \in Entries
    <2>1. CASE s = <<>>
      <3>1. Heading(s) = [id |-> 0, lab |-> FALSE]
        BY <1>1, <2>1 DEF Heading
      <3> QED
        BY <3>1 DEF Entries
    <2>2. CASE s # <<>>
      <3>1. s[1] \in Entries
        BY <2>2
      <3> QED
        BY <2>2, <3>1 DEF Heading
    <2> QED
      BY <2>1, <2>2
  <1> QED
    BY <1>1, <1>2 DEF Heading, Entries

LEMMA RemovedAt ==
  ASSUME NEW S, NEW s \in Seq(S), NEW i \in DOMAIN s
  PROVE  /\ RemoveAt(s, i) \in Seq(S)
         /\ Len(RemoveAt(s, i)) = Len(s) - 1
         /\ \A j \in 1 .. Len(s) - 1 : RemoveAt(s, i)[j] = IF j < i THEN s[j] ELSE s[j + 1]
  <1>1. i \in 1 .. Len(s) /\ Len(s) \in Nat
    OBVIOUS
  <1> DEFINE before == SubSeq(s, 1, i - 1)  after == SubSeq(s, i + 1, Len(s))
  <1>2. before \in Seq(S) /\ Len(before) = i - 1 /\ \A j \in 1 .. i - 1 : before[j] = s[j]
    BY <1>1
  <1>3. after \in Seq(S) /\ Len(after) = Len(s) - i /\ \A j \in 1 .. Len(s) - i : after[j] = s[j + i]
    BY <1>1
  <1>4. RemoveAt(s, i) = before \o after
    BY DEF RemoveAt
  <1> HIDE DEF before, after
  <1> QED BY <1>1, <1>2, <1>3, <1>4

LEMMA LoaderIs ==
  ASSUME NEW x \in Loader, NEW t, NEW f
  PROVE  /\ [x EXCEPT !.timer = t] = [timer |-> t, fetching |-> x.fetching, newest |-> x.newest]
         /\ [x EXCEPT !.fetching = f] = [timer |-> x.timer, fetching |-> f, newest |-> x.newest]
  BY DEF Loader

(* What the effects do to the loaders.                                     *)
LEMMA EffectsFacts ==
  ASSUME NerdsTypes, NEW w \in Window, NEW new \in Seq(Entries)
  PROVE  /\ Effects(w, new) \in [Fetched -> Loader]
         /\ \A p \in Fetched : /\ Effects(w, new)[p].newest = loader[p].newest
                               /\ Effects(w, new)[p].fetching = loader[p].fetching
         /\ IF w # Nerds \/ Heading(new).id = Heading(entries[w]).id
            THEN Effects(w, new) = loader
            ELSE /\ Effects(w, new)["checks"].timer
                 /\ opened = "runs" /\ Heading(new).lab => Effects(w, new)["runs"].timer
  <1> DEFINE t == (opened = "runs" /\ Heading(new).lab)
             changed == [loader EXCEPT !["checks"].timer = TRUE, !["runs"].timer = t]
  <1>1. t \in BOOLEAN
    BY HeadingFacts
  <1>2. Effects(w, new) = IF w # Nerds \/ Heading(new).id = Heading(entries[w]).id
                          THEN loader ELSE changed
    BY DEF Effects, Heading
  <1>3. t <=> opened = "runs" /\ Heading(new).lab
    OBVIOUS
  <1> HIDE DEF t
  <1>4. changed \in [Fetched -> Loader]
    BY <1>1, PanelNames DEF NerdsTypes, Loader
  <1>5. /\ changed["checks"] = [loader["checks"] EXCEPT !.timer = TRUE]
        /\ changed["runs"] = [loader["runs"] EXCEPT !.timer = t]
    BY PanelNames DEF NerdsTypes
  <1>6. loader["checks"] \in Loader /\ loader["runs"] \in Loader /\ loader \in [Fetched -> Loader]
    BY PanelNames DEF NerdsTypes
  <1> HIDE DEF changed
  <1> QED
    BY <1>2, <1>3, <1>4, <1>5, <1>6, PanelNames DEF Loader

LEMMA InitNerds == NerdsInit => NerdsInv
  <1> SUFFICES ASSUME NerdsInit PROVE NerdsInv
    OBVIOUS
  <1>1. NerdsTypes
    <2>1. [timer |-> FALSE, fetching |-> <<>>, newest |-> 0] \in Loader
      BY DEF Loader
    <2>2. loader \in [Fetched -> Loader] /\ truth \in [Fetched -> Nat]
      BY <2>1 DEF NerdsInit
    <2>3. entries \in [Window -> Seq(Entries)] /\ stored \in Seq(Entries)
      BY DEF NerdsInit
    <2> QED
      BY <2>2, <2>3 DEF NerdsInit, NerdsTypes
  <1>2. stored = <<>> /\ \A w \in Window : entries[w] = <<>>
    BY DEF NerdsInit
  <1>3. TraceIds
    BY <1>2, HeadingFacts DEF NerdsInit, TraceIds
  <1>4. SameTrace /\ RunsTrace
    BY <1>2, NerdsAssumption DEF SameTrace, RunsTrace
  <1>5. \A p \in Fetched : loader[p].newest = truth[p] /\ LoaderBehind(loader[p], truth[p])
    BY DEF NerdsInit, LoaderBehind
  <1> QED
    <2>1. PanelsFollow
      BY <1>5 DEF PanelsFollow, PanelFollows, Panelled
    <2>2. LoadersBehind
      BY <1>5 DEF LoadersBehind
    <2> QED
      BY <1>1, <1>3, <1>4, <2>1, <2>2 DEF NerdsInv

(* A step that changes one panel's loader, and the trace not at all.       *)
LEMMA OneLoader ==
  ASSUME NerdsInv, NEW p \in Fetched, NEW l \in Loader, loader' = [loader EXCEPT ![p] = l],
         UNCHANGED <<opened, truth, asked, entries, stored, told, unsaved, mixed, acts>>,
         missed' \subseteq Fetched, missed' \ {p} = missed \ {p},
         pushed' \in BOOLEAN, pushed' # pushed => p = "checks",
         LoaderBehind(l, truth[p]),
         PanelFollows(p) => \/ l.newest = truth[p] \/ l.timer \/ p \in missed'
                            \/ Refetched(l, truth[p]) \/ (pushed' = pushed /\ ToCome(p))
  PROVE  NerdsInv'
  <1> USE DEF NerdsInv
  <1>1. loader'[p] = l /\ \A q \in Fetched : q # p => loader'[q] = loader[q]
    BY DEF NerdsTypes
  <1>2. NerdsTypes'
    <2>1. loader' \in [Fetched -> Loader]
      BY DEF NerdsTypes
    <2> QED
      BY <2>1 DEF NerdsTypes
  <1>3. TraceIds' /\ SameTrace' /\ RunsTrace'
    BY DEF TraceIds, SameTrace, RunsTrace, Heading
  <1>4. PanelsFollow'
    <2> SUFFICES ASSUME NEW q \in Fetched, q = "checks" \/ RunsWatched PROVE PanelFollows(q)'
      BY DEF PanelsFollow, RunsWatched
    <2>1. PanelFollows(q)
      BY DEF PanelsFollow
    <2>2. NewsStored' = NewsStored
      BY DEF NewsStored, Heading
    <2>3. CASE q = p
      BY <1>1, <2>1, <2>2, <2>3 DEF PanelFollows, Panelled, Refetched, ToCome
    <2>4. CASE q # p
      <3>1. q \in missed' <=> q \in missed
        BY <2>4
      <3>2. q = "checks" => pushed' = pushed
        BY <2>4
      <3> QED
        BY <1>1, <2>1, <2>2, <2>4, <3>1, <3>2 DEF PanelFollows, Panelled, Refetched, ToCome
    <2> QED
      BY <2>3, <2>4
  <1>5. LoadersBehind'
    BY <1>1 DEF LoadersBehind, LoaderBehind
  <1> QED
    BY <1>2, <1>3, <1>4, <1>5

LEMMA ServeNerds ==
  ASSUME NerdsInv, NEW p \in Fetched, NEW k \in DOMAIN loader[p].fetching, Serve(p, k)
  PROVE  NerdsInv'
  <1>1. loader[p] \in Loader /\ truth[p] \in Nat
    BY DEF NerdsInv, NerdsTypes
  <1> DEFINE v == truth[p]
             f == [loader[p].fetching EXCEPT ![k] = v]
             l == [timer |-> loader[p].timer, fetching |-> f, newest |-> loader[p].newest]
  <1>2. loader' = [loader EXCEPT ![p].fetching[k] = v]
    BY DEF Serve
  <1>3. f \in Seq(Answers) /\ DOMAIN f = DOMAIN loader[p].fetching /\ f[k] = v
        /\ \A j \in DOMAIN f : j # k => f[j] = loader[p].fetching[j]
    BY <1>1 DEF Loader, Answers
  <1>4. loader' = [loader EXCEPT ![p] = l]
    <2>1. l = [loader[p] EXCEPT !.fetching[k] = v]
      BY <1>1 DEF Loader
    <2>2. [loader EXCEPT ![p].fetching[k] = v] = [loader EXCEPT ![p] = [loader[p] EXCEPT !.fetching[k] = v]]
      OBVIOUS
    <2> QED
      BY <1>2, <2>1, <2>2
  <1>5. l.timer = loader[p].timer /\ l.fetching = f /\ l.newest = loader[p].newest
    OBVIOUS
  <1> HIDE DEF f
  <1>6. l \in Loader
    BY <1>1, <1>3 DEF Loader
  <1> HIDE DEF l
  <1>7. LoaderBehind(l, v)
    <2>1. LoaderBehind(loader[p], v)
      BY DEF NerdsInv, LoadersBehind
    <2> QED
      BY <1>1, <1>3, <1>5, <2>1 DEF LoaderBehind
  <1>8. Refetched(l, v)
    BY <1>3, <1>5 DEF Refetched
  <1>9. UNCHANGED <<opened, truth, asked, entries, stored, told, unsaved, mixed, acts>>
        /\ pushed' = pushed /\ missed' = missed
    BY DEF Serve
  <1>10. missed' \subseteq Fetched /\ missed' \ {p} = missed \ {p} /\ pushed' \in BOOLEAN
    BY <1>9 DEF NerdsInv, NerdsTypes
  <1> QED
    BY <1>4, <1>6, <1>7, <1>8, <1>9, <1>10, OneLoader

LEMMA HearPushNerds == NerdsInv /\ HearPush => NerdsInv'
  <1> SUFFICES ASSUME NerdsInv, HearPush PROVE NerdsInv'
    OBVIOUS
  <1> DEFINE p == "checks"
             l == [timer |-> TRUE, fetching |-> loader[p].fetching, newest |-> loader[p].newest]
  <1>1. loader[p] \in Loader /\ p \in Fetched /\ loader \in [Fetched -> Loader]
    BY PanelNames DEF NerdsInv, NerdsTypes
  <1>2. loader' = [loader EXCEPT ![p].timer = TRUE]
    BY DEF HearPush
  <1>3. loader' = [loader EXCEPT ![p] = l]
    <2>1. l = [loader[p] EXCEPT !.timer = TRUE]
      BY <1>1, LoaderIs
    <2> HIDE DEF l, p
    <2> QED
      BY <1>1, <1>2, <2>1
  <1>4. l \in Loader
    BY <1>1 DEF Loader
  <1>5. LoaderBehind(l, truth[p])
    BY <1>1 DEF NerdsInv, LoadersBehind, LoaderBehind
  <1>6. UNCHANGED <<opened, truth, asked, entries, stored, told, unsaved, mixed, acts>>
        /\ missed' = missed /\ pushed' = FALSE
    BY DEF HearPush
  <1>7. missed' \subseteq Fetched /\ missed' \ {p} = missed \ {p} /\ pushed' \in BOOLEAN
    BY <1>6 DEF NerdsInv, NerdsTypes
  <1>8. l.timer /\ (pushed' # pushed => p = "checks")
    OBVIOUS
  <1> HIDE DEF l, p
  <1> QED
    BY <1>1, <1>3, <1>4, <1>5, <1>6, <1>7, <1>8, OneLoader

(* A fetch is sent: it is not answered yet.                                *)
LEMMA FetchNerds ==
  ASSUME NerdsInv, NEW p \in Fetched, Refresh(p), NEW l \in Loader,
         l.fetching = Append(loader[p].fetching, NotRead), l.newest = loader[p].newest,
         loader' = [loader EXCEPT ![p] = l],
         UNCHANGED <<opened, truth, asked, pushed, entries, stored, told, unsaved, mixed, acts>>
  PROVE  NerdsInv'
  <1> DEFINE f == Append(loader[p].fetching, NotRead)
  <1>1. loader[p] \in Loader /\ truth[p] \in Nat
    BY DEF NerdsInv, NerdsTypes
  <1>2. f \in Seq(Answers) /\ f[Len(loader[p].fetching) + 1] = NotRead
        /\ Len(loader[p].fetching) + 1 \in DOMAIN f
        /\ \A j \in DOMAIN f : f[j] = NotRead \/ (j \in DOMAIN loader[p].fetching /\ f[j] = loader[p].fetching[j])
    BY <1>1 DEF Loader, Answers
  <1>3. l.fetching = f
    OBVIOUS
  <1> HIDE DEF f
  <1>6. Refetched(l, truth[p])
    BY <1>2, <1>3 DEF Refetched
  <1>7. LoaderBehind(l, truth[p])
    BY <1>1, <1>2, <1>3 DEF NerdsInv, LoadersBehind, LoaderBehind, NotRead
  <1>8. missed' \subseteq Fetched /\ missed' \ {p} = missed \ {p} /\ pushed' \in BOOLEAN
    BY DEF Refresh, NerdsInv, NerdsTypes
  <1>9. UNCHANGED <<opened, truth, asked, entries, stored, told, unsaved, mixed, acts>> /\ pushed' = pushed
    OBVIOUS
  <1> QED
    BY <1>6, <1>7, <1>8, <1>9, OneLoader

LEMMA TimerFiresNerds ==
  ASSUME NerdsInv, NEW p \in Fetched, TimerFires(p)
  PROVE  NerdsInv'
  <1> DEFINE f == Append(loader[p].fetching, NotRead)
             l == loader'[p]
  <1>1. loader[p] \in Loader /\ loader \in [Fetched -> Loader]
    BY DEF NerdsInv, NerdsTypes
  <1>2. loader' = [loader EXCEPT ![p].timer = FALSE, ![p].fetching = Append(@, NotRead)]
    BY DEF TimerFires
  <1>3. loader' = [loader EXCEPT ![p].timer = FALSE, ![p].fetching = f]
    BY <1>1, <1>2
  <1>4. f \in Seq(Answers)
    BY <1>1 DEF Loader, Answers
  <1> HIDE DEF f
  <1>5. /\ l \in Loader /\ l.fetching = f /\ l.newest = loader[p].newest
        /\ loader' \in [Fetched -> Loader] /\ \A q \in Fetched : q # p => loader'[q] = loader[q]
    BY <1>1, <1>3, <1>4 DEF Loader
  <1>6. loader' = [loader EXCEPT ![p] = l]
    BY <1>1, <1>5
  <1> HIDE DEF l
  <1>7. UNCHANGED <<opened, truth, asked, pushed, entries, stored, told, unsaved, mixed, acts>> /\ Refresh(p)
    BY DEF TimerFires
  <1> QED
    BY <1>5, <1>6, <1>7, FetchNerds DEF f

LEMMA RunNowNerds == NerdsInv /\ RunNow => NerdsInv'
  <1> SUFFICES ASSUME NerdsInv, RunNow PROVE NerdsInv'
    OBVIOUS
  <1> DEFINE p == "checks"
             f == Append(loader[p].fetching, NotRead)
             l == [timer |-> loader[p].timer, fetching |-> f, newest |-> loader[p].newest]
  <1>1. loader[p] \in Loader /\ loader \in [Fetched -> Loader] /\ p \in Fetched
    BY PanelNames DEF NerdsInv, NerdsTypes
  <1>2. loader' = [loader EXCEPT ![p].fetching = Append(@, NotRead)]
    BY DEF RunNow
  <1>3. loader' = [loader EXCEPT ![p] = [loader[p] EXCEPT !.fetching = f]]
    <2> HIDE DEF p
    <2> QED
      BY <1>1, <1>2
  <1>4. l = [loader[p] EXCEPT !.fetching = f]
    BY <1>1, LoaderIs
  <1>5. loader' = [loader EXCEPT ![p] = l]
    BY <1>3, <1>4
  <1>6. UNCHANGED <<opened, truth, asked, pushed, entries, stored, told, unsaved, mixed, acts>>
        /\ Refresh(p) /\ loader[p].timer \in BOOLEAN
    BY <1>1 DEF RunNow, Loader
  <1>7. l \in Loader /\ l.fetching = f /\ l.newest = loader[p].newest
    <2>1. f \in Seq(Answers)
      BY <1>1 DEF Loader, Answers
    <2> HIDE DEF f
    <2> QED
      BY <1>1, <2>1 DEF Loader
  <1> HIDE DEF l, p
  <1> QED
    BY <1>1, <1>5, <1>6, <1>7, FetchNerds

(* An answer that is shown, or lost, was one of those under way.           *)
LEMMA Answered ==
  ASSUME NerdsInv, NEW p \in Fetched, NEW k \in DOMAIN loader[p].fetching
  PROVE  LET f == loader[p].fetching  r == RemoveAt(f, k) IN
         /\ r \in Seq(Answers)
         /\ \A j \in DOMAIN r : \E i \in DOMAIN f : r[j] = f[i]
         /\ \A i \in DOMAIN f : i # k => \E j \in DOMAIN r : r[j] = f[i]
  <1> DEFINE f == loader[p].fetching  r == RemoveAt(f, k)
  <1>1. f \in Seq(Answers)
    BY DEF NerdsInv, NerdsTypes, Loader
  <1>2. k \in DOMAIN f
    OBVIOUS
  <1> HIDE DEF f
  <1>3. /\ r \in Seq(Answers) /\ Len(r) = Len(f) - 1
        /\ \A j \in 1 .. Len(f) - 1 : r[j] = IF j < k THEN f[j] ELSE f[j + 1]
    BY <1>1, <1>2, RemovedAt
  <1> HIDE DEF r
  <1>4. DOMAIN f = 1 .. Len(f) /\ DOMAIN r = 1 .. Len(f) - 1 /\ Len(f) \in Nat /\ k \in 1 .. Len(f)
    BY <1>1, <1>2, <1>3
  <1>5. ASSUME NEW j \in DOMAIN r PROVE \E i \in DOMAIN f : r[j] = f[i]
    <2>1. j \in 1 .. Len(f) - 1 /\ j + 1 \in DOMAIN f /\ j \in DOMAIN f
      BY <1>4
    <2> QED
      BY <1>3, <2>1
  <1>6. ASSUME NEW i \in DOMAIN f, i # k PROVE \E j \in DOMAIN r : r[j] = f[i]
    <2>1. CASE i < k
      <3>1. i \in 1 .. Len(f) - 1
        BY <1>4, <2>1
      <3> QED
        BY <1>3, <1>4, <2>1, <3>1
    <2>2. CASE ~(i < k)
      <3>1. i - 1 \in 1 .. Len(f) - 1 /\ ~(i - 1 < k) /\ (i - 1) + 1 = i
        BY <1>4, <1>6, <2>2
      <3> QED
        BY <1>3, <1>4, <3>1
    <2> QED
      BY <2>1, <2>2
  <1> QED
    BY <1>3, <1>5, <1>6 DEF f, r

LEMMA FetchFailsNerds ==
  ASSUME NerdsInv, NEW p \in Fetched, NEW k \in DOMAIN loader[p].fetching, FetchFails(p, k)
  PROVE  NerdsInv'
  <1> DEFINE f == RemoveAt(loader[p].fetching, k)
             l == [timer |-> loader[p].timer, fetching |-> f, newest |-> loader[p].newest]
  <1>1. loader[p] \in Loader /\ truth[p] \in Nat /\ loader \in [Fetched -> Loader]
    BY DEF NerdsInv, NerdsTypes
  <1>2. f \in Seq(Answers) /\ \A j \in DOMAIN f : \E i \in DOMAIN loader[p].fetching : f[j] = loader[p].fetching[i]
    BY Answered
  <1>3. loader' = [loader EXCEPT ![p].fetching = RemoveAt(@, k)]
    BY DEF FetchFails
  <1>4. loader' = [loader EXCEPT ![p] = [loader[p] EXCEPT !.fetching = f]]
    BY <1>1, <1>3
  <1>5. l = [loader[p] EXCEPT !.fetching = f]
    BY <1>1, LoaderIs
  <1>6. loader' = [loader EXCEPT ![p] = l]
    BY <1>4, <1>5
  <1>7. l.timer = loader[p].timer /\ l.fetching = f /\ l.newest = loader[p].newest
    OBVIOUS
  <1> HIDE DEF f
  <1>8. l \in Loader
    BY <1>1, <1>2 DEF Loader
  <1> HIDE DEF l
  <1>9. LoaderBehind(l, truth[p])
    BY <1>2, <1>7 DEF NerdsInv, LoadersBehind, LoaderBehind
  <1>10. UNCHANGED <<opened, truth, asked, entries, stored, told, unsaved, mixed, acts>>
         /\ pushed' = pushed /\ missed' = missed \cup {p}
    BY DEF FetchFails
  <1>11. missed' \subseteq Fetched /\ missed' \ {p} = missed \ {p} /\ pushed' \in BOOLEAN /\ p \in missed'
    BY <1>10 DEF NerdsInv, NerdsTypes
  <1> QED
    BY <1>6, <1>8, <1>9, <1>10, <1>11, OneLoader

LEMMA ShowNerds ==
  ASSUME NerdsInv, NEW p \in Fetched, NEW k \in DOMAIN loader[p].fetching, Show(p, k)
  PROVE  NerdsInv'
  <1> DEFINE old == loader[p].fetching
             seen == old[k]
             f == RemoveAt(old, k)
             n == IF seen > loader[p].newest THEN seen ELSE loader[p].newest
             l == loader'[p]
  <1>1. loader[p] \in Loader /\ truth[p] \in Nat /\ loader \in [Fetched -> Loader]
    BY DEF NerdsInv, NerdsTypes
  <1>2. /\ f \in Seq(Answers)
        /\ \A j \in DOMAIN f : \E i \in DOMAIN old : f[j] = old[i]
        /\ \A i \in DOMAIN old : i # k => \E j \in DOMAIN f : f[j] = old[i]
    BY Answered
  <1>3. loader' = [loader EXCEPT ![p].fetching = RemoveAt(@, k), ![p].newest = IF seen > @ THEN seen ELSE @]
        /\ seen # NotRead
    BY DEF Show
  <1>4. loader' = [loader EXCEPT ![p].fetching = f, ![p].newest = n]
    BY <1>1, <1>3
  <1>8. LoaderBehind(loader[p], truth[p])
    BY DEF NerdsInv, LoadersBehind
  <1>9. seen \in Nat /\ loader[p].newest \in Nat /\ seen <= truth[p]
    BY <1>1, <1>3, <1>8 DEF Loader, Answers, LoaderBehind
  <1>10. n \in Nat /\ n <= truth[p] /\ seen <= n /\ loader[p].newest <= n
    BY <1>1, <1>8, <1>9 DEF LoaderBehind
  <1> HIDE DEF f, n
  <1>11. /\ l \in Loader /\ loader' \in [Fetched -> Loader]
         /\ \A q \in Fetched : q # p => loader'[q] = loader[q]
         /\ l.timer = loader[p].timer /\ l.fetching = f /\ l.newest = n
    BY <1>1, <1>2, <1>4, <1>10 DEF Loader
  <1>5. loader' = [loader EXCEPT ![p] = l]
    BY <1>1, <1>11
  <1> HIDE DEF l
  <1>12. LoaderBehind(l, truth[p])
    BY <1>2, <1>11, <1>8, <1>10 DEF LoaderBehind
  <1>13. UNCHANGED <<opened, truth, asked, entries, stored, told, unsaved, mixed, acts>>
         /\ pushed' = pushed /\ missed' = missed
    BY DEF Show
  <1>14. missed' \subseteq Fetched /\ missed' \ {p} = missed \ {p} /\ pushed' \in BOOLEAN
    BY <1>13 DEF NerdsInv, NerdsTypes
  <1>15. PanelFollows(p) => \/ l.newest = truth[p] \/ l.timer \/ p \in missed'
                            \/ Refetched(l, truth[p]) \/ (pushed' = pushed /\ ToCome(p))
    <2>1. CASE loader[p].newest = truth[p]
      BY <1>1, <1>11, <1>10, <2>1
    <2>2. CASE Refetched(loader[p], truth[p])
      <3>1. PICK i \in DOMAIN old : old[i] \in {NotRead, truth[p]}
        BY <2>2 DEF Refetched
      <3>2. CASE i = k
        BY <1>1, <1>3, <1>11, <1>10, <3>1, <3>2
      <3>3. CASE i # k
        BY <1>2, <1>11, <3>1, <3>3 DEF Refetched
      <3> QED
        BY <3>2, <3>3
    <2> QED
      BY <1>11, <1>13, <2>1, <2>2 DEF PanelFollows, Panelled
  <1> QED
    BY <1>5, <1>11, <1>12, <1>13, <1>14, <1>15, OneLoader

LEMMA ActNerds ==
  ASSUME NerdsInv, NEW w \in Window, NEW kind \in Kind, Act(w, kind)
  PROVE  NerdsInv'
  <1> DEFINE r == [at |-> w, id |-> acts + 1, kind |-> kind]
             c == IF kind = "lab" THEN "runs" ELSE "checks"
  <1>1. /\ w # Nerds /\ acts' = acts + 1 /\ asked' = asked \cup {r}
        /\ truth' = [truth EXCEPT ![c] = @ + 1] /\ pushed' = (pushed \/ kind = "play")
        /\ UNCHANGED <<opened, entries, stored, told, unsaved, loader, mixed, missed, odd>>
    BY DEF Act, traceVars
  <1>2. c = PanelOf(kind) /\ c \in Fetched
    BY PanelNames DEF PanelOf
  <1>3. r \in Traced /\ r.id = acts + 1 /\ r.kind = kind /\ r \in asked'
    BY <1>1 DEF Traced, NerdsInv, NerdsTypes
  <1> HIDE DEF r, c
  <1>4. NerdsTypes'
    <2>1. truth' \in [Fetched -> Nat]
      BY <1>1, <1>2 DEF NerdsInv, NerdsTypes
    <2>2. pushed' \in BOOLEAN
      BY <1>1 DEF NerdsInv, NerdsTypes
    <2> QED
      BY <1>1, <1>3, <2>1, <2>2 DEF NerdsInv, NerdsTypes
  <1>5. TraceIds'
    <2>1. /\ Heading(stored)' = Heading(stored)
          /\ \A u \in Window : Heading(entries[u])' = Heading(entries[u])
      BY <1>1 DEF Heading
    <2>2. /\ Heading(stored).id \in Nat /\ Heading(stored).id <= acts
          /\ \A u \in Window : Heading(entries[u]).id \in Nat /\ Heading(entries[u]).id <= acts
          /\ acts \in Nat
      BY HeadingFacts DEF NerdsInv, NerdsTypes, TraceIds
    <2>3. ASSUME NEW q \in asked'
          PROVE  /\ q.id \in 1 .. acts' /\ q.id # Heading(stored).id
                 /\ \A u \in Window : q.id # Heading(entries[u]).id
      BY <1>1, <1>3, <2>2 DEF NerdsInv, TraceIds
    <2>4. ASSUME NEW q \in asked', NEW z \in asked', q.id = z.id PROVE q = z
      <3>1. \A y \in asked : y.id # r.id
        BY <1>3, <2>2 DEF NerdsInv, TraceIds
      <3> QED
        BY <1>1, <2>4, <3>1 DEF NerdsInv, TraceIds
    <2> QED
      BY <1>1, <2>1, <2>2, <2>3, <2>4 DEF TraceIds
  <1>6. SameTrace' /\ RunsTrace'
    BY <1>1 DEF NerdsInv, SameTrace, RunsTrace, Heading
  <1>7. PanelsFollow'
    <2> SUFFICES ASSUME NEW p \in Fetched, p = "checks" \/ RunsWatched PROVE PanelFollows(p)'
      BY <1>1 DEF PanelsFollow, RunsWatched
    <2>1. CASE p = c
      BY <1>2, <1>3, <2>1 DEF PanelFollows, ToCome
    <2>2. CASE p # c
      <3>1. truth'[p] = truth[p] /\ loader' = loader /\ missed' = missed
        BY <1>1, <2>2 DEF NerdsInv, NerdsTypes
      <3>2. NewsStored' = NewsStored
        BY <1>1 DEF NewsStored, Heading
      <3>3. PanelFollows(p)
        BY DEF NerdsInv, PanelsFollow
      <3> QED
        BY <1>1, <3>1, <3>2, <3>3 DEF PanelFollows, Panelled, Refetched, ToCome
    <2> QED
      BY <2>1, <2>2
  <1>8. LoadersBehind'
    <2> SUFFICES ASSUME NEW p \in Fetched PROVE LoaderBehind(loader[p], truth[p])'
      BY DEF LoadersBehind
    <2>1. truth[p] \in Nat /\ truth'[p] \in Nat /\ truth[p] <= truth'[p] /\ loader[p] \in Loader
      BY <1>1, <1>2 DEF NerdsInv, NerdsTypes
    <2>2. LoaderBehind(loader[p], truth[p])
      BY DEF NerdsInv, LoadersBehind
    <2>3. \A k \in DOMAIN loader[p].fetching : loader[p].fetching[k] \in Int
      BY <2>1 DEF Loader, Answers, NotRead
    <2>4. loader[p].newest \in Nat
      BY <2>1 DEF Loader
    <2> QED
      BY <1>1, <2>1, <2>2, <2>3, <2>4 DEF LoaderBehind
  <1> QED
    BY <1>4, <1>5, <1>6, <1>7, <1>8 DEF NerdsInv

(* A window keeps another trace: the effects, and what the others hear of. *)
LEMMA KeepTypes ==
  ASSUME NerdsTypes, NEW w \in Window, NEW new \in Seq(Entries), NEW saves \in BOOLEAN,
         Keep(w, new, saves)
  PROVE  /\ entries' \in [Window -> Seq(Entries)] /\ stored' \in Seq(Entries)
         /\ told' \subseteq Window /\ unsaved' \subseteq Window
         /\ loader' \in [Fetched -> Loader]
  <1>1. loader' \in [Fetched -> Loader]
    BY EffectsFacts DEF Keep
  <1>2. entries' \in [Window -> Seq(Entries)] /\ stored' \in Seq(Entries)
    BY DEF Keep, NerdsTypes
  <1>3. told' \subseteq Window /\ unsaved' \subseteq Window
    BY DEF Keep, NerdsTypes
  <1> QED
    BY <1>1, <1>2, <1>3

LEMMA KeepSame ==
  ASSUME NerdsTypes, SameTrace, NEW w \in Window, NEW new \in Seq(Entries), NEW saves \in BOOLEAN,
         Keep(w, new, saves)
  PROVE  SameTrace'
  <1> SUFFICES ASSUME NEW u \in Window PROVE entries'[u] = stored' \/ u \in told' \/ u \in unsaved'
    BY DEF SameTrace
  <1>1. /\ entries' = [entries EXCEPT ![w] = new] /\ stored' = IF saves THEN new ELSE stored
        /\ told' = IF stored' = stored THEN told ELSE told \cup (Window \ {w})
        /\ unsaved' = IF saves THEN unsaved \ {w} ELSE unsaved \cup {w}
    BY DEF Keep
  <1>2. CASE u = w
    BY <1>1, <1>2 DEF NerdsTypes
  <1>3. CASE u # w
    <2>1. entries'[u] = entries[u] /\ (u \in unsaved => u \in unsaved')
      BY <1>1, <1>3 DEF NerdsTypes
    <2>2. entries[u] = stored \/ u \in told \/ u \in unsaved
      BY DEF SameTrace
    <2> QED
      BY <1>1, <1>3, <2>1, <2>2
  <1> QED
    BY <1>2, <1>3

(* The answers under way, and what the panels show, are not touched.       *)
LEMMA EffectsBehind ==
  ASSUME NerdsTypes, LoadersBehind, NEW w \in Window, NEW new \in Seq(Entries),
         loader' = Effects(w, new), truth' = truth
  PROVE  LoadersBehind'
  BY EffectsFacts DEF LoadersBehind, LoaderBehind

LEMMA RecordTraceNerds ==
  ASSUME NerdsInv, NEW r \in asked, NEW saves \in BOOLEAN, RecordTrace(r, saves)
  PROVE  NerdsInv'
  <1> DEFINE w == r.at
             head == Entry(r.id, r.kind)
             all == <<head>> \o entries[w]
             n == IF Len(all) > MaxTrace THEN MaxTrace ELSE Len(all)
             new == SubSeq(all, 1, n)
  <1>1. /\ asked' = asked \ {r} /\ Keep(w, new, saves)
        /\ mixed' = (mixed \/ r.kind # "lab") /\ missed' = IF saves THEN missed ELSE Fetched
        /\ UNCHANGED <<opened, truth, pushed, acts>>
    BY DEF RecordTrace
  <1>2. w \in Window /\ w # Nerds /\ r.id \in Nat /\ r.kind \in Kind
    BY DEF NerdsInv, NerdsTypes, Traced
  <1>3. head \in Entries /\ head.id = r.id /\ (head.lab <=> r.kind = "lab")
    BY <1>2 DEF Entry, Entries
  <1>4. all \in Seq(Entries) /\ Len(all) \in Nat \ {0} /\ all[1] = head
    <2>1. entries[w] \in Seq(Entries)
      BY <1>2 DEF NerdsInv, NerdsTypes
    <2> HIDE DEF w, head
    <2>2. <<head>> \in Seq(Entries) /\ Len(<<head>>) = 1 /\ <<head>>[1] = head
      BY <1>3
    <2> QED
      BY <2>1, <2>2, ConcatProperties
  <1> HIDE DEF all, head
  <1>5. n \in 1 .. Len(all)
    BY <1>4, NerdsAssumption
  <1> HIDE DEF n
  <1>6. new \in Seq(Entries) /\ new # <<>> /\ new[1] = head
    <2>1. \A i \in 1 .. n : all[i] \in Entries
      BY <1>4, <1>5
    <2>2. new \in Seq(Entries) /\ Len(new) = n /\ new[1] = all[1]
      BY <1>4, <1>5, <2>1, SubSeqProperties
    <2> QED
      BY <1>4, <1>5, <2>2
  <1> HIDE DEF new, w
  <1>7. Heading(new) = head
    BY <1>6 DEF Heading
  <1>8. /\ entries' = [entries EXCEPT ![w] = new] /\ stored' = IF saves THEN new ELSE stored
        /\ told' = IF stored' = stored THEN told ELSE told \cup (Window \ {w})
        /\ loader' = Effects(w, new)
    BY <1>1 DEF Keep
  <1>9. entries'[w] = new /\ (\A u \in Window : u # w => entries'[u] = entries[u])
        /\ entries'[Nerds] = entries[Nerds]
    BY <1>2, <1>8, NerdsAssumption DEF NerdsInv, NerdsTypes
  <1>10. NerdsTypes'
    <2>1. asked' \subseteq Traced /\ missed' \subseteq Fetched /\ mixed' \in BOOLEAN
      BY <1>1 DEF NerdsInv, NerdsTypes
    <2> QED
      BY <1>1, <1>2, <1>6, <2>1, KeepTypes DEF NerdsInv, NerdsTypes
  <1>11. TraceIds'
    <2>1. /\ r.id <= acts /\ \A q \in asked' : q.id # r.id /\ q \in asked
          /\ acts' = acts
      BY <1>1 DEF NerdsInv, TraceIds
    <2>2. Heading(stored)' = Heading(stored) \/ Heading(stored)' = head
      BY <1>7, <1>8 DEF Heading
    <2>3. \A u \in Window : Heading(entries[u])' = IF u = w THEN head ELSE Heading(entries[u])
      BY <1>7, <1>9 DEF Heading
    <2> QED
      BY <1>3, <2>1, <2>2, <2>3 DEF NerdsInv, TraceIds
  <1>12. SameTrace'
    BY <1>1, <1>2, <1>6, KeepSame DEF NerdsInv
  <1>13. RunsTrace'
    <2> SUFFICES ASSUME opened = "runs"
                 PROVE  /\ stored' = <<>> => entries'[Nerds] = <<>>
                        /\ ~mixed' => Heading(stored').lab \/ stored' = <<>>
      BY <1>1 DEF RunsTrace, Heading
    <2>1. CASE saves
      BY <1>1, <1>3, <1>6, <1>7, <1>8, <2>1
    <2>2. CASE ~saves
      BY <1>1, <1>8, <1>9, <2>2 DEF NerdsInv, RunsTrace
    <2> QED
      BY <2>1, <2>2
  <1>14. PanelsFollow'
    <2> SUFFICES ASSUME NEW p \in Fetched PROVE PanelFollows(p)'
      BY DEF PanelsFollow
    <2>1. CASE saves
      <3>1. Heading(stored') = head /\ stored' = new
        BY <1>7, <1>8, <2>1
      <3>2. stored' # stored
        BY <1>3, <3>1 DEF NerdsInv, TraceIds
      <3>3. Nerds \in told'
        BY <1>2, <1>8, <3>2, NerdsAssumption
      <3>4. Heading(entries'[Nerds]).id # Heading(stored').id
        BY <1>3, <1>9, <3>1, NerdsAssumption DEF NerdsInv, TraceIds
      <3>5. NewsStored'
        BY <3>3, <3>4 DEF NewsStored, Heading
      <3> QED
        BY <3>5 DEF PanelFollows, ToCome
    <2>2. CASE ~saves
      BY <1>1, <2>2 DEF PanelFollows, Panelled
    <2> QED
      BY <2>1, <2>2
  <1>15. LoadersBehind'
    BY <1>1, <1>2, <1>6, <1>8, EffectsBehind DEF NerdsInv
  <1> QED
    BY <1>10, <1>11, <1>12, <1>13, <1>14, <1>15 DEF NerdsInv

(* The page follows on when its own trace changes, unless the runs' timer  *)
(* is dropped for an entry that is not an experiment's.                    *)
LEMMA HeardPanels ==
  ASSUME NerdsInv, NEW new \in Seq(Entries), loader' = Effects(Nerds, new), NEW p \in Fetched,
         UNCHANGED <<truth, asked, pushed>>, PanelFollows(p), missed \subseteq missed',
         p = "runs" => opened = "runs" /\ (Heading(new).lab \/ Heading(new).id = Heading(entries[Nerds]).id),
         Heading(new).id = Heading(entries[Nerds]).id => p \in missed' \/ ~NewsStored
  PROVE  PanelFollows(p)'
  <1>1. Nerds \in Window /\ NerdsTypes
    BY NerdsAssumption DEF NerdsInv
  <1>2. CASE Heading(new).id = Heading(entries[Nerds]).id
    <2>1. loader' = loader
      BY <1>1, <1>2, EffectsFacts
    <2> QED
      BY <1>2, <2>1 DEF PanelFollows, Panelled, Refetched, ToCome
  <1>3. CASE Heading(new).id # Heading(entries[Nerds]).id
    <2>1. loader'[p].timer
      BY <1>1, <1>3, EffectsFacts, PanelNames
    <2> QED
      BY <2>1 DEF PanelFollows, Panelled
  <1> QED
    BY <1>2, <1>3

LEMMA ClearTraceNerds == NerdsInv /\ ClearTrace => NerdsInv'
  <1> SUFFICES ASSUME NerdsInv, ClearTrace PROVE NerdsInv'
    OBVIOUS
  <1>1. PICK saves \in BOOLEAN : Keep(Nerds, <<>>, saves)
    BY DEF ClearTrace
  <1>2. /\ opened = "trace" /\ missed' = IF Nerds \in told THEN missed \cup {"checks"} ELSE missed
        /\ UNCHANGED <<opened, truth, asked, pushed, mixed, acts>>
    BY DEF ClearTrace, Wiped
  <1> DEFINE new == <<>>
  <1>3. Nerds \in Window /\ new \in Seq(Entries) /\ Keep(Nerds, new, saves) /\ NerdsTypes /\ SameTrace
    BY <1>1, NerdsAssumption DEF NerdsInv
  <1>4. Heading(new).id = 0
    BY HeadingFacts
  <1> HIDE DEF new
  <1>5. /\ entries' = [entries EXCEPT ![Nerds] = new] /\ stored' = IF saves THEN new ELSE stored
        /\ loader' = Effects(Nerds, new)
    BY <1>3 DEF Keep
  <1>6. NerdsTypes'
    <2>1. missed' \subseteq Fetched
      BY <1>2, <1>3, PanelNames DEF NerdsTypes
    <2> QED
      BY <1>2, <1>3, <2>1, KeepTypes DEF NerdsTypes
  <1>7. TraceIds'
    <2>1. \A q \in asked : q.id \in 1 .. acts
      BY DEF NerdsInv, TraceIds
    <2>2. Heading(stored)' = Heading(stored) \/ Heading(stored)' = Heading(new)
      BY <1>5 DEF Heading
    <2>3. \A u \in Window : Heading(entries[u])' = IF u = Nerds THEN Heading(new) ELSE Heading(entries[u])
      BY <1>3, <1>5 DEF Heading, NerdsTypes
    <2>4. acts \in Nat
      BY <1>3 DEF NerdsTypes
    <2> QED
      BY <1>2, <1>4, <2>1, <2>2, <2>3, <2>4 DEF NerdsInv, TraceIds
  <1>8. SameTrace'
    BY <1>3, KeepSame
  <1>9. RunsTrace'
    BY <1>2 DEF RunsTrace
  <1>10. PanelsFollow'
    <2> DEFINE p == "checks"
    <2>1. p \in Fetched /\ p # "runs" /\ PanelFollows(p)
      BY PanelNames DEF NerdsInv, PanelsFollow
    <2>2. missed \subseteq missed' /\ (Nerds \in told => p \in missed')
      BY <1>2
    <2>3. p \in missed' \/ ~NewsStored
      BY <2>2 DEF NewsStored
    <2>4. \A q \in Fetched : q = p \/ ~RunsWatched'
      BY <1>2, PanelNames DEF RunsWatched
    <2> HIDE DEF p
    <2>5. PanelFollows(p)'
      BY <1>2, <1>3, <1>5, <2>1, <2>2, <2>3, HeardPanels
    <2> QED
      BY <2>4, <2>5 DEF PanelsFollow, p
  <1>11. LoadersBehind'
    BY <1>2, <1>3, <1>5, EffectsBehind DEF NerdsInv
  <1> QED
    BY <1>6, <1>7, <1>8, <1>9, <1>10, <1>11 DEF NerdsInv

LEMMA HearStorageNerds ==
  ASSUME NerdsInv, NEW w \in Window, HearStorage(w)
  PROVE  NerdsInv'
  <1>1. /\ w \in told /\ told' = told \ {w} /\ entries' = [entries EXCEPT ![w] = stored]
        /\ unsaved' = unsaved \ {w} /\ loader' = Effects(w, stored)
        /\ UNCHANGED <<opened, truth, asked, pushed, stored, missed, mixed, acts, odd>>
    BY DEF HearStorage
  <1>2. NerdsTypes /\ stored \in Seq(Entries) /\ Nerds \in Window
    BY NerdsAssumption DEF NerdsInv, NerdsTypes
  <1>3. \A u \in Window : entries'[u] = IF u = w THEN stored ELSE entries[u]
    BY <1>1, <1>2 DEF NerdsTypes
  <1>4. NerdsTypes'
    <2>1. loader' \in [Fetched -> Loader]
      BY <1>1, <1>2, EffectsFacts
    <2>2. entries' \in [Window -> Seq(Entries)]
      BY <1>1, <1>2 DEF NerdsTypes
    <2> QED
      BY <1>1, <1>2, <2>1, <2>2 DEF NerdsTypes
  <1>5. TraceIds'
    BY <1>1, <1>3 DEF NerdsInv, TraceIds, Heading
  <1>6. SameTrace'
    BY <1>1, <1>3 DEF NerdsInv, SameTrace
  <1>7. RunsTrace'
    BY <1>1, <1>2, <1>3 DEF NerdsInv, RunsTrace, Heading
  <1>8. PanelsFollow'
    <2> SUFFICES ASSUME NEW p \in Fetched, p = "checks" \/ RunsWatched PROVE PanelFollows(p)'
      BY <1>1 DEF PanelsFollow, RunsWatched
    <2>1. PanelFollows(p)
      BY DEF NerdsInv, PanelsFollow
    <2>2. CASE w # Nerds
      <3>1. loader' = loader
        BY <1>1, <1>2, <2>2, EffectsFacts
      <3>2. NewsStored' = NewsStored
        BY <1>1, <1>2, <1>3, <2>2 DEF NewsStored, Heading
      <3> QED
        BY <1>1, <2>1, <3>1, <3>2 DEF PanelFollows, Panelled, Refetched, ToCome
    <2>3. CASE w = Nerds
      <3>1. p = "runs" => opened = "runs" /\ (Heading(stored).lab \/ Heading(stored).id = Heading(entries[Nerds]).id)
        BY PanelNames DEF RunsWatched, NerdsInv, RunsTrace
      <3>2. Heading(stored).id = Heading(entries[Nerds]).id => ~NewsStored
        BY DEF NewsStored
      <3> QED
        BY <1>1, <1>2, <2>1, <2>3, <3>1, <3>2, HeardPanels
    <2> QED
      BY <2>2, <2>3
  <1>9. LoadersBehind'
    BY <1>1, <1>2, EffectsBehind DEF NerdsInv
  <1> QED
    BY <1>4, <1>5, <1>6, <1>7, <1>8, <1>9 DEF NerdsInv

LEMMA NextNerds == NerdsInv /\ [NerdsNext]_nerdsVars => NerdsInv'
  <1> SUFFICES ASSUME NerdsInv, [NerdsNext]_nerdsVars PROVE NerdsInv'
    OBVIOUS
  <1>1. ASSUME NEW w \in Window, NEW kind \in Kind, Act(w, kind) PROVE NerdsInv'
    BY <1>1, ActNerds
  <1>2. ASSUME NEW r \in asked, NEW saves \in BOOLEAN, RecordTrace(r, saves) PROVE NerdsInv'
    BY <1>2, RecordTraceNerds
  <1>3. CASE ClearTrace
    BY <1>3, ClearTraceNerds
  <1>4. CASE HearPush
    BY <1>4, HearPushNerds
  <1>5. CASE RunNow
    BY <1>5, RunNowNerds
  <1>6. ASSUME NEW w \in Window, HearStorage(w) PROVE NerdsInv'
    BY <1>6, HearStorageNerds
  <1>7. ASSUME NEW p \in Fetched, TimerFires(p) PROVE NerdsInv'
    BY <1>7, TimerFiresNerds
  <1>8. ASSUME NEW p \in Fetched, NEW k \in DOMAIN loader[p].fetching,
               Serve(p, k) \/ Show(p, k) \/ FetchFails(p, k)
        PROVE  NerdsInv'
    BY <1>8, ServeNerds, ShowNerds, FetchFailsNerds
  <1>9. CASE UNCHANGED nerdsVars
    <2>1. UNCHANGED <<opened, truth, asked, pushed, entries, stored, told, unsaved, loader,
                      missed, mixed, acts>>
      BY <1>9 DEF nerdsVars
    <2> QED
      BY <2>1 DEF NerdsInv, NerdsTypes, TraceIds, SameTrace, RunsTrace, PanelsFollow, PanelFollows,
                  Panelled, Refetched, ToCome, NewsStored, RunsWatched, LoadersBehind, LoaderBehind, Heading
  <1> QED
    BY <1>1, <1>2, <1>3, <1>4, <1>5, <1>6, <1>7, <1>8, <1>9 DEF NerdsNext

(* NerdsPage.tsx, RunsTab.tsx and trace.ts: in every execution, for every  *)
(* number of tabs, entries kept, requests, answers under way and losses,   *)
(* all tabs have the same trace and the panels show the last state, once   *)
(* nothing is under way.                                                   *)
THEOREM TraceFollows == NerdsSpec => []TraceReaches
  <1>1. NerdsInv => TraceReaches
    <2> SUFFICES ASSUME NerdsInv, told = {}, asked = {}, ~pushed
                 PROVE  /\ \A w \in Window \ unsaved : entries[w] = stored
                        /\ Idle("checks") => loader["checks"].newest = truth["checks"]
                        /\ Idle("runs") /\ opened = "runs" /\ ~mixed => loader["runs"].newest = truth["runs"]
      BY DEF TraceReaches
    <2>1. \A w \in Window \ unsaved : entries[w] = stored
      BY DEF NerdsInv, SameTrace
    <2>2. ASSUME NEW p \in Fetched, Idle(p), PanelFollows(p) PROVE loader[p].newest = truth[p]
      <3>1. ~ToCome(p)
        BY DEF ToCome, NewsStored
      <3>2. ~Refetched(loader[p], truth[p])
        BY <2>2 DEF Idle, Refetched
      <3> QED
        BY <2>2, <3>1, <3>2 DEF Idle, PanelFollows, Panelled
    <2> QED
      BY <2>1, <2>2, PanelNames DEF NerdsInv, PanelsFollow, RunsWatched
  <1> QED
    BY <1>1, InitNerds, NextNerds, PTL DEF NerdsSpec
=============================================================================
