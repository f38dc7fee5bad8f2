------------------------------ MODULE WsServer ------------------------------
(***************************************************************************)
(* The life of a websocket connection: ServeHTTP of pkg/ws_server.go with  *)
(* AuthShare of pkg/rdp_sharing.go, DemoDoConnect of cmd/guac/guac.go, the *)
(* connection counts of pkg/mem_session.go and the session gauge, composed *)
(* with the rooms (RdpRooms) and the commands (RdpCommands).               *)
(*                                                                         *)
(* pc[c] is where the handler of connection c stands.  ServeHTTP reads the *)
(* rooms three times before it writes to one (AuthShare or the host's      *)
(* lookup, the second lookup of DemoDoConnect, JoinRoom), and each read is *)
(* a step of its own.  A panic in the handler is recovered by net/http     *)
(* after the deferred calls have run; a panic in the reader goroutine ends *)
(* the process.                                                            *)
(***************************************************************************)
EXTENDS RdpCommands

CONSTANTS
    userId,      \* query parameter userId: the user behind each connection
    Hosts,       \* the connections that may ask for the user's own application
    MaxCrashes   \* bound on Crash: how often the process is killed

ASSUME VisitAssumption == userId \in [Conn -> User] /\ Hosts \subseteq Conn
ASSUME CrashAssumption == MaxCrashes \in Nat

VARIABLES
    pc,          \* the place of the handler of a connection
    query,       \* query parameter shareSessionId
    share,       \* the handler's variable shareSessionId
    perms,       \* the handler's variable sharePermissions
    target,      \* DemoDoConnect's variable shareSessionID
    tun,         \* the guacd connection id of the tunnel
    ses,         \* whether the handler's variable ses is non-nil
    connIds,     \* MemorySessionStore.ConnIds: connections by guacd connection
    rdpCount,    \* the gauge of IncRdpCount and DecRdpCount
    crashes      \* how often the process ended

localVars == <<query, share, perms, target, tun, ses>>
gauges == <<connIds, rdpCount>>
vars == <<lock, roomVars, open, storeVars, cmd, pc, localVars, gauges, crashes>>

Place == {"idle", "authRoom", "connect", "attach", "dial", "newRoom", "join",
          "stream", "scan", "close", "cleanup", "abort", "done"}

(* The session a handler works for: its own, or the one it shares. *)
RoomOf(c) == IF share[c] = None THEN c ELSE share[c]

TypeOK ==
    /\ RoomsTypeOK
    /\ CommandsTypeOK
    /\ pc \in [Conn -> Place]
    /\ query \in [Conn -> Conn \cup {None}]
    /\ share \in [Conn -> Conn \cup {None}]
    /\ perms \in [Conn -> Permission]
    /\ target \in [Conn -> Conn \cup {None}]
    /\ tun \in [Conn -> Conn \cup {None}]
    /\ ses \in [Conn -> BOOLEAN]
    /\ connIds \in [Conn -> Nat]
    /\ rdpCount \in Int
    /\ crashes \in Nat

Init ==
    /\ RoomsInit
    /\ CommandsInit
    /\ pc = [c \in Conn |-> "idle"]
    /\ query = [c \in Conn |-> None]
    /\ share = [c \in Conn |-> None]
    /\ perms = [c \in Conn |-> {}]
    /\ target = [c \in Conn |-> None]
    /\ tun = [c \in Conn |-> None]
    /\ ses = [c \in Conn |-> FALSE]
    /\ connIds = [c \in Conn |-> 0]
    /\ rdpCount = 0
    /\ crashes = 0

At(c, place) == pc[c] = place
Move(c, place) == pc' = [pc EXCEPT ![c] = place]

(* The handler returns: its websocket is closed and its variables are gone. *)
Return(c) ==
    /\ Move(c, "done")
    /\ open' = open \ {c}
    /\ query' = [query EXCEPT ![c] = None]
    /\ share' = [share EXCEPT ![c] = None]
    /\ perms' = [perms EXCEPT ![c] = {}]
    /\ target' = [target EXCEPT ![c] = None]
    /\ tun' = [tun EXCEPT ![c] = None]
    /\ ses' = [ses EXCEPT ![c] = FALSE]

Proceed(c, place) ==
    /\ Move(c, place)
    /\ UNCHANGED <<open, localVars>>

-----------------------------------------------------------------------------
(* Mutants: what a slip in the code would make of a definition below.       *)

AuthShareRoom_NoLookup(c) ==
    /\ At(c, "authRoom")
    /\ IF users[share[c]][userId[c]] = None
       THEN Proceed(c, "connect")
       ELSE Return(c)
    /\ UNCHANGED <<lock, roomVars, storeVars, cmd, gauges, crashes>>

AddConn_OfSession(c) == connIds' = [connIds EXCEPT ![c] = @ + 1]

-----------------------------------------------------------------------------
(* A request for the user's own application.  Nothing happens before the    *)
(* host's lookup of a room left behind ("host user re-connect").            *)
ArriveHost(c) ==
    LET found == GetRoomByAppIdAndCreator(userId[c]) IN
    /\ At(c, "idle")
    /\ c \in Hosts
    /\ \/ /\ found = {}
          /\ UNCHANGED <<share, perms>>
       \/ \E r \in found :
             /\ share' = [share EXCEPT ![c] = r]
             /\ perms' = [perms EXCEPT ![c] = Rights]
    /\ open' = open \cup {c}
    /\ Move(c, "connect")
    /\ UNCHANGED <<lock, roomVars, storeVars, cmd, query, target, tun, ses, gauges, crashes>>

(* A request with the id of a session that was launched earlier, possibly   *)
(* by a process that has died since: AuthShare finds the user's record in   *)
(* the database and goes on with the permissions it holds ...               *)
ArriveShare(c, q) ==
    /\ At(c, "idle")
    /\ invited[q][userId[c]] # None
    /\ query' = [query EXCEPT ![c] = q]
    /\ share' = [share EXCEPT ![c] = q]
    /\ perms' = [perms EXCEPT ![c] = invited[q][userId[c]]]
    /\ open' = open \cup {c}
    /\ Move(c, "authRoom")
    /\ UNCHANGED <<lock, roomVars, storeVars, cmd, target, tun, ses, gauges, crashes>>

(* ... or does not, or the database fails. *)
ArriveRefused(c, q) ==
    /\ At(c, "idle")
    /\ creator[q] # None \/ q \in active
    /\ invited[q][userId[c]] = None \/ StoreFails
    /\ Move(c, "done")
    /\ UNCHANGED <<lock, roomVars, open, storeVars, cmd, localVars, gauges, crashes>>

(* AuthShare, the look at the room: a user who is in it is turned away. *)
AuthShareRoom(c) ==
    /\ At(c, "authRoom")
    /\ IF share[c] \in rdpRooms /\ users[share[c]][userId[c]] = None
       THEN Proceed(c, "connect")
       ELSE Return(c)
    /\ UNCHANGED <<lock, roomVars, storeVars, cmd, gauges, crashes>>

(* DemoDoConnect looks again, from the query and not from what ServeHTTP    *)
(* found.  With neither a room left behind nor a query it launches a new    *)
(* session, whose data is stored before guacd is dialled.                   *)
Launch(c) ==
    /\ At(c, "connect")
    /\ GetRoomByAppIdAndCreator(userId[c]) = {}
    /\ query[c] = None
    /\ sessionData' = sessionData \cup {c}
    /\ tun' = [tun EXCEPT ![c] = c]
    /\ Move(c, "dial")
    /\ UNCHANGED <<lock, roomVars, open, active, invited, kv, queued, cmd, query, share,
                   perms, target, ses, gauges, crashes>>

(* A room left behind takes precedence over the query. *)
Lookup(c) ==
    LET found == GetRoomByAppIdAndCreator(userId[c]) IN
    /\ At(c, "connect")
    /\ found # {} \/ query[c] # None
    /\ \E t \in (IF found = {} THEN {query[c]} ELSE found) :
          target' = [target EXCEPT ![c] = t]
    /\ Move(c, "attach")
    /\ UNCHANGED <<lock, roomVars, open, storeVars, cmd, query, share, perms, tun, ses,
                   gauges, crashes>>

(* A joining connection needs the data and the room of its target, and      *)
(* takes the room's guacd connection.  The query is not read again.         *)
Attach(c) ==
    /\ At(c, "attach")
    /\ IF target[c] \in sessionData \cap rdpRooms
       THEN /\ tun' = [tun EXCEPT ![c] = rdpConn[target[c]]]
            /\ target' = [target EXCEPT ![c] = None]
            /\ query' = [query EXCEPT ![c] = None]
            /\ Move(c, "dial")
            /\ UNCHANGED <<open, share, perms, ses>>
       ELSE Return(c)
    /\ UNCHANGED <<lock, roomVars, storeVars, cmd, gauges, crashes>>

(* The dial or the handshake fails; what Launch stored stays. *)
ConnectError(c) ==
    /\ At(c, "dial")
    /\ Return(c)
    /\ UNCHANGED <<lock, roomVars, storeVars, cmd, gauges, crashes>>

(* The dial and the handshake succeed and OnConnect counts the connection.  *)
(* MemorySessionStore.Add *)
AddConn(c) == connIds' = [connIds EXCEPT ![tun[c]] = @ + 1]

(* The owner of a session reads its data and announces it in the database   *)
(* and in the cache, ...                                                    *)
ConnectedOwner(c) ==
    /\ At(c, "dial")
    /\ share[c] = None
    /\ AddConn(c)
    /\ ses' = [ses EXCEPT ![c] = c \in sessionData]
    /\ active' = active \cup {c} \/ (StoreFails /\ UNCHANGED active)
    /\ kv' = kv \cup {c} \/ (StoreFails /\ UNCHANGED kv)
    /\ Move(c, "newRoom")
    /\ UNCHANGED <<lock, roomVars, open, sessionData, invited, queued, cmd, query, share,
                   perms, target, tun, rdpCount, crashes>>

(* ... then opens the room. *)
OpenRoom(c) ==
    /\ At(c, "newRoom")
    /\ NewRdpSessionRoom(c, userId[c], tun[c])
    /\ rdpCount' = rdpCount + 1
    /\ Move(c, "stream")
    /\ UNCHANGED <<storeVars, cmd, localVars, connIds, crashes>>

(* A sharing user reads the data of the session it shares, ... *)
ConnectedGuest(c) ==
    /\ At(c, "dial")
    /\ share[c] # None
    /\ AddConn(c)
    /\ ses' = [ses EXCEPT ![c] = share[c] \in sessionData]
    /\ Move(c, "join")
    /\ UNCHANGED <<lock, roomVars, open, storeVars, cmd, query, share, perms, target, tun,
                   rdpCount, crashes>>

(* ... then joins.  Without session data the handler panics right after.    *)
Join(c) ==
    /\ At(c, "join")
    /\ JoinRoom(share[c], userId[c], c, perms[c])
    /\ perms' = [perms EXCEPT ![c] = {}]
    /\ Move(c, IF ses[c] THEN "stream" ELSE "abort")
    /\ rdpCount' = IF ses[c] THEN rdpCount + 1 ELSE rdpCount
    /\ UNCHANGED <<storeVars, cmd, query, share, target, tun, ses, connIds, crashes>>

JoinError(c) ==
    /\ At(c, "join")
    /\ JoinRoomError(share[c])
    /\ Move(c, "abort")
    /\ UNCHANGED <<lock, roomVars, open, storeVars, cmd, localVars, gauges, crashes>>

-----------------------------------------------------------------------------
(* guacdToWs returns when guacd closes, when it is silent for SocketTimeout *)
(* or when the websocket cannot be written; LeaveRoom follows.  A handler   *)
(* without session data panics before that, on guacd's server_info or in    *)
(* LeaveRoom when it reads session.Email, and never leaves its room.        *)
SessionPanic(c) ==
    /\ At(c, "stream")
    /\ ~ses[c]
    /\ Move(c, "cleanup")
    /\ UNCHANGED <<lock, roomVars, open, storeVars, cmd, localVars, gauges, crashes>>

Leave(c) ==
    /\ At(c, "stream")
    /\ ses[c]
    /\ LeaveRoom(c, RoomOf(c), userId[c])
    /\ Move(c, "scan")
    /\ UNCHANGED <<storeVars, cmd, localVars, gauges, crashes>>

LeaveError(c) ==
    /\ At(c, "stream")
    /\ ses[c]
    /\ lock = None
    /\ RoomOf(c) \notin rdpRooms
    /\ Move(c, "cleanup")
    /\ UNCHANGED <<lock, roomVars, open, storeVars, cmd, localVars, gauges, crashes>>

(* The room stays when someone who is not a viewer is left in it. *)
LeaveScan(c) ==
    /\ At(c, "scan")
    /\ IF HasAdmin(RoomOf(c))
       THEN Move(c, "cleanup") /\ lock' = None
       ELSE Move(c, "close") /\ UNCHANGED lock
    /\ UNCHANGED <<roomVars, open, storeVars, cmd, localVars, gauges, crashes>>

LeaveClose(c) ==
    /\ At(c, "close")
    /\ closeRoom(RoomOf(c))
    /\ Move(c, "cleanup")
    /\ UNCHANGED <<cmd, localVars, gauges, crashes>>

(* The deferred calls: the gauge, OnDisconnect (MemorySessionStore.Delete), *)
(* the tunnel and the websocket.  A handler that failed to join never       *)
(* raised the gauge.                                                        *)
Cleanup(c) ==
    /\ pc[c] \in {"cleanup", "abort"}
    /\ connIds' = [connIds EXCEPT ![tun[c]] = IF @ = 0 THEN 0 ELSE @ - 1]
    /\ rdpCount' = IF At(c, "cleanup") THEN rdpCount - 1 ELSE rdpCount
    /\ Return(c)
    /\ UNCHANGED <<lock, roomVars, storeVars, cmd, crashes>>

(* The client goes away.  Nothing before the stream notices: a departure    *)
(* during the set-up has the effect of one at the start of the stream.      *)
Disconnect(c) ==
    /\ At(c, "stream")
    /\ c \in open
    /\ open' = open \ {c}
    /\ UNCHANGED <<lock, roomVars, storeVars, cmd, pc, localVars, gauges, crashes>>

-----------------------------------------------------------------------------
(* The reader goroutine runs from the start of the stream; a frame that was *)
(* buffered before the websocket was closed is still handled.               *)
ReaderReceives(c) ==
    /\ pc[c] \in {"stream", "scan", "close", "cleanup"}
    /\ Receive(c, RoomOf(c))
    /\ UNCHANGED <<pc, localVars, gauges, crashes>>

ReaderStep(c) ==
    /\ CommandStep(c)
    /\ UNCHANGED <<pc, localVars, gauges, crashes>>

(* The process ends and is started again: memory is lost, the stores stay.  *)
ProcessEnds ==
    /\ lock' = None
    /\ rdpRooms' = {}
    /\ creator' = [s \in Conn |-> None]
    /\ rdpConn' = [s \in Conn |-> None]
    /\ users' = [s \in Conn |-> [u \in User |-> None]]
    /\ invitees' = [s \in Conn |-> [u \in User |-> None]]
    /\ role' = [c \in Conn |-> "viewer"]
    /\ control' = [c \in Conn |-> {}]
    /\ open' = {}
    /\ sessionData' = {}
    /\ cmd' = [c \in Conn |-> NoCommand]
    /\ pc' = [c \in Conn |-> IF pc[c] = "idle" THEN "idle" ELSE "done"]
    /\ connIds' = [c \in Conn |-> 0]
    /\ rdpCount' = 0
    /\ crashes' = crashes + 1
    /\ query' = [c \in Conn |-> None]
    /\ share' = [c \in Conn |-> None]
    /\ perms' = [c \in Conn |-> {}]
    /\ target' = [c \in Conn |-> None]
    /\ tun' = [c \in Conn |-> None]
    /\ ses' = [c \in Conn |-> FALSE]
    /\ UNCHANGED <<active, kv, queued>>

(* stop-share after the creator has left: StopShare clears the invitees and *)
(* then dereferences the creator's missing client in the reader goroutine.  *)
StopCrash(c) ==
    /\ StopPanics(c)
    /\ DropInvited(cmd[c].room)
    /\ ProcessEnds

(* The process is killed, or the runtime stops it because a map is read and *)
(* written at once (rdpRooms and Users are read without their mutexes).     *)
Crash ==
    /\ crashes < MaxCrashes
    /\ \E c \in Conn : pc[c] \notin {"idle", "done"}
    /\ ProcessEnds
    /\ UNCHANGED invited

(* No client is connected: the server waits for one. *)
Quiet ==
    /\ \A c \in Conn : pc[c] \in {"idle", "done"} /\ cmd[c] = NoCommand
    /\ UNCHANGED vars

(* The steps of a handler that only wait for the runtime and the mutex. *)
HandlerStep(c) ==
    \/ AuthShareRoom(c)
    \/ Launch(c)
    \/ Lookup(c)
    \/ Attach(c)
    \/ ConnectError(c)
    \/ ConnectedOwner(c)
    \/ OpenRoom(c)
    \/ ConnectedGuest(c)
    \/ Join(c)
    \/ JoinError(c)
    \/ LeaveScan(c)
    \/ LeaveClose(c)
    \/ Cleanup(c)

StreamEnd(c) == Leave(c) \/ LeaveError(c) \/ SessionPanic(c)

Next ==
    \/ \E c \in Conn :
          \/ ArriveHost(c)
          \/ \E q \in Conn : ArriveShare(c, q) \/ ArriveRefused(c, q)
          \/ HandlerStep(c)
          \/ StreamEnd(c)
          \/ Disconnect(c)
          \/ ReaderReceives(c)
          \/ ReaderStep(c)
          \/ StopCrash(c)
    \/ Crash
    \/ Quiet

Spec == Init /\ [][Next]_vars

-----------------------------------------------------------------------------
(* Safety. *)

(* LeaveRoom never closes a room with its host in it, as long as the host's *)
(* role was not taken by set-permissions: the package mutex, held from the  *)
(* scan to closeRoom, keeps a host who comes back in between out of the     *)
(* room that is being closed, and no command makes an admin.                *)
HostKeepsRoom ==
    \A c \in Conn : At(c, "close") =>
       \A u \in Members(RoomOf(c)) : role[users[RoomOf(c)][u]] # "admin"

(* A handler works for a shared session only after it has seen the room of  *)
(* that session in this process (AuthShare, GetRoomByAppIdAndCreator): a    *)
(* record that survived a restart in the database opens nothing.            *)
ShareSeen ==
    \A c \in Conn :
       pc[c] # "authRoom" /\ share[c] # None => creator[share[c]] # None

(* Every member of a registered session is the client of a connection that  *)
(* is still attached to that session for that user and has yet to run       *)
(* LeaveRoom: Users never keeps a client whose handler is gone.             *)
MembersAttached ==
    \A r \in rdpRooms \cap sessionData, u \in User :
       users[r][u] # None =>
          LET c == users[r][u] IN
          pc[c] = "stream" /\ RoomOf(c) = r /\ userId[c] = u /\ ses[c]

(* A registered session always has a handler that will run, or is running,  *)
(* LeaveRoom for it, whatever commands, double joins and failures went on:  *)
(* no session stays in rdpRooms with nobody left to close it.               *)
NoOrphanRoom ==
    \A r \in rdpRooms \cap sessionData :
       \E c \in Conn : RoomOf(c) = r /\ ses[c] /\ pc[c] \in {"stream", "scan", "close"}

(* When a session is closed, every client left in it is disconnected: no    *)
(* websocket of a member outlives the room.                                 *)
ClosedRoomDisconnects ==
    \A r \in Conn \ rdpRooms, u \in User : users[r][u] \notin open

(* A session's recording is handed to the queue exactly when the session is *)
(* closed, and once, although several handlers may leave it at the same     *)
(* time and the process may be restarted.                                   *)
RecordedOnce ==
    \A s \in Conn :
       /\ queued[s] <= 1
       /\ creator[s] # None => queued[s] = IF s \in rdpRooms THEN 0 ELSE 1

(* While the stores answer, a session has its database record and its cache *)
(* entry exactly as long as it is registered.                               *)
AnnouncedWhileOpen ==
    \A s \in Conn :
       creator[s] # None => (s \in active <=> s \in rdpRooms) /\ (s \in kv <=> s \in rdpRooms)

(* The creator keeps an invitation whatever remove-share, set-permissions   *)
(* and stop-share do, and whoever sends them.                               *)
CreatorInvited ==
    \A r \in rdpRooms : invitees[r][creator[r]] # None

(* stop-share runs only for the creator of the session, also when the       *)
(* permissions of its sender were changed while it was under way.           *)
OnlyHostStops ==
    \A c \in Conn : cmd[c].step = "stop" => userId[c] = creator[cmd[c].room]

(* A room never holds more invitees than INVITEE_LIMIT. *)
WithinLimit == \A r \in rdpRooms : Cardinality(Invited(r)) <= InviteeLimit

(* The counts of the stores match the handlers: ConnIds counts the          *)
(* connections of each guacd connection and the gauge counts the streams,   *)
(* through every early return, failed join and recovered panic.             *)
GaugesExact ==
    /\ \A k \in Conn :
          connIds[k] = Cardinality({c \in Conn :
             tun[c] = k /\ pc[c] \in {"newRoom", "join", "stream", "scan", "close",
                                      "cleanup", "abort"}})
    /\ rdpCount = Cardinality({c \in Conn : pc[c] \in {"stream", "scan", "close", "cleanup"}})

Listed(c) ==
    At(c, "stream") /\ RoomOf(c) \in rdpRooms /\ users[RoomOf(c)][userId[c]] = c

SecondVisit(c, d) == userId[d] = userId[c] /\ RoomOf(d) = RoomOf(c)

StaysListed(c) ==
    pc'[c] = "stream" /\ c \in open' /\ (At(c, "stream") => Listed(c)) =>
       \/ Listed(c)'
       \/ \E d \in Conn \ {c} :
             SecondVisit(c, d) /\ pc[d] \in {"join", "stream"} /\ pc'[d] # pc[d]

(* A connection that watches a session is its user's client in the room,    *)
(* where remove-share, stop-share and closeRoom find it, from the first to  *)
(* the last moment of an open websocket: no command, no other user and no   *)
(* closing of the room takes it off the list and leaves it watching.  Only  *)
(* a second connection of the same user to the same room does, by joining   *)
(* or by leaving (leave deletes whatever client the user has): AuthShare    *)
(* means to refuse it and lets it in when the two arrive together.          *)
StreamsListed == [][\A c \in Conn : StaysListed(c)]_vars

(* The sessions behind the handlers: open while registered, closed once the *)
(* recording is queued.                                                     *)
Life == INSTANCE SessionLife WITH
    Session <- Conn,
    life <- [s \in Conn |-> IF s \in rdpRooms THEN "open"
                            ELSE IF queued[s] > 0 THEN "closed" ELSE "none"],
    present <- [s \in Conn |-> IF s \in rdpRooms THEN Members(s) ELSE {}],
    recorded <- queued

(* Refinement: whatever the handlers, the commands, failing stores and a    *)
(* restart do between them, each session is opened once, entered only while *)
(* it is open, closed for good, and recorded by the step that closes it.    *)
SessionLifeKept == Life!Spec

-----------------------------------------------------------------------------
(* What the repository says and the code does not keep.                     *)

(* ws_server.go 178 "rdp session owner connected" and guac.go 197 "launch a *)
(* new rdp session" speak of the same connections: a room is opened only    *)
(* for a session that was launched, so it has session data.                 *)
RoomHasSessionData == rdpRooms \subseteq sessionData
=============================================================================
