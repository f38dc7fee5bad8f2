--------------------------- MODULE SessionProofs ---------------------------
(***************************************************************************)
(* Proofs about the sessions of WsServer: the inductive invariant behind   *)
(* ShareSeen, MembersAttached, NoOrphanRoom and RecordedOnce, for every    *)
(* set of users and connections, every limit, every set of commands and    *)
(* any number of crashes; and from it that the gateway implements          *)
(* SessionLife.                                                            *)
(***************************************************************************)
EXTENDS WsServerProofs

USE DEF vars, roomVars, storeVars, localVars, gauges, Move, At, Finish, Goto, Return, Proceed

-----------------------------------------------------------------------------
(* The inductive invariant, in named parts. *)

(* The places of a handler that has not opened a room of its own. *)
Before == {"idle", "authRoom", "connect", "attach", "dial", "newRoom", "join", "abort"}

(* The places of a handler that has read the session data. *)
Attached == {"newRoom", "join", "stream", "scan", "close", "cleanup"}

(* A registered room has a creator, and a handler opens its room once. *)
KnownRooms ==
    /\ \A r \in rdpRooms : creator[r] # None
    /\ \A c \in Conn : pc[c] \in Before => creator[c] = None

(* What a handler shares is decided before it opens or joins a room, and it *)
(* is a session of this process.                                            *)
ShareDecided ==
    /\ ShareSeen
    /\ \A c \in Conn : pc[c] = "newRoom" => share[c] = None
    /\ \A c \in Conn : pc[c] = "join" => share[c] # None

(* A handler whose session has data in the store has read it: the data      *)
(* cannot appear behind its back.                                           *)
DataRead ==
    \A c \in Conn : pc[c] \in Attached /\ RoomOf(c) \in sessionData => ses[c]

(* The data of a session that somebody read stays while its room does.      *)
DataStays ==
    \A c \in Conn :
       /\ pc[c] = "newRoom" /\ ses[c] => c \in sessionData
       /\ pc[c] \in Attached /\ ses[c] /\ RoomOf(c) \in rdpRooms => RoomOf(c) \in sessionData

(* The package mutex protects the registration of the room being left.      *)
LockInv ==
    /\ \A c \in Conn : pc[c] \in {"scan", "close"} <=> lock = c
    /\ \A c \in Conn : pc[c] \in {"scan", "close"} => ses[c] /\ RoomOf(c) \in rdpRooms

(* Nothing is queued for a session before its room was opened. *)
QueuedOnce ==
    /\ RecordedOnce
    /\ \A c \in Conn : pc[c] \in Before => queued[c] = 0

SessionInv ==
    /\ TypeOK
    /\ KnownRooms
    /\ ShareDecided
    /\ DataRead
    /\ DataStays
    /\ LockInv
    /\ MembersAttached
    /\ NoOrphanRoom
    /\ QueuedOnce

-----------------------------------------------------------------------------
(* The types the proofs below use. *)
LEMMA CoreTypes ==
  ASSUME TypeOK
  PROVE  /\ lock \in Conn \cup {None}
         /\ rdpRooms \subseteq Conn
         /\ creator \in [Conn -> User \cup {None}]
         /\ users \in [Conn -> [User -> Conn \cup {None}]]
         /\ sessionData \subseteq Conn
         /\ queued \in [Conn -> Nat]
         /\ pc \in [Conn -> Place]
         /\ share \in [Conn -> Conn \cup {None}]
         /\ ses \in [Conn -> BOOLEAN]
         /\ None \notin Conn /\ None \notin User
         /\ userId \in [Conn -> User]
  BY NoneAssumption, VisitAssumption DEF TypeOK, RoomsTypeOK

(* A reader goroutine leaves the handlers, the registrations and the        *)
(* session data alone, and only ever takes members out of rooms.            *)
LEMMA ReaderEffect ==
  ASSUME TypeOK, NEW c \in Conn, ReaderStep(c) \/ ReaderReceives(c)
  PROVE  /\ UNCHANGED <<lock, rdpRooms, creator, sessionData, queued, pc, share, ses>>
         /\ \A r \in Conn, u \in User : users'[r][u] = users[r][u] \/ users'[r][u] = None
<1>0. users \in [Conn -> [User -> Conn \cup {None}]]
  BY CoreTypes
<1>1. CASE ReaderReceives(c)
  BY <1>1 DEF ReaderReceives, Receive
<1>2. CASE Share(c) /\ UNCHANGED <<pc, localVars, gauges, crashes>>
  BY <1>2 DEF Share, AddInvitee
<1>3. CASE ShareRdpSession(c) /\ UNCHANGED <<pc, localVars, gauges, crashes>>
  BY <1>3 DEF ShareRdpSession
<1>4. CASE Remove(c) /\ UNCHANGED <<pc, localVars, gauges, crashes>>
  BY <1>0, <1>4 DEF Remove, RemoveUser
<1>5. CASE RemoveInvitee(c) /\ UNCHANGED <<pc, localVars, gauges, crashes>>
  BY <1>5 DEF RemoveInvitee
<1>6. CASE SetClient(c) /\ UNCHANGED <<pc, localVars, gauges, crashes>>
  BY <1>6 DEF SetClient
<1>7. CASE SetInvitee(c) /\ UNCHANGED <<pc, localVars, gauges, crashes>>
  BY <1>7 DEF SetInvitee
<1>8. CASE Stop(c) /\ UNCHANGED <<pc, localVars, gauges, crashes>>
  BY <1>0, <1>8 DEF Stop, StopShare
<1> QED
  BY <1>1, <1>2, <1>3, <1>4, <1>5, <1>6, <1>7, <1>8 DEF ReaderStep, CommandStep

(* When the process ends nothing is left in memory but who has yet to come. *)
LEMMA EndEffect ==
  ASSUME ProcessEnds
  PROVE  /\ lock' = None /\ rdpRooms' = {} /\ sessionData' = {}
         /\ creator' = [s \in Conn |-> None]
         /\ share' = [s \in Conn |-> None]
         /\ ses' = [s \in Conn |-> FALSE]
         /\ pc' = [c \in Conn |-> IF pc[c] = "idle" THEN "idle" ELSE "done"]
         /\ queued' = queued
  BY DEF ProcessEnds

-----------------------------------------------------------------------------
(* The parts are preserved, one step per action. *)

(* Rooms stay known. *)
LEMMA KnownStep ==
  ASSUME TypeOK, KnownRooms, [Next]_vars
  PROVE  KnownRooms'
<1>1. ASSUME NEW c \in Conn, ArriveHost(c) PROVE KnownRooms'
  BY <1>1, CoreTypes DEF ArriveHost, GetRoomByAppIdAndCreator, KnownRooms, Before
<1>2. ASSUME NEW c \in Conn, NEW q \in Conn, ArriveShare(c, q) PROVE KnownRooms'
  BY <1>2, CoreTypes DEF ArriveShare, KnownRooms, Before
<1>3. ASSUME NEW c \in Conn, NEW q \in Conn, ArriveRefused(c, q) PROVE KnownRooms'
  BY <1>3, CoreTypes DEF ArriveRefused, KnownRooms, Before
<1>4. ASSUME NEW c \in Conn, AuthShareRoom(c) PROVE KnownRooms'
  BY <1>4, CoreTypes DEF AuthShareRoom, KnownRooms, Before
<1>5. ASSUME NEW c \in Conn, Launch(c) PROVE KnownRooms'
  BY <1>5, CoreTypes DEF Launch, KnownRooms, Before
<1>6. ASSUME NEW c \in Conn, Lookup(c) PROVE KnownRooms'
  BY <1>6, CoreTypes DEF Lookup, KnownRooms, Before
<1>7. ASSUME NEW c \in Conn, Attach(c) PROVE KnownRooms'
  BY <1>7, CoreTypes DEF Attach, KnownRooms, Before
<1>8. ASSUME NEW c \in Conn, ConnectError(c) PROVE KnownRooms'
  BY <1>8, CoreTypes DEF ConnectError, KnownRooms, Before
<1>9. ASSUME NEW c \in Conn, ConnectedOwner(c) PROVE KnownRooms'
  BY <1>9, CoreTypes DEF ConnectedOwner, KnownRooms, Before
<1>10. ASSUME NEW c \in Conn, OpenRoom(c) PROVE KnownRooms'
  BY <1>10, CoreTypes DEF OpenRoom, NewRdpSessionRoom, KnownRooms, Before
<1>11. ASSUME NEW c \in Conn, ConnectedGuest(c) PROVE KnownRooms'
  BY <1>11, CoreTypes DEF ConnectedGuest, KnownRooms, Before
<1>12. ASSUME NEW c \in Conn, Join(c) PROVE KnownRooms'
  BY <1>12, CoreTypes DEF Join, JoinRoom, join, KnownRooms, Before
<1>13. ASSUME NEW c \in Conn, JoinError(c) PROVE KnownRooms'
  BY <1>13, CoreTypes DEF JoinError, JoinRoomError, KnownRooms, Before
<1>14. ASSUME NEW c \in Conn, SessionPanic(c) PROVE KnownRooms'
  BY <1>14, CoreTypes DEF SessionPanic, KnownRooms, Before
<1>15. ASSUME NEW c \in Conn, Leave(c) PROVE KnownRooms'
  BY <1>15, CoreTypes DEF Leave, LeaveRoom, leave, KnownRooms, Before
<1>16. ASSUME NEW c \in Conn, LeaveError(c) PROVE KnownRooms'
  BY <1>16, CoreTypes DEF LeaveError, KnownRooms, Before
<1>17. ASSUME NEW c \in Conn, LeaveScan(c) PROVE KnownRooms'
  BY <1>17, CoreTypes DEF LeaveScan, HasAdmin, KnownRooms, Before
<1>18. ASSUME NEW c \in Conn, LeaveClose(c) PROVE KnownRooms'
  BY <1>18, CoreTypes DEF LeaveClose, closeRoom, KnownRooms, Before
<1>19. ASSUME NEW c \in Conn, Cleanup(c) PROVE KnownRooms'
  BY <1>19, CoreTypes DEF Cleanup, KnownRooms, Before
<1>20. ASSUME NEW c \in Conn, Disconnect(c) PROVE KnownRooms'
  BY <1>20, CoreTypes DEF Disconnect, KnownRooms, Before
<1>21. ASSUME NEW c \in Conn, ReaderStep(c) \/ ReaderReceives(c) PROVE KnownRooms'
  BY <1>21, ReaderEffect, CoreTypes DEF KnownRooms, Before
<1>22. ASSUME ProcessEnds PROVE KnownRooms'
  BY <1>22, EndEffect, CoreTypes DEF KnownRooms, Before
<1>23. CASE UNCHANGED vars
  BY <1>23 DEF KnownRooms, Before
<1> QED
  BY <1>1, <1>2, <1>3, <1>4, <1>5, <1>6, <1>7, <1>8, <1>9, <1>10, <1>11, <1>12, <1>13,
     <1>14, <1>15, <1>16, <1>17, <1>18, <1>19, <1>20, <1>21, <1>22, <1>23
  DEF Next, HandlerStep, StreamEnd, StopCrash, Crash, Quiet

(* What is shared stays known. *)
LEMMA ShareStep ==
  ASSUME TypeOK, KnownRooms, ShareDecided, [Next]_vars
  PROVE  ShareDecided'
<1>1. ASSUME NEW c \in Conn, ArriveHost(c) PROVE ShareDecided'
  BY <1>1, CoreTypes DEF ArriveHost, GetRoomByAppIdAndCreator, KnownRooms, Before,
     ShareDecided, ShareSeen
<1>2. ASSUME NEW c \in Conn, NEW q \in Conn, ArriveShare(c, q) PROVE ShareDecided'
  BY <1>2, CoreTypes DEF ArriveShare, KnownRooms, Before, ShareDecided, ShareSeen
<1>3. ASSUME NEW c \in Conn, NEW q \in Conn, ArriveRefused(c, q) PROVE ShareDecided'
  BY <1>3, CoreTypes DEF ArriveRefused, KnownRooms, Before, ShareDecided, ShareSeen
<1>4. ASSUME NEW c \in Conn, AuthShareRoom(c) PROVE ShareDecided'
  <2>1. CASE share[c] \in rdpRooms /\ Proceed(c, "connect")
    BY <1>4, <2>1, CoreTypes DEF AuthShareRoom, KnownRooms, Before, ShareDecided, ShareSeen
  <2>2. CASE Return(c)
    BY <1>4, <2>2, CoreTypes DEF AuthShareRoom, KnownRooms, Before, ShareDecided, ShareSeen
  <2> QED
    BY <1>4, <2>1, <2>2 DEF AuthShareRoom
<1>5. ASSUME NEW c \in Conn, Launch(c) PROVE ShareDecided'
  BY <1>5, CoreTypes DEF Launch, KnownRooms, Before, ShareDecided, ShareSeen
<1>6. ASSUME NEW c \in Conn, Lookup(c) PROVE ShareDecided'
  BY <1>6, CoreTypes DEF Lookup, KnownRooms, Before, ShareDecided, ShareSeen
<1>7. ASSUME NEW c \in Conn, Attach(c) PROVE ShareDecided'
  <2>1. CASE Move(c, "dial") /\ UNCHANGED <<open, share, perms, ses>>
    BY <1>7, <2>1, CoreTypes DEF Attach, KnownRooms, Before, ShareDecided, ShareSeen
  <2>2. CASE Return(c)
    BY <1>7, <2>2, CoreTypes DEF Attach, KnownRooms, Before, ShareDecided, ShareSeen
  <2> QED
    BY <1>7, <2>1, <2>2 DEF Attach
<1>8. ASSUME NEW c \in Conn, ConnectError(c) PROVE ShareDecided'
  BY <1>8, CoreTypes DEF ConnectError, KnownRooms, Before, ShareDecided, ShareSeen
<1>9. ASSUME NEW c \in Conn, ConnectedOwner(c) PROVE ShareDecided'
  BY <1>9, CoreTypes DEF ConnectedOwner, KnownRooms, Before, ShareDecided, ShareSeen
<1>10. ASSUME NEW c \in Conn, OpenRoom(c) PROVE ShareDecided'
  BY <1>10, CoreTypes DEF OpenRoom, NewRdpSessionRoom, KnownRooms, Before, ShareDecided, ShareSeen
<1>11. ASSUME NEW c \in Conn, ConnectedGuest(c) PROVE ShareDecided'
  BY <1>11, CoreTypes DEF ConnectedGuest, KnownRooms, Before, ShareDecided, ShareSeen
<1>12. ASSUME NEW c \in Conn, Join(c) PROVE ShareDecided'
  BY <1>12, CoreTypes DEF Join, JoinRoom, join, KnownRooms, Before, ShareDecided, ShareSeen
<1>13. ASSUME NEW c \in Conn, JoinError(c) PROVE ShareDecided'
  BY <1>13, CoreTypes DEF JoinError, JoinRoomError, KnownRooms, Before, ShareDecided, ShareSeen
<1>14. ASSUME NEW c \in Conn, SessionPanic(c) PROVE ShareDecided'
  BY <1>14, CoreTypes DEF SessionPanic, KnownRooms, Before, ShareDecided, ShareSeen
<1>15. ASSUME NEW c \in Conn, Leave(c) PROVE ShareDecided'
  BY <1>15, CoreTypes DEF Leave, LeaveRoom, leave, KnownRooms, Before, ShareDecided, ShareSeen
<1>16. ASSUME NEW c \in Conn, LeaveError(c) PROVE ShareDecided'
  BY <1>16, CoreTypes DEF LeaveError, KnownRooms, Before, ShareDecided, ShareSeen
<1>17. ASSUME NEW c \in Conn, LeaveScan(c) PROVE ShareDecided'
  BY <1>17, CoreTypes DEF LeaveScan, HasAdmin, KnownRooms, Before, ShareDecided, ShareSeen
<1>18. ASSUME NEW c \in Conn, LeaveClose(c) PROVE ShareDecided'
  BY <1>18, CoreTypes DEF LeaveClose, closeRoom, KnownRooms, Before, ShareDecided, ShareSeen
<1>19. ASSUME NEW c \in Conn, Cleanup(c) PROVE ShareDecided'
  BY <1>19, CoreTypes DEF Cleanup, KnownRooms, Before, ShareDecided, ShareSeen
<1>20. ASSUME NEW c \in Conn, Disconnect(c) PROVE ShareDecided'
  BY <1>20, CoreTypes DEF Disconnect, KnownRooms, Before, ShareDecided, ShareSeen
<1>21. ASSUME NEW c \in Conn, ReaderStep(c) \/ ReaderReceives(c) PROVE ShareDecided'
  BY <1>21, ReaderEffect, CoreTypes DEF KnownRooms, Before, ShareDecided, ShareSeen
<1>22. ASSUME ProcessEnds PROVE ShareDecided'
  BY <1>22, EndEffect, CoreTypes DEF KnownRooms, Before, ShareDecided, ShareSeen
<1>23. CASE UNCHANGED vars
  BY <1>23 DEF ShareDecided, ShareSeen
<1> QED
  BY <1>1, <1>2, <1>3, <1>4, <1>5, <1>6, <1>7, <1>8, <1>9, <1>10, <1>11, <1>12, <1>13,
     <1>14, <1>15, <1>16, <1>17, <1>18, <1>19, <1>20, <1>21, <1>22, <1>23
  DEF Next, HandlerStep, StreamEnd, StopCrash, Crash, Quiet

(* Session data does not appear behind a handler. *)
LEMMA DataReadStep ==
  ASSUME TypeOK, KnownRooms, ShareDecided, DataRead, [Next]_vars
  PROVE  DataRead'
<1>1. ASSUME NEW c \in Conn, ArriveHost(c) PROVE DataRead'
  BY <1>1, CoreTypes DEF ArriveHost, GetRoomByAppIdAndCreator, KnownRooms, Before,
     ShareDecided, ShareSeen, DataRead, Attached, RoomOf
<1>2. ASSUME NEW c \in Conn, NEW q \in Conn, ArriveShare(c, q) PROVE DataRead'
  BY <1>2, CoreTypes DEF ArriveShare, KnownRooms, Before, ShareDecided, ShareSeen, DataRead,
     Attached, RoomOf
<1>3. ASSUME NEW c \in Conn, NEW q \in Conn, ArriveRefused(c, q) PROVE DataRead'
  BY <1>3, CoreTypes DEF ArriveRefused, KnownRooms, Before, ShareDecided, ShareSeen, DataRead,
     Attached, RoomOf
<1>4. ASSUME NEW c \in Conn, AuthShareRoom(c) PROVE DataRead'
  BY <1>4, CoreTypes DEF AuthShareRoom, KnownRooms, Before, ShareDecided, ShareSeen, DataRead,
     Attached, RoomOf
<1>5. ASSUME NEW c \in Conn, Launch(c) PROVE DataRead'
  BY <1>5, CoreTypes DEF Launch, KnownRooms, Before, ShareDecided, ShareSeen, DataRead,
     Attached, RoomOf
<1>6. ASSUME NEW c \in Conn, Lookup(c) PROVE DataRead'
  BY <1>6, CoreTypes DEF Lookup, KnownRooms, Before, ShareDecided, ShareSeen, DataRead,
     Attached, RoomOf
<1>7. ASSUME NEW c \in Conn, Attach(c) PROVE DataRead'
  BY <1>7, CoreTypes DEF Attach, KnownRooms, Before, ShareDecided, ShareSeen, DataRead,
     Attached, RoomOf
<1>8. ASSUME NEW c \in Conn, ConnectError(c) PROVE DataRead'
  BY <1>8, CoreTypes DEF ConnectError, KnownRooms, Before, ShareDecided, ShareSeen, DataRead,
     Attached, RoomOf
<1>9. ASSUME NEW c \in Conn, ConnectedOwner(c) PROVE DataRead'
  BY <1>9, CoreTypes DEF ConnectedOwner, KnownRooms, Before, ShareDecided, ShareSeen, DataRead,
     Attached, RoomOf
<1>10. ASSUME NEW c \in Conn, OpenRoom(c) PROVE DataRead'
  BY <1>10, CoreTypes DEF OpenRoom, NewRdpSessionRoom, KnownRooms, Before, ShareDecided,
     ShareSeen, DataRead, Attached, RoomOf
<1>11. ASSUME NEW c \in Conn, ConnectedGuest(c) PROVE DataRead'
  BY <1>11, CoreTypes DEF ConnectedGuest, KnownRooms, Before, ShareDecided, ShareSeen,
     DataRead, Attached, RoomOf
<1>12. ASSUME NEW c \in Conn, Join(c) PROVE DataRead'
  BY <1>12, CoreTypes DEF Join, JoinRoom, join, KnownRooms, Before, ShareDecided, ShareSeen,
     DataRead, Attached, RoomOf
<1>13. ASSUME NEW c \in Conn, JoinError(c) PROVE DataRead'
  BY <1>13, CoreTypes DEF JoinError, JoinRoomError, KnownRooms, Before, ShareDecided,
     ShareSeen, DataRead, Attached, RoomOf
<1>14. ASSUME NEW c \in Conn, SessionPanic(c) PROVE DataRead'
  BY <1>14, CoreTypes DEF SessionPanic, KnownRooms, Before, ShareDecided, ShareSeen, DataRead,
     Attached, RoomOf
<1>15. ASSUME NEW c \in Conn, Leave(c) PROVE DataRead'
  BY <1>15, CoreTypes DEF Leave, LeaveRoom, leave, KnownRooms, Before, ShareDecided, ShareSeen,
     DataRead, Attached, RoomOf
<1>16. ASSUME NEW c \in Conn, LeaveError(c) PROVE DataRead'
  BY <1>16, CoreTypes DEF LeaveError, KnownRooms, Before, ShareDecided, ShareSeen, DataRead,
     Attached, RoomOf
<1>17. ASSUME NEW c \in Conn, LeaveScan(c) PROVE DataRead'
  BY <1>17, CoreTypes DEF LeaveScan, HasAdmin, KnownRooms, Before, ShareDecided, ShareSeen,
     DataRead, Attached, RoomOf
<1>18. ASSUME NEW c \in Conn, LeaveClose(c) PROVE DataRead'
  BY <1>18, CoreTypes DEF LeaveClose, closeRoom, KnownRooms, Before, ShareDecided, ShareSeen,
     DataRead, Attached, RoomOf
<1>19. ASSUME NEW c \in Conn, Cleanup(c) PROVE DataRead'
  BY <1>19, CoreTypes DEF Cleanup, KnownRooms, Before, ShareDecided, ShareSeen, DataRead,
     Attached, RoomOf
<1>20. ASSUME NEW c \in Conn, Disconnect(c) PROVE DataRead'
  BY <1>20, CoreTypes DEF Disconnect, KnownRooms, Before, ShareDecided, ShareSeen, DataRead,
     Attached, RoomOf
<1>21. ASSUME NEW c \in Conn, ReaderStep(c) \/ ReaderReceives(c) PROVE DataRead'
  BY <1>21, ReaderEffect, CoreTypes DEF KnownRooms, Before, ShareDecided, ShareSeen, DataRead,
     Attached, RoomOf
<1>22. ASSUME ProcessEnds PROVE DataRead'
  BY <1>22, EndEffect, CoreTypes DEF KnownRooms, Before, ShareDecided, ShareSeen, DataRead,
     Attached, RoomOf
<1>23. CASE UNCHANGED vars
  BY <1>23 DEF DataRead, RoomOf
<1> QED
  BY <1>1, <1>2, <1>3, <1>4, <1>5, <1>6, <1>7, <1>8, <1>9, <1>10, <1>11, <1>12, <1>13,
     <1>14, <1>15, <1>16, <1>17, <1>18, <1>19, <1>20, <1>21, <1>22, <1>23
  DEF Next, HandlerStep, StreamEnd, StopCrash, Crash, Quiet

(* The package mutex is held by whoever leaves, and the room stays. *)
LEMMA LockStep ==
  ASSUME TypeOK, LockInv, [Next]_vars
  PROVE  LockInv'
<1>1. ASSUME NEW c \in Conn, ArriveHost(c) PROVE LockInv'
  BY <1>1, CoreTypes DEF ArriveHost, GetRoomByAppIdAndCreator, LockInv, RoomOf
<1>2. ASSUME NEW c \in Conn, NEW q \in Conn, ArriveShare(c, q) PROVE LockInv'
  BY <1>2, CoreTypes DEF ArriveShare, LockInv, RoomOf
<1>3. ASSUME NEW c \in Conn, NEW q \in Conn, ArriveRefused(c, q) PROVE LockInv'
  BY <1>3, CoreTypes DEF ArriveRefused, LockInv, RoomOf
<1>4. ASSUME NEW c \in Conn, AuthShareRoom(c) PROVE LockInv'
  <2>1. CASE share[c] \in rdpRooms /\ Proceed(c, "connect")
    BY <1>4, <2>1, CoreTypes DEF AuthShareRoom, LockInv, RoomOf
  <2>2. CASE Return(c)
    BY <1>4, <2>2, CoreTypes DEF AuthShareRoom, LockInv, RoomOf
  <2> QED
    BY <1>4, <2>1, <2>2 DEF AuthShareRoom
<1>5. ASSUME NEW c \in Conn, Launch(c) PROVE LockInv'
  BY <1>5, CoreTypes DEF Launch, LockInv, RoomOf
<1>6. ASSUME NEW c \in Conn, Lookup(c) PROVE LockInv'
  BY <1>6, CoreTypes DEF Lookup, LockInv, RoomOf
<1>7. ASSUME NEW c \in Conn, Attach(c) PROVE LockInv'
  <2>1. CASE Move(c, "dial") /\ UNCHANGED <<open, share, perms, ses>>
    BY <1>7, <2>1, CoreTypes DEF Attach, LockInv, RoomOf
  <2>2. CASE Return(c)
    BY <1>7, <2>2, CoreTypes DEF Attach, LockInv, RoomOf
  <2> QED
    BY <1>7, <2>1, <2>2 DEF Attach
<1>8. ASSUME NEW c \in Conn, ConnectError(c) PROVE LockInv'
  BY <1>8, CoreTypes DEF ConnectError, LockInv, RoomOf
<1>9. ASSUME NEW c \in Conn, ConnectedOwner(c) PROVE LockInv'
  BY <1>9, CoreTypes DEF ConnectedOwner, LockInv, RoomOf
<1>10. ASSUME NEW c \in Conn, OpenRoom(c) PROVE LockInv'
  BY <1>10, CoreTypes DEF OpenRoom, NewRdpSessionRoom, LockInv, RoomOf
<1>11. ASSUME NEW c \in Conn, ConnectedGuest(c) PROVE LockInv'
  BY <1>11, CoreTypes DEF ConnectedGuest, LockInv, RoomOf
<1>12. ASSUME NEW c \in Conn, Join(c) PROVE LockInv'
  BY <1>12, CoreTypes DEF Join, JoinRoom, join, LockInv, RoomOf
<1>13. ASSUME NEW c \in Conn, JoinError(c) PROVE LockInv'
  BY <1>13, CoreTypes DEF JoinError, JoinRoomError, LockInv, RoomOf
<1>14. ASSUME NEW c \in Conn, SessionPanic(c) PROVE LockInv'
  BY <1>14, CoreTypes DEF SessionPanic, LockInv, RoomOf
<1>15. ASSUME NEW c \in Conn, Leave(c) PROVE LockInv'
  BY <1>15, CoreTypes DEF Leave, LeaveRoom, leave, LockInv, RoomOf
<1>16. ASSUME NEW c \in Conn, LeaveError(c) PROVE LockInv'
  BY <1>16, CoreTypes DEF LeaveError, LockInv, RoomOf
<1>17. ASSUME NEW c \in Conn, LeaveScan(c) PROVE LockInv'
  BY <1>17, CoreTypes DEF LeaveScan, HasAdmin, LockInv, RoomOf
<1>18. ASSUME NEW c \in Conn, LeaveClose(c) PROVE LockInv'
  BY <1>18, CoreTypes DEF LeaveClose, closeRoom, LockInv, RoomOf
<1>19. ASSUME NEW c \in Conn, Cleanup(c) PROVE LockInv'
  BY <1>19, CoreTypes DEF Cleanup, LockInv, RoomOf
<1>20. ASSUME NEW c \in Conn, Disconnect(c) PROVE LockInv'
  BY <1>20, CoreTypes DEF Disconnect, LockInv, RoomOf
<1>21. ASSUME NEW c \in Conn, ReaderStep(c) \/ ReaderReceives(c) PROVE LockInv'
  BY <1>21, ReaderEffect, CoreTypes DEF LockInv, RoomOf
<1>22. ASSUME ProcessEnds PROVE LockInv'
  <2>1. \A c \in Conn : pc'[c] \in {"idle", "done"} /\ lock' # c
    BY <1>22, EndEffect, CoreTypes
  <2> QED
    BY <2>1 DEF LockInv
<1>23. CASE UNCHANGED vars
  BY <1>23 DEF LockInv, RoomOf
<1> QED
  BY <1>1, <1>2, <1>3, <1>4, <1>5, <1>6, <1>7, <1>8, <1>9, <1>10, <1>11, <1>12, <1>13,
     <1>14, <1>15, <1>16, <1>17, <1>18, <1>19, <1>20, <1>21, <1>22, <1>23
  DEF Next, HandlerStep, StreamEnd, StopCrash, Crash, Quiet

(* Session data stays while the room does. *)
LEMMA DataStaysStep ==
  ASSUME TypeOK, KnownRooms, ShareDecided, DataStays, [Next]_vars
  PROVE  DataStays'
<1>1. ASSUME NEW c \in Conn, ArriveHost(c) PROVE DataStays'
  BY <1>1, CoreTypes DEF ArriveHost, GetRoomByAppIdAndCreator, KnownRooms, Before,
     ShareDecided, ShareSeen, DataStays, Attached, RoomOf
<1>2. ASSUME NEW c \in Conn, NEW q \in Conn, ArriveShare(c, q) PROVE DataStays'
  BY <1>2, CoreTypes DEF ArriveShare, KnownRooms, Before, ShareDecided, ShareSeen, DataStays,
     Attached, RoomOf
<1>3. ASSUME NEW c \in Conn, NEW q \in Conn, ArriveRefused(c, q) PROVE DataStays'
  BY <1>3, CoreTypes DEF ArriveRefused, KnownRooms, Before, ShareDecided, ShareSeen, DataStays,
     Attached, RoomOf
<1>4. ASSUME NEW c \in Conn, AuthShareRoom(c) PROVE DataStays'
  <2>1. CASE share[c] \in rdpRooms /\ Proceed(c, "connect")
    BY <1>4, <2>1, CoreTypes DEF AuthShareRoom, KnownRooms, Before, ShareDecided, ShareSeen,
       DataStays, Attached, RoomOf
  <2>2. CASE Return(c)
    BY <1>4, <2>2, CoreTypes DEF AuthShareRoom, KnownRooms, Before, ShareDecided, ShareSeen,
       DataStays, Attached, RoomOf
  <2> QED
    BY <1>4, <2>1, <2>2 DEF AuthShareRoom
<1>5. ASSUME NEW c \in Conn, Launch(c) PROVE DataStays'
  BY <1>5, CoreTypes DEF Launch, KnownRooms, Before, ShareDecided, ShareSeen, DataStays,
     Attached, RoomOf
<1>6. ASSUME NEW c \in Conn, Lookup(c) PROVE DataStays'
  BY <1>6, CoreTypes DEF Lookup, KnownRooms, Before, ShareDecided, ShareSeen, DataStays,
     Attached, RoomOf
<1>7. ASSUME NEW c \in Conn, Attach(c) PROVE DataStays'
  <2>1. CASE Move(c, "dial") /\ UNCHANGED <<open, share, perms, ses>>
    BY <1>7, <2>1, CoreTypes DEF Attach, KnownRooms, Before, ShareDecided, ShareSeen,
       DataStays, Attached, RoomOf
  <2>2. CASE Return(c)
    BY <1>7, <2>2, CoreTypes DEF Attach, KnownRooms, Before, ShareDecided, ShareSeen,
       DataStays, Attached, RoomOf
  <2> QED
    BY <1>7, <2>1, <2>2 DEF Attach
<1>8. ASSUME NEW c \in Conn, ConnectError(c) PROVE DataStays'
  BY <1>8, CoreTypes DEF ConnectError, KnownRooms, Before, ShareDecided, ShareSeen, DataStays,
     Attached, RoomOf
<1>9. ASSUME NEW c \in Conn, ConnectedOwner(c) PROVE DataStays'
  <2>1. /\ ses'[c] = (c \in sessionData)
        /\ \A e \in Conn \ {c} : ses'[e] = ses[e] /\ pc'[e] = pc[e]
        /\ UNCHANGED <<share, rdpRooms, sessionData>>
        /\ share[c] = None
    BY <1>9, CoreTypes DEF ConnectedOwner
  <2>2. ASSUME NEW e \in Conn, e # c
        PROVE  /\ pc'[e] = "newRoom" /\ ses'[e] => e \in sessionData'
               /\ (pc'[e] \in Attached /\ ses'[e] /\ RoomOf(e)' \in rdpRooms')
                     => RoomOf(e)' \in sessionData'
    BY <2>1, <2>2 DEF DataStays, RoomOf
  <2>3. /\ pc'[c] = "newRoom" /\ ses'[c] => c \in sessionData'
        /\ (pc'[c] \in Attached /\ ses'[c] /\ RoomOf(c)' \in rdpRooms')
              => RoomOf(c)' \in sessionData'
    BY <2>1 DEF RoomOf
  <2> QED
    BY <2>2, <2>3 DEF DataStays
<1>10. ASSUME NEW c \in Conn, OpenRoom(c) PROVE DataStays'
  BY <1>10, CoreTypes DEF OpenRoom, NewRdpSessionRoom, KnownRooms, Before, ShareDecided,
     ShareSeen, DataStays, Attached, RoomOf
<1>11. ASSUME NEW c \in Conn, ConnectedGuest(c) PROVE DataStays'
  BY <1>11, CoreTypes DEF ConnectedGuest, KnownRooms, Before, ShareDecided, ShareSeen,
     DataStays, Attached, RoomOf
<1>12. ASSUME NEW c \in Conn, Join(c) PROVE DataStays'
  BY <1>12, CoreTypes DEF Join, JoinRoom, join, KnownRooms, Before, ShareDecided, ShareSeen,
     DataStays, Attached, RoomOf
<1>13. ASSUME NEW c \in Conn, JoinError(c) PROVE DataStays'
  BY <1>13, CoreTypes DEF JoinError, JoinRoomError, KnownRooms, Before, ShareDecided,
     ShareSeen, DataStays, Attached, RoomOf
<1>14. ASSUME NEW c \in Conn, SessionPanic(c) PROVE DataStays'
  BY <1>14, CoreTypes DEF SessionPanic, KnownRooms, Before, ShareDecided, ShareSeen, DataStays,
     Attached, RoomOf
<1>15. ASSUME NEW c \in Conn, Leave(c) PROVE DataStays'
  BY <1>15, CoreTypes DEF Leave, LeaveRoom, leave, KnownRooms, Before, ShareDecided, ShareSeen,
     DataStays, Attached, RoomOf
<1>16. ASSUME NEW c \in Conn, LeaveError(c) PROVE DataStays'
  BY <1>16, CoreTypes DEF LeaveError, KnownRooms, Before, ShareDecided, ShareSeen, DataStays,
     Attached, RoomOf
<1>17. ASSUME NEW c \in Conn, LeaveScan(c) PROVE DataStays'
  BY <1>17, CoreTypes DEF LeaveScan, HasAdmin, KnownRooms, Before, ShareDecided, ShareSeen,
     DataStays, Attached, RoomOf
<1>18. ASSUME NEW c \in Conn, LeaveClose(c) PROVE DataStays'
  BY <1>18, CoreTypes DEF LeaveClose, closeRoom, KnownRooms, Before, ShareDecided, ShareSeen,
     DataStays, Attached, RoomOf
<1>19. ASSUME NEW c \in Conn, Cleanup(c) PROVE DataStays'
  BY <1>19, CoreTypes DEF Cleanup, KnownRooms, Before, ShareDecided, ShareSeen, DataStays,
     Attached, RoomOf
<1>20. ASSUME NEW c \in Conn, Disconnect(c) PROVE DataStays'
  BY <1>20, CoreTypes DEF Disconnect, KnownRooms, Before, ShareDecided, ShareSeen, DataStays,
     Attached, RoomOf
<1>21. ASSUME NEW c \in Conn, ReaderStep(c) \/ ReaderReceives(c) PROVE DataStays'
  BY <1>21, ReaderEffect, CoreTypes DEF KnownRooms, Before, ShareDecided, ShareSeen, DataStays,
     Attached, RoomOf
<1>22. ASSUME ProcessEnds PROVE DataStays'
  BY <1>22, EndEffect, CoreTypes DEF KnownRooms, Before, ShareDecided, ShareSeen, DataStays,
     Attached, RoomOf
<1>23. CASE UNCHANGED vars
  BY <1>23 DEF DataStays, RoomOf
<1> QED
  BY <1>1, <1>2, <1>3, <1>4, <1>5, <1>6, <1>7, <1>8, <1>9, <1>10, <1>11, <1>12, <1>13,
     <1>14, <1>15, <1>16, <1>17, <1>18, <1>19, <1>20, <1>21, <1>22, <1>23
  DEF Next, HandlerStep, StreamEnd, StopCrash, Crash, Quiet

(* A recording is queued once. *)
LEMMA QueuedStep ==
  ASSUME TypeOK, KnownRooms, DataStays, LockInv, QueuedOnce, [Next]_vars
  PROVE  QueuedOnce'
<1>1. ASSUME NEW c \in Conn, ArriveHost(c) PROVE QueuedOnce'
  BY <1>1, CoreTypes DEF ArriveHost, GetRoomByAppIdAndCreator, KnownRooms, Before, QueuedOnce,
     RecordedOnce
<1>2. ASSUME NEW c \in Conn, NEW q \in Conn, ArriveShare(c, q) PROVE QueuedOnce'
  BY <1>2, CoreTypes DEF ArriveShare, KnownRooms, Before, QueuedOnce, RecordedOnce
<1>3. ASSUME NEW c \in Conn, NEW q \in Conn, ArriveRefused(c, q) PROVE QueuedOnce'
  BY <1>3, CoreTypes DEF ArriveRefused, KnownRooms, Before, QueuedOnce, RecordedOnce
<1>4. ASSUME NEW c \in Conn, AuthShareRoom(c) PROVE QueuedOnce'
  BY <1>4, CoreTypes DEF AuthShareRoom, KnownRooms, Before, QueuedOnce, RecordedOnce
<1>5. ASSUME NEW c \in Conn, Launch(c) PROVE QueuedOnce'
  BY <1>5, CoreTypes DEF Launch, KnownRooms, Before, QueuedOnce, RecordedOnce
<1>6. ASSUME NEW c \in Conn, Lookup(c) PROVE QueuedOnce'
  BY <1>6, CoreTypes DEF Lookup, KnownRooms, Before, QueuedOnce, RecordedOnce
<1>7. ASSUME NEW c \in Conn, Attach(c) PROVE QueuedOnce'
  BY <1>7, CoreTypes DEF Attach, KnownRooms, Before, QueuedOnce, RecordedOnce
<1>8. ASSUME NEW c \in Conn, ConnectError(c) PROVE QueuedOnce'
  BY <1>8, CoreTypes DEF ConnectError, KnownRooms, Before, QueuedOnce, RecordedOnce
<1>9. ASSUME NEW c \in Conn, ConnectedOwner(c) PROVE QueuedOnce'
  BY <1>9, CoreTypes DEF ConnectedOwner, KnownRooms, Before, QueuedOnce, RecordedOnce
<1>10. ASSUME NEW c \in Conn, OpenRoom(c) PROVE QueuedOnce'
  BY <1>10, CoreTypes DEF OpenRoom, NewRdpSessionRoom, KnownRooms, Before, QueuedOnce,
     RecordedOnce
<1>11. ASSUME NEW c \in Conn, ConnectedGuest(c) PROVE QueuedOnce'
  BY <1>11, CoreTypes DEF ConnectedGuest, KnownRooms, Before, QueuedOnce, RecordedOnce
<1>12. ASSUME NEW c \in Conn, Join(c) PROVE QueuedOnce'
  BY <1>12, CoreTypes DEF Join, JoinRoom, join, KnownRooms, Before, QueuedOnce, RecordedOnce
<1>13. ASSUME NEW c \in Conn, JoinError(c) PROVE QueuedOnce'
  BY <1>13, CoreTypes DEF JoinError, JoinRoomError, KnownRooms, Before, QueuedOnce, RecordedOnce
<1>14. ASSUME NEW c \in Conn, SessionPanic(c) PROVE QueuedOnce'
  BY <1>14, CoreTypes DEF SessionPanic, KnownRooms, Before, QueuedOnce, RecordedOnce
<1>15. ASSUME NEW c \in Conn, Leave(c) PROVE QueuedOnce'
  BY <1>15, CoreTypes DEF Leave, LeaveRoom, leave, KnownRooms, Before, QueuedOnce, RecordedOnce
<1>16. ASSUME NEW c \in Conn, LeaveError(c) PROVE QueuedOnce'
  BY <1>16, CoreTypes DEF LeaveError, KnownRooms, Before, QueuedOnce, RecordedOnce
<1>17. ASSUME NEW c \in Conn, LeaveScan(c) PROVE QueuedOnce'
  BY <1>17, CoreTypes DEF LeaveScan, HasAdmin, KnownRooms, Before, QueuedOnce, RecordedOnce
<1>18. ASSUME NEW c \in Conn, LeaveClose(c) PROVE QueuedOnce'
  BY <1>18, CoreTypes DEF LeaveClose, closeRoom, KnownRooms, Before, LockInv, DataStays,
     Attached, QueuedOnce, RecordedOnce, RoomOf
<1>19. ASSUME NEW c \in Conn, Cleanup(c) PROVE QueuedOnce'
  BY <1>19, CoreTypes DEF Cleanup, KnownRooms, Before, QueuedOnce, RecordedOnce
<1>20. ASSUME NEW c \in Conn, Disconnect(c) PROVE QueuedOnce'
  BY <1>20, CoreTypes DEF Disconnect, KnownRooms, Before, QueuedOnce, RecordedOnce
<1>21. ASSUME NEW c \in Conn, ReaderStep(c) \/ ReaderReceives(c) PROVE QueuedOnce'
  BY <1>21, ReaderEffect, CoreTypes DEF KnownRooms, Before, QueuedOnce, RecordedOnce
<1>22. ASSUME ProcessEnds PROVE QueuedOnce'
  BY <1>22, EndEffect, CoreTypes DEF KnownRooms, Before, QueuedOnce, RecordedOnce
<1>23. CASE UNCHANGED vars
  BY <1>23 DEF QueuedOnce, RecordedOnce
<1> QED
  BY <1>1, <1>2, <1>3, <1>4, <1>5, <1>6, <1>7, <1>8, <1>9, <1>10, <1>11, <1>12, <1>13,
     <1>14, <1>15, <1>16, <1>17, <1>18, <1>19, <1>20, <1>21, <1>22, <1>23
  DEF Next, HandlerStep, StreamEnd, StopCrash, Crash, Quiet

(* Members stay attached. *)
LEMMA MembersStep ==
  ASSUME TypeOK, KnownRooms, ShareDecided, DataRead, MembersAttached, [Next]_vars
  PROVE  MembersAttached'
<1>1. ASSUME NEW c \in Conn, ArriveHost(c) PROVE MembersAttached'
  BY <1>1, CoreTypes DEF ArriveHost, GetRoomByAppIdAndCreator, KnownRooms, Before,
     ShareDecided, ShareSeen, DataRead, Attached, MembersAttached, RoomOf
<1>2. ASSUME NEW c \in Conn, NEW q \in Conn, ArriveShare(c, q) PROVE MembersAttached'
  BY <1>2, CoreTypes DEF ArriveShare, KnownRooms, Before, ShareDecided, ShareSeen, DataRead,
     Attached, MembersAttached, RoomOf
<1>3. ASSUME NEW c \in Conn, NEW q \in Conn, ArriveRefused(c, q) PROVE MembersAttached'
  BY <1>3, CoreTypes DEF ArriveRefused, KnownRooms, Before, ShareDecided, ShareSeen, DataRead,
     Attached, MembersAttached, RoomOf
<1>4. ASSUME NEW c \in Conn, AuthShareRoom(c) PROVE MembersAttached'
  <2>1. CASE share[c] \in rdpRooms /\ Proceed(c, "connect")
    BY <1>4, <2>1, CoreTypes DEF AuthShareRoom, MembersAttached, RoomOf
  <2>2. CASE Return(c)
    BY <1>4, <2>2, CoreTypes DEF AuthShareRoom, MembersAttached, RoomOf
  <2> QED
    BY <1>4, <2>1, <2>2 DEF AuthShareRoom
<1>5. ASSUME NEW c \in Conn, Launch(c) PROVE MembersAttached'
  BY <1>5, CoreTypes DEF Launch, KnownRooms, Before, ShareDecided, ShareSeen, DataRead,
     Attached, MembersAttached, RoomOf
<1>6. ASSUME NEW c \in Conn, Lookup(c) PROVE MembersAttached'
  BY <1>6, CoreTypes DEF Lookup, KnownRooms, Before, ShareDecided, ShareSeen, DataRead,
     Attached, MembersAttached, RoomOf
<1>7. ASSUME NEW c \in Conn, Attach(c) PROVE MembersAttached'
  <2>1. CASE Move(c, "dial") /\ UNCHANGED <<open, share, perms, ses>>
    BY <1>7, <2>1, CoreTypes DEF Attach, MembersAttached, RoomOf
  <2>2. CASE Return(c)
    BY <1>7, <2>2, CoreTypes DEF Attach, MembersAttached, RoomOf
  <2> QED
    BY <1>7, <2>1, <2>2 DEF Attach
<1>8. ASSUME NEW c \in Conn, ConnectError(c) PROVE MembersAttached'
  BY <1>8, CoreTypes DEF ConnectError, KnownRooms, Before, ShareDecided, ShareSeen, DataRead,
     Attached, MembersAttached, RoomOf
<1>9. ASSUME NEW c \in Conn, ConnectedOwner(c) PROVE MembersAttached'
  BY <1>9, CoreTypes DEF ConnectedOwner, KnownRooms, Before, ShareDecided, ShareSeen, DataRead,
     Attached, MembersAttached, RoomOf
<1>10. ASSUME NEW c \in Conn, OpenRoom(c) PROVE MembersAttached'
  BY <1>10, CoreTypes DEF OpenRoom, NewRdpSessionRoom, KnownRooms, Before, ShareDecided,
     ShareSeen, DataRead, Attached, MembersAttached, RoomOf
<1>11. ASSUME NEW c \in Conn, ConnectedGuest(c) PROVE MembersAttached'
  BY <1>11, CoreTypes DEF ConnectedGuest, KnownRooms, Before, ShareDecided, ShareSeen,
     DataRead, Attached, MembersAttached, RoomOf
<1>12. ASSUME NEW c \in Conn, Join(c) PROVE MembersAttached'
  BY <1>12, CoreTypes DEF Join, JoinRoom, join, KnownRooms, Before, ShareDecided, ShareSeen,
     DataRead, Attached, MembersAttached, RoomOf
<1>13. ASSUME NEW c \in Conn, JoinError(c) PROVE MembersAttached'
  BY <1>13, CoreTypes DEF JoinError, JoinRoomError, KnownRooms, Before, ShareDecided,
     ShareSeen, DataRead, Attached, MembersAttached, RoomOf
<1>14. ASSUME NEW c \in Conn, SessionPanic(c) PROVE MembersAttached'
  BY <1>14, CoreTypes DEF SessionPanic, KnownRooms, Before, ShareDecided, ShareSeen, DataRead,
     Attached, MembersAttached, RoomOf
<1>15. ASSUME NEW c \in Conn, Leave(c) PROVE MembersAttached'
  BY <1>15, CoreTypes DEF Leave, LeaveRoom, leave, KnownRooms, Before, ShareDecided, ShareSeen,
     DataRead, Attached, MembersAttached, RoomOf
<1>16. ASSUME NEW c \in Conn, LeaveError(c) PROVE MembersAttached'
  BY <1>16, CoreTypes DEF LeaveError, KnownRooms, Before, ShareDecided, ShareSeen, DataRead,
     Attached, MembersAttached, RoomOf
<1>17. ASSUME NEW c \in Conn, LeaveScan(c) PROVE MembersAttached'
  BY <1>17, CoreTypes DEF LeaveScan, HasAdmin, KnownRooms, Before, ShareDecided, ShareSeen,
     DataRead, Attached, MembersAttached, RoomOf
<1>18. ASSUME NEW c \in Conn, LeaveClose(c) PROVE MembersAttached'
  BY <1>18, CoreTypes DEF LeaveClose, closeRoom, KnownRooms, Before, ShareDecided, ShareSeen,
     DataRead, Attached, MembersAttached, RoomOf
<1>19. ASSUME NEW c \in Conn, Cleanup(c) PROVE MembersAttached'
  BY <1>19, CoreTypes DEF Cleanup, KnownRooms, Before, ShareDecided, ShareSeen, DataRead,
     Attached, MembersAttached, RoomOf
<1>20. ASSUME NEW c \in Conn, Disconnect(c) PROVE MembersAttached'
  BY <1>20, CoreTypes DEF Disconnect, KnownRooms, Before, ShareDecided, ShareSeen, DataRead,
     Attached, MembersAttached, RoomOf
<1>21. ASSUME NEW c \in Conn, ReaderStep(c) \/ ReaderReceives(c) PROVE MembersAttached'
  BY <1>21, ReaderEffect, CoreTypes DEF KnownRooms, Before, ShareDecided, ShareSeen, DataRead,
     Attached, MembersAttached, RoomOf
<1>22. ASSUME ProcessEnds PROVE MembersAttached'
  BY <1>22, EndEffect, CoreTypes DEF KnownRooms, Before, ShareDecided, ShareSeen, DataRead,
     Attached, MembersAttached, RoomOf
<1>23. CASE UNCHANGED vars
  BY <1>23 DEF MembersAttached, RoomOf
<1> QED
  BY <1>1, <1>2, <1>3, <1>4, <1>5, <1>6, <1>7, <1>8, <1>9, <1>10, <1>11, <1>12, <1>13,
     <1>14, <1>15, <1>16, <1>17, <1>18, <1>19, <1>20, <1>21, <1>22, <1>23
  DEF Next, HandlerStep, StreamEnd, StopCrash, Crash, Quiet

(* A session keeps a handler that will leave it. *)
LEMMA OrphanStep ==
  ASSUME TypeOK, KnownRooms, ShareDecided, DataRead, LockInv, MembersAttached, NoOrphanRoom,
     [Next]_vars
  PROVE  NoOrphanRoom'
<1>1. ASSUME NEW c \in Conn, ArriveHost(c) PROVE NoOrphanRoom'
  BY <1>1, CoreTypes DEF ArriveHost, GetRoomByAppIdAndCreator, KnownRooms, Before,
     ShareDecided, ShareSeen, DataRead, Attached, NoOrphanRoom, RoomOf
<1>2. ASSUME NEW c \in Conn, NEW q \in Conn, ArriveShare(c, q) PROVE NoOrphanRoom'
  BY <1>2, CoreTypes DEF ArriveShare, KnownRooms, Before, ShareDecided, ShareSeen, DataRead,
     Attached, NoOrphanRoom, RoomOf
<1>3. ASSUME NEW c \in Conn, NEW q \in Conn, ArriveRefused(c, q) PROVE NoOrphanRoom'
  BY <1>3, CoreTypes DEF ArriveRefused, KnownRooms, Before, ShareDecided, ShareSeen, DataRead,
     Attached, NoOrphanRoom, RoomOf
<1>4. ASSUME NEW c \in Conn, AuthShareRoom(c) PROVE NoOrphanRoom'
  <2>1. CASE share[c] \in rdpRooms /\ Proceed(c, "connect")
    BY <1>4, <2>1, CoreTypes DEF AuthShareRoom, NoOrphanRoom, RoomOf
  <2>2. CASE Return(c)
    BY <1>4, <2>2, CoreTypes DEF AuthShareRoom, NoOrphanRoom, RoomOf
  <2> QED
    BY <1>4, <2>1, <2>2 DEF AuthShareRoom
<1>5. ASSUME NEW c \in Conn, Launch(c) PROVE NoOrphanRoom'
  BY <1>5, CoreTypes DEF Launch, KnownRooms, Before, ShareDecided, ShareSeen, DataRead,
     Attached, NoOrphanRoom, RoomOf
<1>6. ASSUME NEW c \in Conn, Lookup(c) PROVE NoOrphanRoom'
  BY <1>6, CoreTypes DEF Lookup, KnownRooms, Before, ShareDecided, ShareSeen, DataRead,
     Attached, NoOrphanRoom, RoomOf
<1>7. ASSUME NEW c \in Conn, Attach(c) PROVE NoOrphanRoom'
  <2>1. CASE Move(c, "dial") /\ UNCHANGED <<open, share, perms, ses>>
    BY <1>7, <2>1, CoreTypes DEF Attach, NoOrphanRoom, RoomOf
  <2>2. CASE Return(c)
    BY <1>7, <2>2, CoreTypes DEF Attach, NoOrphanRoom, RoomOf
  <2> QED
    BY <1>7, <2>1, <2>2 DEF Attach
<1>8. ASSUME NEW c \in Conn, ConnectError(c) PROVE NoOrphanRoom'
  BY <1>8, CoreTypes DEF ConnectError, KnownRooms, Before, ShareDecided, ShareSeen, DataRead,
     Attached, NoOrphanRoom, RoomOf
<1>9. ASSUME NEW c \in Conn, ConnectedOwner(c) PROVE NoOrphanRoom'
  BY <1>9, CoreTypes DEF ConnectedOwner, KnownRooms, Before, ShareDecided, ShareSeen, DataRead,
     Attached, NoOrphanRoom, RoomOf
<1>10. ASSUME NEW c \in Conn, OpenRoom(c) PROVE NoOrphanRoom'
  BY <1>10, CoreTypes DEF OpenRoom, NewRdpSessionRoom, KnownRooms, Before, ShareDecided,
     ShareSeen, DataRead, Attached, NoOrphanRoom, RoomOf
<1>11. ASSUME NEW c \in Conn, ConnectedGuest(c) PROVE NoOrphanRoom'
  BY <1>11, CoreTypes DEF ConnectedGuest, KnownRooms, Before, ShareDecided, ShareSeen,
     DataRead, Attached, NoOrphanRoom, RoomOf
<1>12. ASSUME NEW c \in Conn, Join(c) PROVE NoOrphanRoom'
  BY <1>12, CoreTypes DEF Join, JoinRoom, join, KnownRooms, Before, ShareDecided, ShareSeen,
     DataRead, Attached, NoOrphanRoom, RoomOf
<1>13. ASSUME NEW c \in Conn, JoinError(c) PROVE NoOrphanRoom'
  BY <1>13, CoreTypes DEF JoinError, JoinRoomError, KnownRooms, Before, ShareDecided,
     ShareSeen, DataRead, Attached, NoOrphanRoom, RoomOf
<1>14. ASSUME NEW c \in Conn, SessionPanic(c) PROVE NoOrphanRoom'
  BY <1>14, CoreTypes DEF SessionPanic, KnownRooms, Before, ShareDecided, ShareSeen, DataRead,
     Attached, NoOrphanRoom, RoomOf
<1>15. ASSUME NEW c \in Conn, Leave(c) PROVE NoOrphanRoom'
  BY <1>15, CoreTypes DEF Leave, LeaveRoom, leave, KnownRooms, Before, ShareDecided, ShareSeen,
     DataRead, Attached, NoOrphanRoom, RoomOf
<1>16. ASSUME NEW c \in Conn, LeaveError(c) PROVE NoOrphanRoom'
  BY <1>16, CoreTypes DEF LeaveError, KnownRooms, Before, ShareDecided, ShareSeen, DataRead,
     Attached, NoOrphanRoom, RoomOf
<1>17. ASSUME NEW c \in Conn, LeaveScan(c) PROVE NoOrphanRoom'
  <2>1. /\ UNCHANGED <<rdpRooms, sessionData, users, share, ses>>
        /\ pc[c] = "scan"
        /\ \A d \in Conn \ {c} : pc'[d] = pc[d]
        /\ ~HasAdmin(RoomOf(c)) => pc'[c] = "close"
    BY <1>17, CoreTypes DEF LeaveScan
  <2>2. ASSUME NEW r \in rdpRooms \cap sessionData
        PROVE  \E d \in Conn : RoomOf(d) = r /\ ses[d] /\ pc'[d] \in {"stream", "scan", "close"}
    <3>1. CASE RoomOf(c) = r /\ HasAdmin(r)
      <4>1. PICK u \in User : users[r][u] # None
        BY <3>1 DEF HasAdmin, Members
      <4>2. users[r][u] \in Conn
        BY <4>1, CoreTypes
      <4> QED
        BY <2>1, <4>1, <4>2 DEF MembersAttached
    <3>2. CASE RoomOf(c) # r \/ ~HasAdmin(r)
      BY <2>1, <3>2, CoreTypes DEF NoOrphanRoom
    <3> QED
      BY <3>1, <3>2
  <2> QED
    BY <2>1, <2>2 DEF NoOrphanRoom, RoomOf
<1>18. ASSUME NEW c \in Conn, LeaveClose(c) PROVE NoOrphanRoom'
  BY <1>18, CoreTypes DEF LeaveClose, closeRoom, KnownRooms, Before, ShareDecided, ShareSeen,
     DataRead, Attached, NoOrphanRoom, RoomOf
<1>19. ASSUME NEW c \in Conn, Cleanup(c) PROVE NoOrphanRoom'
  BY <1>19, CoreTypes DEF Cleanup, KnownRooms, Before, ShareDecided, ShareSeen, DataRead,
     Attached, NoOrphanRoom, RoomOf
<1>20. ASSUME NEW c \in Conn, Disconnect(c) PROVE NoOrphanRoom'
  BY <1>20, CoreTypes DEF Disconnect, KnownRooms, Before, ShareDecided, ShareSeen, DataRead,
     Attached, NoOrphanRoom, RoomOf
<1>21. ASSUME NEW c \in Conn, ReaderStep(c) \/ ReaderReceives(c) PROVE NoOrphanRoom'
  BY <1>21, ReaderEffect, CoreTypes DEF KnownRooms, Before, ShareDecided, ShareSeen, DataRead,
     Attached, NoOrphanRoom, RoomOf
<1>22. ASSUME ProcessEnds PROVE NoOrphanRoom'
  BY <1>22, EndEffect, CoreTypes DEF KnownRooms, Before, ShareDecided, ShareSeen, DataRead,
     Attached, NoOrphanRoom, RoomOf
<1>23. CASE UNCHANGED vars
  BY <1>23 DEF NoOrphanRoom, RoomOf
<1> QED
  BY <1>1, <1>2, <1>3, <1>4, <1>5, <1>6, <1>7, <1>8, <1>9, <1>10, <1>11, <1>12, <1>13,
     <1>14, <1>15, <1>16, <1>17, <1>18, <1>19, <1>20, <1>21, <1>22, <1>23
  DEF Next, HandlerStep, StreamEnd, StopCrash, Crash, Quiet

-----------------------------------------------------------------------------
(* The parts hold initially. *)
LEMMA SessionInit == Init => SessionInv
<1> SUFFICES ASSUME Init PROVE SessionInv
  OBVIOUS
<1>1. TypeOK
  BY TypeInit
<1>2. /\ lock = None /\ rdpRooms = {}
      /\ creator = [s \in Conn |-> None]
      /\ share = [s \in Conn |-> None]
      /\ queued = [s \in Conn |-> 0]
      /\ pc = [c \in Conn |-> "idle"]
  BY DEF Init, RoomsInit
<1>3. KnownRooms /\ ShareDecided /\ DataRead /\ DataStays
  BY <1>2 DEF KnownRooms, ShareDecided, ShareSeen, DataRead, DataStays, Attached
<1>4. LockInv
  BY <1>2, NoneAssumption DEF LockInv
<1>5. MembersAttached /\ NoOrphanRoom /\ QueuedOnce
  BY <1>2 DEF MembersAttached, NoOrphanRoom, QueuedOnce, RecordedOnce
<1> QED
  BY <1>1, <1>3, <1>4, <1>5 DEF SessionInv

(* Together they are an inductive invariant. *)
LEMMA SessionStep == SessionInv /\ [Next]_vars => SessionInv'
  BY TypeStep, KnownStep, ShareStep, DataReadStep, DataStaysStep, LockStep, MembersStep,
     OrphanStep, QueuedStep
  DEF SessionInv

(* The sessions of the gateway keep the invariant in every execution. *)
THEOREM SessionCorrect == Spec => []SessionInv
  BY SessionInit, SessionStep, PTL DEF Spec

(* A handler shares only what it has seen registered in this process.       *)
THEOREM SharesSeenRooms == Spec => []ShareSeen
  BY SessionCorrect, PTL DEF SessionInv, ShareDecided

(* Users never keeps a client whose handler is gone.                        *)
THEOREM MembersStayAttached == Spec => []MembersAttached
  BY SessionCorrect, PTL DEF SessionInv

(* Every registered session has a handler that will run LeaveRoom for it.   *)
THEOREM NoRoomIsOrphaned == Spec => []NoOrphanRoom
  BY SessionCorrect, PTL DEF SessionInv

(* A recording is queued when its session is closed, and once.              *)
THEOREM RecordsOnce == Spec => []RecordedOnce
  BY SessionCorrect, PTL DEF SessionInv, QueuedOnce

-----------------------------------------------------------------------------
(* The sessions behind the handlers: the refinement of SessionLife. *)

(* What the variables life and present of SessionLife stand for. *)
LifeOf(s) == IF s \in rdpRooms THEN "open" ELSE IF queued[s] > 0 THEN "closed" ELSE "none"
PresentIn(s) == IF s \in rdpRooms THEN Members(s) ELSE {}

lifeBar == [s \in Conn |-> LifeOf(s)]
presentBar == [s \in Conn |-> PresentIn(s)]

(* A step that keeps the registrations, the queue and the members of the    *)
(* registered rooms stutters.                                               *)
LEMMA LifeStutters ==
  ASSUME UNCHANGED <<rdpRooms, queued>>,
         \A t \in Conn : PresentIn(t)' = PresentIn(t)
  PROVE  UNCHANGED Life!vars
  BY DEF Life!vars, PresentIn

(* What a step that changes one session must do to be one of SessionLife's. *)
LEMMA LifeActions ==
  ASSUME NEW s \in Conn, NEW u \in User, NEW G \in SUBSET User, queued \in [Conn -> Nat],
         \A t \in Conn \ {s} : LifeOf(t)' = LifeOf(t) /\ PresentIn(t)' = PresentIn(t)
  PROVE  /\ LifeOf(s) = "none" /\ LifeOf(s)' = "open" /\ PresentIn(s)' = {u} /\ queued' = queued
            => Life!Next
         /\ LifeOf(s) = "open" /\ LifeOf(s)' = "open" /\ queued' = queued
               /\ PresentIn(s)' = PresentIn(s) \cup {u}
            => Life!Next
         /\ LifeOf(s) = "open" /\ LifeOf(s)' = "open" /\ queued' = queued
               /\ PresentIn(s)' = PresentIn(s) \ G
            => Life!Next
         /\ LifeOf(s) = "open" /\ LifeOf(s)' = "closed" /\ PresentIn(s)' = {}
               /\ queued' = [queued EXCEPT ![s] = queued[s] + 1]
            => Life!Next
<1>0. ASSUME NEW v, NEW w
      PROVE  /\ LifeOf(s)' = v => lifeBar' = [lifeBar EXCEPT ![s] = v]
             /\ PresentIn(s)' = w => presentBar' = [presentBar EXCEPT ![s] = w]
             /\ LifeOf(s)' = LifeOf(s) => lifeBar' = lifeBar
  BY DEF lifeBar, presentBar
<1>1. lifeBar[s] = LifeOf(s) /\ presentBar[s] = PresentIn(s)
  BY DEF lifeBar, presentBar
<1>2. Life!Open(s, u) <=>
         /\ lifeBar[s] = "none"
         /\ lifeBar' = [lifeBar EXCEPT ![s] = "open"]
         /\ presentBar' = [presentBar EXCEPT ![s] = {u}]
         /\ UNCHANGED queued
  BY DEF Life!Open, lifeBar, presentBar, LifeOf, PresentIn
<1>3. Life!Enter(s, u) <=>
         /\ lifeBar[s] = "open"
         /\ presentBar' = [presentBar EXCEPT ![s] = presentBar[s] \cup {u}]
         /\ UNCHANGED <<lifeBar, queued>>
  BY DEF Life!Enter, lifeBar, presentBar, LifeOf, PresentIn
<1>4. Life!Go(s, G) <=>
         /\ lifeBar[s] = "open"
         /\ presentBar' = [presentBar EXCEPT ![s] = presentBar[s] \ G]
         /\ UNCHANGED <<lifeBar, queued>>
  BY DEF Life!Go, lifeBar, presentBar, LifeOf, PresentIn
<1>5. Life!Close(s) <=>
         /\ lifeBar[s] = "open"
         /\ lifeBar' = [lifeBar EXCEPT ![s] = "closed"]
         /\ presentBar' = [presentBar EXCEPT ![s] = {}]
         /\ queued' = [queued EXCEPT ![s] = queued[s] + 1]
  BY DEF Life!Close, lifeBar, presentBar, LifeOf, PresentIn
<1>6. Life!Open(s, u) \/ Life!Enter(s, u) \/ Life!Go(s, G) \/ Life!Close(s) => Life!Next
  BY DEF Life!Next
<1> QED
  BY <1>0, <1>1, <1>2, <1>3, <1>4, <1>5, <1>6

(* OpenRoom opens the session, ... *)
LEMMA OpenIsOpen ==
  ASSUME SessionInv, NEW c \in Conn, OpenRoom(c)
  PROVE  Life!Next
<1>1. /\ rdpRooms' = rdpRooms \cup {c} /\ queued' = queued /\ pc[c] = "newRoom"
      /\ users' = [users EXCEPT ![c] = [v \in User |-> IF v = userId[c] THEN c ELSE None]]
  BY DEF OpenRoom, NewRdpSessionRoom
<1>2. /\ users \in [Conn -> [User -> Conn \cup {None}]] /\ None \notin Conn
      /\ queued \in [Conn -> Nat] /\ userId[c] \in User
  BY CoreTypes DEF SessionInv
<1>3. LifeOf(c) = "none"
  BY <1>1 DEF SessionInv, KnownRooms, QueuedOnce, Before, LifeOf
<1>4. LifeOf(c)' = "open" /\ PresentIn(c)' = {userId[c]}
  BY <1>1, <1>2 DEF LifeOf, PresentIn, Members
<1>5. \A t \in Conn \ {c} : LifeOf(t)' = LifeOf(t) /\ PresentIn(t)' = PresentIn(t)
  BY <1>1, <1>2 DEF LifeOf, PresentIn, Members
<1> QED
  BY <1>1, <1>2, <1>3, <1>4, <1>5, LifeActions

(* ... Join enters it, ... *)
LEMMA JoinEnters ==
  ASSUME SessionInv, NEW c \in Conn, Join(c)
  PROVE  Life!Next
<1>0. PICK r : r = share[c]
  OBVIOUS
<1>1. /\ r \in rdpRooms /\ UNCHANGED <<rdpRooms, queued>>
      /\ users' = [users EXCEPT ![r][userId[c]] = c]
  BY <1>0 DEF Join, JoinRoom, join
<1>2. /\ users \in [Conn -> [User -> Conn \cup {None}]] /\ None \notin Conn
      /\ queued \in [Conn -> Nat] /\ userId[c] \in User /\ r \in Conn
  BY <1>1, CoreTypes DEF SessionInv
<1>3. LifeOf(r) = "open" /\ LifeOf(r)' = "open" /\ PresentIn(r)' = PresentIn(r) \cup {userId[c]}
  BY <1>1, <1>2 DEF LifeOf, PresentIn, Members
<1>4. \A t \in Conn \ {r} : LifeOf(t)' = LifeOf(t) /\ PresentIn(t)' = PresentIn(t)
  BY <1>1, <1>2 DEF LifeOf, PresentIn, Members
<1> QED
  BY <1>1, <1>2, <1>3, <1>4, LifeActions

(* ... and whoever is taken out of a registered room goes. *)
LEMMA TakenOutGo ==
  ASSUME TypeOK, NEW r, NEW G \in SUBSET User, UNCHANGED <<rdpRooms, queued>>,
         \A t \in Conn \ {r} : users'[t] = users[t],
         r \in Conn => \A v \in User : users'[r][v] = IF v \in G THEN None ELSE users[r][v],
         User # {}
  PROVE  [Life!Next]_(Life!vars)
<1>1. queued \in [Conn -> Nat]
  BY CoreTypes
<1>2. \A t \in Conn \ {r} : LifeOf(t)' = LifeOf(t) /\ PresentIn(t)' = PresentIn(t)
  BY DEF LifeOf, PresentIn, Members
<1>3. CASE r \in rdpRooms
  <2>1. r \in Conn
    BY <1>3, CoreTypes
  <2>2. LifeOf(r) = "open" /\ LifeOf(r)' = "open" /\ PresentIn(r)' = PresentIn(r) \ G
    BY <1>3, <2>1 DEF LifeOf, PresentIn, Members
  <2>3. PICK u : u \in User
    OBVIOUS
  <2>4. Life!Next
    BY <1>1, <1>2, <2>1, <2>2, <2>3, LifeActions
  <2> QED
    BY <2>4
<1>4. CASE r \notin rdpRooms
  BY <1>2, <1>4, LifeStutters DEF PresentIn
<1> QED
  BY <1>3, <1>4

(* A reader's step is that of the users it takes out, or nothing. *)
LEMMA ReaderGoes ==
  ASSUME SessionInv, NEW c \in Conn, ReaderStep(c) \/ ReaderReceives(c)
  PROVE  [Life!Next]_(Life!vars)
<1> DEFINE r == cmd[c].room
<1>0. /\ TypeOK /\ users \in [Conn -> [User -> Conn \cup {None}]]
      /\ UNCHANGED <<rdpRooms, queued>> /\ User # {}
  BY ReaderEffect, CoreTypes DEF SessionInv
<1>1. CASE UNCHANGED users
  BY <1>0, <1>1, LifeStutters DEF PresentIn, Members
<1>2. CASE Remove(c)
  <2>1. users' = [users EXCEPT ![r][cmd[c].user] = None]
    BY <1>2 DEF Remove, RemoveUser
  <2> DEFINE u == cmd[c].user
             G == {u} \cap User
  <2> HIDE DEF r, u
  <2>2. \A t \in Conn \ {r} : users'[t] = users[t]
    BY <1>0, <2>1 DEF u
  <2>3. r \in Conn => \A v \in User : users'[r][v] = IF v \in G THEN None ELSE users[r][v]
    BY <1>0, <2>1 DEF u
  <2> QED
    BY <1>0, <2>2, <2>3, TakenOutGo
<1>3. CASE Stop(c)
  <2> DEFINE G == User \ {creator[r]}
  <2>1. users' = [users EXCEPT ![r] =
                    [u \in User |-> IF u = creator[r] THEN users[r][u] ELSE None]]
    BY <1>3 DEF Stop, StopShare
  <2> HIDE DEF r
  <2>2. \A t \in Conn \ {r} : users'[t] = users[t]
    BY <1>0, <2>1
  <2>3. r \in Conn => \A v \in User : users'[r][v] = IF v \in G THEN None ELSE users[r][v]
    BY <1>0, <2>1
  <2> QED
    BY <1>0, <2>2, <2>3, TakenOutGo
<1> QED
  BY <1>1, <1>2, <1>3 DEF ReaderReceives, Receive, ReaderStep, CommandStep, Share, AddInvitee,
     ShareRdpSession, RemoveInvitee, SetClient, SetInvitee

(* closeRoom closes the session and hands its recording over: a handler     *)
(* that got there has session data.                                         *)
LEMMA CloseIsClose ==
  ASSUME SessionInv, NEW c \in Conn, LeaveClose(c)
  PROVE  Life!Next
<1>0. PICK r : r = RoomOf(c)
  OBVIOUS
<1>1. pc[c] = "close" /\ rdpRooms' = rdpRooms \ {r} /\ users' = users
  BY <1>0 DEF LeaveClose, closeRoom
<1>2. r \in rdpRooms /\ ses[c]
  BY <1>0, <1>1 DEF SessionInv, LockInv
<1>3. r \in sessionData
  BY <1>0, <1>1, <1>2 DEF SessionInv, DataStays, Attached
<1>4. queued' = [queued EXCEPT ![r] = queued[r] + 1]
  BY <1>0, <1>3 DEF LeaveClose, closeRoom
<1>5. queued \in [Conn -> Nat] /\ r \in Conn /\ userId[c] \in User
  BY <1>2, CoreTypes DEF SessionInv
<1>6. LifeOf(r) = "open" /\ LifeOf(r)' = "closed" /\ PresentIn(r)' = {}
  BY <1>1, <1>2, <1>4, <1>5 DEF LifeOf, PresentIn
<1>7. \A t \in Conn \ {r} : LifeOf(t)' = LifeOf(t) /\ PresentIn(t)' = PresentIn(t)
  BY <1>1, <1>4, <1>5 DEF LifeOf, PresentIn, Members
<1> QED
  BY <1>4, <1>5, <1>6, <1>7, LifeActions

(* A restart forgets the open sessions, which were not recorded, and no     *)
(* other.                                                                   *)
LEMMA EndIsRestart ==
  ASSUME SessionInv, ProcessEnds
  PROVE  Life!Next
<1>1. rdpRooms' = {} /\ queued' = queued
  BY EndEffect
<1>2. \A s \in rdpRooms : queued[s] = 0
  BY CoreTypes DEF SessionInv, KnownRooms, QueuedOnce, RecordedOnce
<1>3. \A s \in Conn : /\ LifeOf(s)' = IF LifeOf(s) = "open" THEN "none" ELSE LifeOf(s)
                      /\ PresentIn(s)' = {}
  BY <1>1, <1>2 DEF LifeOf, PresentIn
<1>4. /\ lifeBar' = [s \in Conn |-> IF lifeBar[s] = "open" THEN "none" ELSE lifeBar[s]]
      /\ presentBar' = [s \in Conn |-> {}]
  BY <1>3 DEF lifeBar, presentBar
<1>5. Life!Restart <=>
         /\ lifeBar' = [s \in Conn |-> IF lifeBar[s] = "open" THEN "none" ELSE lifeBar[s]]
         /\ presentBar' = [s \in Conn |-> {}]
         /\ UNCHANGED queued
  BY DEF Life!Restart, lifeBar, presentBar, LifeOf, PresentIn
<1> QED
  BY <1>1, <1>4, <1>5 DEF Life!Next

(* Every step of the gateway is a step of SessionLife or stutters. *)
LEMMA LifeStep ==
  ASSUME SessionInv, [Next]_vars
  PROVE  [Life!Next]_(Life!vars)
<1>1. CASE UNCHANGED <<rdpRooms, users, queued>>
  BY <1>1, LifeStutters DEF PresentIn, Members
<1>2. ASSUME NEW c \in Conn, OpenRoom(c) \/ Join(c) \/ LeaveClose(c)
      PROVE  [Life!Next]_(Life!vars)
  BY <1>2, OpenIsOpen, JoinEnters, CloseIsClose
<1>3. ASSUME NEW c \in Conn, Leave(c) PROVE [Life!Next]_(Life!vars)
  <2>0. PICK r : r = RoomOf(c)
    OBVIOUS
  <2> DEFINE G == {userId[c]}
  <2>1. users' = [users EXCEPT ![r][userId[c]] = None] /\ UNCHANGED <<rdpRooms, queued>>
    BY <1>3, <2>0 DEF Leave, LeaveRoom, leave
  <2>2. TypeOK /\ users \in [Conn -> [User -> Conn \cup {None}]] /\ userId[c] \in User
    BY CoreTypes DEF SessionInv
  <2>3. \A t \in Conn \ {r} : users'[t] = users[t]
    BY <2>1, <2>2
  <2>4. r \in Conn => \A v \in User : users'[r][v] = IF v \in G THEN None ELSE users[r][v]
    BY <2>1, <2>2
  <2>5. G \in SUBSET User /\ User # {}
    BY <2>2
  <2> HIDE DEF G
  <2> QED
    BY <2>1, <2>2, <2>3, <2>4, <2>5, TakenOutGo
<1>4. ASSUME NEW c \in Conn, ReaderStep(c) \/ ReaderReceives(c) PROVE [Life!Next]_(Life!vars)
  BY <1>4, ReaderGoes
<1>5. ASSUME ProcessEnds PROVE [Life!Next]_(Life!vars)
  BY <1>5, EndIsRestart
<1> QED
  BY <1>1, <1>2, <1>3, <1>4, <1>5
  DEF Next, ArriveHost, ArriveShare, ArriveRefused, HandlerStep, AuthShareRoom, Launch, Lookup,
      Attach, ConnectError, ConnectedOwner, ConnectedGuest, JoinError, LeaveScan, Cleanup,
      StreamEnd, LeaveError, SessionPanic, Disconnect, StopCrash, Crash, Quiet

(* The gateway implements SessionLife: each session is opened once, entered *)
(* only while it is open, closed for good, and recorded by the step that    *)
(* closes it.                                                               *)
THEOREM KeepsSessionLife == Spec => SessionLifeKept
<1>1. Init => Life!Init
  BY DEF Init, RoomsInit, Life!Init
<1>2. SessionInv /\ [Next]_vars => [Life!Next]_(Life!vars)
  BY LifeStep
<1> QED
  BY <1>1, <1>2, SessionCorrect, PTL DEF Spec, SessionLifeKept, Life!Spec
=============================================================================
