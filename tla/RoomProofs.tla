----------------------------- MODULE RoomProofs -----------------------------
(***************************************************************************)
(* Proofs about what happens inside a room: who is invited, who may stop   *)
(* sharing, that a room is closed without its host, and that an open       *)
(* websocket stays listed where commands and closeRoom reach it; that the  *)
(* session of an open room is announced while the stores answer, and that  *)
(* the limit of invitees holds as long as nobody sets permissions.         *)
(***************************************************************************)
EXTENDS SessionProofs

USE DEF vars, roomVars, storeVars, localVars, gauges, Move, At, Finish, Goto, Return, Proceed

-----------------------------------------------------------------------------
(* The inductive invariant, on top of SessionInv. *)

(* Members belong to rooms that were opened and to handlers that started. *)
MembersKnown ==
    \A r \in Conn, u \in User :
       users[r][u] # None => creator[r] # None /\ pc[users[r][u]] # "idle"

(* What a command under way was accepted for still holds of its room. *)
CommandsChecked ==
    \A c \in Conn :
       LET k == cmd[c] IN
       /\ k.step = "remove" => k.room \in Conn /\ creator[k.room] \notin {None, k.user}
       /\ k.step = "stop" => k.room \in Conn /\ creator[k.room] = userId[c]

(* Only the host of a session has the role of its admin. *)
AdminIsHost ==
    \A c \in Conn :
       (pc[c] \in {"stream", "scan", "close", "cleanup"} /\ role[c] = "admin") =>
          creator[RoomOf(c)] = userId[c]

RoomInv ==
    /\ SessionInv
    /\ MembersKnown
    /\ ClosedRoomDisconnects
    /\ CommandsChecked
    /\ AdminIsHost
    /\ CreatorInvited

-----------------------------------------------------------------------------
(* The types the proofs below use. *)
LEMMA RoomTypes ==
  ASSUME TypeOK
  PROVE  /\ invitees \in [Conn -> [User -> {None} \cup Permission]]
         /\ role \in [Conn -> Role]
         /\ open \subseteq Conn
         /\ cmd \in [Conn -> CommandState]
         /\ \A p \in Permission : p # None
  BY NoneAssumption DEF TypeOK, RoomsTypeOK, CommandsTypeOK

(* A reader in a command moves to a step that needs no check any more. *)
LEMMA CommandEffect ==
  ASSUME TypeOK, NEW c \in Conn, CommandStep(c)
  PROVE  /\ cmd'[c].step \notin {"remove", "stop"}
         /\ \A d \in Conn \ {c} : cmd'[d] = cmd[d]
<1>0. cmd \in [Conn -> CommandState]
  BY RoomTypes
<1>1. \/ \E s \in Step \ {"remove", "stop"} : Goto(c, s)
      \/ Finish(c)
  <2>1. CASE Share(c)
    BY <2>1 DEF Share, Step
  <2>2. CASE ShareRdpSession(c)
    BY <2>2 DEF ShareRdpSession
  <2>3. CASE Remove(c)
    BY <2>3 DEF Remove, Step
  <2>4. CASE RemoveInvitee(c)
    BY <2>4 DEF RemoveInvitee
  <2>5. CASE SetClient(c)
    BY <2>5 DEF SetClient, Step
  <2>6. CASE SetInvitee(c)
    BY <2>6 DEF SetInvitee, Step
  <2>7. CASE Stop(c)
    BY <2>7 DEF Stop
  <2> QED
    BY <2>1, <2>2, <2>3, <2>4, <2>5, <2>6, <2>7 DEF CommandStep
<1>2. ASSUME NEW s \in Step \ {"remove", "stop"}, Goto(c, s)
      PROVE  cmd'[c].step \notin {"remove", "stop"} /\ \A d \in Conn \ {c} : cmd'[d] = cmd[d]
  <2>1. cmd' = [cmd EXCEPT ![c] = [cmd[c] EXCEPT !.step = s]]
    BY <1>2
  <2>2. [cmd[c] EXCEPT !.step = s].step = s
    BY <1>0 DEF CommandState
  <2> QED
    BY <1>0, <2>1, <2>2
<1>3. CASE Finish(c)
  BY <1>0, <1>3 DEF NoCommand
<1> QED
  BY <1>1, <1>2, <1>3

(* A reader goroutine closes websockets, it opens none. *)
LEMMA ReaderCloses ==
  ASSUME NEW c \in Conn, ReaderStep(c) \/ ReaderReceives(c)
  PROVE  open' \subseteq open
<1>1. CASE ReaderReceives(c)
  BY <1>1 DEF ReaderReceives, Receive
<1>2. CASE Share(c)
  BY <1>2 DEF Share, AddInvitee
<1>3. CASE ShareRdpSession(c)
  BY <1>3 DEF ShareRdpSession
<1>4. CASE Remove(c)
  BY <1>4 DEF Remove, RemoveUser
<1>5. CASE RemoveInvitee(c)
  BY <1>5 DEF RemoveInvitee
<1>6. CASE SetClient(c)
  BY <1>6 DEF SetClient
<1>7. CASE SetInvitee(c)
  BY <1>7 DEF SetInvitee
<1>8. CASE Stop(c)
  BY <1>8 DEF Stop, StopShare
<1> QED
  BY <1>1, <1>2, <1>3, <1>4, <1>5, <1>6, <1>7, <1>8 DEF ReaderStep, CommandStep

(* A reader goroutine gives nobody the role of the host. *)
LEMMA ReaderRoles ==
  ASSUME TypeOK, NEW c \in Conn, ReaderStep(c) \/ ReaderReceives(c)
  PROVE  \A x \in Conn : role'[x] = role[x] \/ role'[x] # "admin"
<1>1. CASE ReaderReceives(c)
  BY <1>1 DEF ReaderReceives, Receive
<1>2. CASE Share(c)
  BY <1>2 DEF Share, AddInvitee
<1>3. CASE ShareRdpSession(c)
  BY <1>3 DEF ShareRdpSession
<1>4. CASE Remove(c)
  BY <1>4 DEF Remove, RemoveUser
<1>5. CASE RemoveInvitee(c)
  BY <1>5 DEF RemoveInvitee
<1>6. CASE SetClient(c)
  BY <1>6 DEF SetClient, GuestRole
<1>7. CASE SetInvitee(c)
  BY <1>7 DEF SetInvitee
<1>8. CASE Stop(c)
  BY <1>8 DEF Stop, StopShare
<1> QED
  BY <1>1, <1>2, <1>3, <1>4, <1>5, <1>6, <1>7, <1>8 DEF ReaderStep, CommandStep

-----------------------------------------------------------------------------
(* The parts are preserved, one step per action. *)

(* Members stay known. *)
LEMMA MembersKnownStep ==
  ASSUME TypeOK, KnownRooms, MembersKnown, [Next]_vars
  PROVE  MembersKnown'
<1>1. ASSUME NEW c \in Conn, ArriveHost(c) PROVE MembersKnown'
  BY <1>1, CoreTypes, RoomTypes DEF ArriveHost, GetRoomByAppIdAndCreator, KnownRooms, MembersKnown
<1>2. ASSUME NEW c \in Conn, NEW q \in Conn, ArriveShare(c, q) PROVE MembersKnown'
  BY <1>2, CoreTypes, RoomTypes DEF ArriveShare, KnownRooms, MembersKnown
<1>3. ASSUME NEW c \in Conn, NEW q \in Conn, ArriveRefused(c, q) PROVE MembersKnown'
  BY <1>3, CoreTypes, RoomTypes DEF ArriveRefused, KnownRooms, MembersKnown
<1>4. ASSUME NEW c \in Conn, AuthShareRoom(c) PROVE MembersKnown'
  <2>1. CASE share[c] \in rdpRooms /\ Proceed(c, "connect")
    BY <1>4, <2>1, CoreTypes, RoomTypes DEF AuthShareRoom, MembersKnown
  <2>2. CASE Return(c)
    BY <1>4, <2>2, CoreTypes, RoomTypes DEF AuthShareRoom, MembersKnown
  <2> QED
    BY <1>4, <2>1, <2>2 DEF AuthShareRoom
<1>5. ASSUME NEW c \in Conn, Launch(c) PROVE MembersKnown'
  BY <1>5, CoreTypes, RoomTypes DEF Launch, KnownRooms, MembersKnown
<1>6. ASSUME NEW c \in Conn, Lookup(c) PROVE MembersKnown'
  BY <1>6, CoreTypes, RoomTypes DEF Lookup, KnownRooms, MembersKnown
<1>7. ASSUME NEW c \in Conn, Attach(c) PROVE MembersKnown'
  <2>1. CASE Move(c, "dial") /\ UNCHANGED <<open, share, perms, ses>>
    BY <1>7, <2>1, CoreTypes, RoomTypes DEF Attach, MembersKnown
  <2>2. CASE Return(c)
    BY <1>7, <2>2, CoreTypes, RoomTypes DEF Attach, MembersKnown
  <2> QED
    BY <1>7, <2>1, <2>2 DEF Attach
<1>8. ASSUME NEW c \in Conn, ConnectError(c) PROVE MembersKnown'
  BY <1>8, CoreTypes, RoomTypes DEF ConnectError, KnownRooms, MembersKnown
<1>9. ASSUME NEW c \in Conn, ConnectedOwner(c) PROVE MembersKnown'
  BY <1>9, CoreTypes, RoomTypes DEF ConnectedOwner, KnownRooms, MembersKnown
<1>10. ASSUME NEW c \in Conn, OpenRoom(c) PROVE MembersKnown'
  BY <1>10, CoreTypes, RoomTypes DEF OpenRoom, NewRdpSessionRoom, KnownRooms, MembersKnown
<1>11. ASSUME NEW c \in Conn, ConnectedGuest(c) PROVE MembersKnown'
  BY <1>11, CoreTypes, RoomTypes DEF ConnectedGuest, KnownRooms, MembersKnown
<1>12. ASSUME NEW c \in Conn, Join(c) PROVE MembersKnown'
  BY <1>12, CoreTypes, RoomTypes DEF Join, JoinRoom, join, KnownRooms, MembersKnown
<1>13. ASSUME NEW c \in Conn, JoinError(c) PROVE MembersKnown'
  BY <1>13, CoreTypes, RoomTypes DEF JoinError, JoinRoomError, KnownRooms, MembersKnown
<1>14. ASSUME NEW c \in Conn, SessionPanic(c) PROVE MembersKnown'
  BY <1>14, CoreTypes, RoomTypes DEF SessionPanic, KnownRooms, MembersKnown
<1>15. ASSUME NEW c \in Conn, Leave(c) PROVE MembersKnown'
  BY <1>15, CoreTypes, RoomTypes DEF Leave, LeaveRoom, leave, KnownRooms, MembersKnown
<1>16. ASSUME NEW c \in Conn, LeaveError(c) PROVE MembersKnown'
  BY <1>16, CoreTypes, RoomTypes DEF LeaveError, KnownRooms, MembersKnown
<1>17. ASSUME NEW c \in Conn, LeaveScan(c) PROVE MembersKnown'
  BY <1>17, CoreTypes, RoomTypes DEF LeaveScan, HasAdmin, KnownRooms, MembersKnown
<1>18. ASSUME NEW c \in Conn, LeaveClose(c) PROVE MembersKnown'
  BY <1>18, CoreTypes, RoomTypes DEF LeaveClose, closeRoom, KnownRooms, MembersKnown
<1>19. ASSUME NEW c \in Conn, Cleanup(c) PROVE MembersKnown'
  BY <1>19, CoreTypes, RoomTypes DEF Cleanup, KnownRooms, MembersKnown
<1>20. ASSUME NEW c \in Conn, Disconnect(c) PROVE MembersKnown'
  BY <1>20, CoreTypes, RoomTypes DEF Disconnect, KnownRooms, MembersKnown
<1>21. ASSUME NEW c \in Conn, ReaderStep(c) \/ ReaderReceives(c) PROVE MembersKnown'
  BY <1>21, ReaderEffect, CoreTypes, RoomTypes DEF KnownRooms, MembersKnown
<1>22. ASSUME ProcessEnds PROVE MembersKnown'
  <2>1. users' = [s \in Conn |-> [u \in User |-> None]]
    BY <1>22 DEF ProcessEnds
  <2> QED
    BY <2>1 DEF MembersKnown
<1>23. CASE UNCHANGED vars
  BY <1>23 DEF MembersKnown
<1> QED
  BY <1>1, <1>2, <1>3, <1>4, <1>5, <1>6, <1>7, <1>8, <1>9, <1>10, <1>11, <1>12, <1>13,
     <1>14, <1>15, <1>16, <1>17, <1>18, <1>19, <1>20, <1>21, <1>22, <1>23
  DEF Next, HandlerStep, StreamEnd, StopCrash, Crash, Quiet

(* Whoever is left in a closed room stays disconnected. *)
LEMMA ClosedStep ==
  ASSUME TypeOK, MembersKnown, ClosedRoomDisconnects, [Next]_vars
  PROVE  ClosedRoomDisconnects'
<1>1. ASSUME NEW c \in Conn, ArriveHost(c) PROVE ClosedRoomDisconnects'
  BY <1>1, CoreTypes, RoomTypes DEF ArriveHost, GetRoomByAppIdAndCreator, MembersKnown,
     ClosedRoomDisconnects
<1>2. ASSUME NEW c \in Conn, NEW q \in Conn, ArriveShare(c, q) PROVE ClosedRoomDisconnects'
  BY <1>2, CoreTypes, RoomTypes DEF ArriveShare, MembersKnown, ClosedRoomDisconnects
<1>3. ASSUME NEW c \in Conn, NEW q \in Conn, ArriveRefused(c, q) PROVE ClosedRoomDisconnects'
  BY <1>3, CoreTypes, RoomTypes DEF ArriveRefused, MembersKnown, ClosedRoomDisconnects
<1>4. ASSUME NEW c \in Conn, AuthShareRoom(c) PROVE ClosedRoomDisconnects'
  <2>1. CASE share[c] \in rdpRooms /\ Proceed(c, "connect")
    BY <1>4, <2>1, CoreTypes, RoomTypes DEF AuthShareRoom, MembersKnown, ClosedRoomDisconnects
  <2>2. CASE Return(c)
    BY <1>4, <2>2, CoreTypes, RoomTypes DEF AuthShareRoom, MembersKnown, ClosedRoomDisconnects
  <2> QED
    BY <1>4, <2>1, <2>2 DEF AuthShareRoom
<1>5. ASSUME NEW c \in Conn, Launch(c) PROVE ClosedRoomDisconnects'
  BY <1>5, CoreTypes, RoomTypes DEF Launch, MembersKnown, ClosedRoomDisconnects
<1>6. ASSUME NEW c \in Conn, Lookup(c) PROVE ClosedRoomDisconnects'
  BY <1>6, CoreTypes, RoomTypes DEF Lookup, MembersKnown, ClosedRoomDisconnects
<1>7. ASSUME NEW c \in Conn, Attach(c) PROVE ClosedRoomDisconnects'
  <2>1. CASE Move(c, "dial") /\ UNCHANGED <<open, share, perms, ses>>
    BY <1>7, <2>1, CoreTypes, RoomTypes DEF Attach, MembersKnown, ClosedRoomDisconnects
  <2>2. CASE Return(c)
    BY <1>7, <2>2, CoreTypes, RoomTypes DEF Attach, MembersKnown, ClosedRoomDisconnects
  <2> QED
    BY <1>7, <2>1, <2>2 DEF Attach
<1>8. ASSUME NEW c \in Conn, ConnectError(c) PROVE ClosedRoomDisconnects'
  BY <1>8, CoreTypes, RoomTypes DEF ConnectError, MembersKnown, ClosedRoomDisconnects
<1>9. ASSUME NEW c \in Conn, ConnectedOwner(c) PROVE ClosedRoomDisconnects'
  BY <1>9, CoreTypes, RoomTypes DEF ConnectedOwner, MembersKnown, ClosedRoomDisconnects
<1>10. ASSUME NEW c \in Conn, OpenRoom(c) PROVE ClosedRoomDisconnects'
  BY <1>10, CoreTypes, RoomTypes DEF OpenRoom, NewRdpSessionRoom, MembersKnown,
     ClosedRoomDisconnects
<1>11. ASSUME NEW c \in Conn, ConnectedGuest(c) PROVE ClosedRoomDisconnects'
  BY <1>11, CoreTypes, RoomTypes DEF ConnectedGuest, MembersKnown, ClosedRoomDisconnects
<1>12. ASSUME NEW c \in Conn, Join(c) PROVE ClosedRoomDisconnects'
  BY <1>12, CoreTypes, RoomTypes DEF Join, JoinRoom, join, MembersKnown, ClosedRoomDisconnects
<1>13. ASSUME NEW c \in Conn, JoinError(c) PROVE ClosedRoomDisconnects'
  BY <1>13, CoreTypes, RoomTypes DEF JoinError, JoinRoomError, MembersKnown, ClosedRoomDisconnects
<1>14. ASSUME NEW c \in Conn, SessionPanic(c) PROVE ClosedRoomDisconnects'
  BY <1>14, CoreTypes, RoomTypes DEF SessionPanic, MembersKnown, ClosedRoomDisconnects
<1>15. ASSUME NEW c \in Conn, Leave(c) PROVE ClosedRoomDisconnects'
  BY <1>15, CoreTypes, RoomTypes DEF Leave, LeaveRoom, leave, MembersKnown, ClosedRoomDisconnects
<1>16. ASSUME NEW c \in Conn, LeaveError(c) PROVE ClosedRoomDisconnects'
  BY <1>16, CoreTypes, RoomTypes DEF LeaveError, MembersKnown, ClosedRoomDisconnects
<1>17. ASSUME NEW c \in Conn, LeaveScan(c) PROVE ClosedRoomDisconnects'
  BY <1>17, CoreTypes, RoomTypes DEF LeaveScan, HasAdmin, MembersKnown, ClosedRoomDisconnects
<1>18. ASSUME NEW c \in Conn, LeaveClose(c) PROVE ClosedRoomDisconnects'
  BY <1>18, CoreTypes, RoomTypes DEF LeaveClose, closeRoom, MembersKnown, ClosedRoomDisconnects
<1>19. ASSUME NEW c \in Conn, Cleanup(c) PROVE ClosedRoomDisconnects'
  BY <1>19, CoreTypes, RoomTypes DEF Cleanup, MembersKnown, ClosedRoomDisconnects
<1>20. ASSUME NEW c \in Conn, Disconnect(c) PROVE ClosedRoomDisconnects'
  BY <1>20, CoreTypes, RoomTypes DEF Disconnect, MembersKnown, ClosedRoomDisconnects
<1>21. ASSUME NEW c \in Conn, ReaderStep(c) \/ ReaderReceives(c) PROVE ClosedRoomDisconnects'
  BY <1>21, ReaderEffect, ReaderCloses, CoreTypes, RoomTypes DEF ClosedRoomDisconnects
<1>22. ASSUME ProcessEnds PROVE ClosedRoomDisconnects'
  <2>1. open' = {}
    BY <1>22 DEF ProcessEnds
  <2> QED
    BY <2>1 DEF ClosedRoomDisconnects
<1>23. CASE UNCHANGED vars
  BY <1>23 DEF ClosedRoomDisconnects
<1> QED
  BY <1>1, <1>2, <1>3, <1>4, <1>5, <1>6, <1>7, <1>8, <1>9, <1>10, <1>11, <1>12, <1>13,
     <1>14, <1>15, <1>16, <1>17, <1>18, <1>19, <1>20, <1>21, <1>22, <1>23
  DEF Next, HandlerStep, StreamEnd, StopCrash, Crash, Quiet

(* Commands under way stay checked. *)
LEMMA CommandsStep ==
  ASSUME TypeOK, KnownRooms, AdminIsHost, CommandsChecked, [Next]_vars
  PROVE  CommandsChecked'
<1>1. ASSUME NEW c \in Conn, ArriveHost(c) PROVE CommandsChecked'
  BY <1>1, CoreTypes, RoomTypes DEF ArriveHost, GetRoomByAppIdAndCreator, CommandsChecked
<1>2. ASSUME NEW c \in Conn, NEW q \in Conn, ArriveShare(c, q) PROVE CommandsChecked'
  BY <1>2, CoreTypes, RoomTypes DEF ArriveShare, CommandsChecked
<1>3. ASSUME NEW c \in Conn, NEW q \in Conn, ArriveRefused(c, q) PROVE CommandsChecked'
  BY <1>3, CoreTypes, RoomTypes DEF ArriveRefused, CommandsChecked
<1>4. ASSUME NEW c \in Conn, AuthShareRoom(c) PROVE CommandsChecked'
  <2>1. CASE share[c] \in rdpRooms /\ Proceed(c, "connect")
    BY <1>4, <2>1, CoreTypes, RoomTypes DEF AuthShareRoom, CommandsChecked
  <2>2. CASE Return(c)
    BY <1>4, <2>2, CoreTypes, RoomTypes DEF AuthShareRoom, CommandsChecked
  <2> QED
    BY <1>4, <2>1, <2>2 DEF AuthShareRoom
<1>5. ASSUME NEW c \in Conn, Launch(c) PROVE CommandsChecked'
  BY <1>5, CoreTypes, RoomTypes DEF Launch, CommandsChecked
<1>6. ASSUME NEW c \in Conn, Lookup(c) PROVE CommandsChecked'
  BY <1>6, CoreTypes, RoomTypes DEF Lookup, CommandsChecked
<1>7. ASSUME NEW c \in Conn, Attach(c) PROVE CommandsChecked'
  <2>1. CASE Move(c, "dial") /\ UNCHANGED <<open, share, perms, ses>>
    BY <1>7, <2>1, CoreTypes, RoomTypes DEF Attach, CommandsChecked
  <2>2. CASE Return(c)
    BY <1>7, <2>2, CoreTypes, RoomTypes DEF Attach, CommandsChecked
  <2> QED
    BY <1>7, <2>1, <2>2 DEF Attach
<1>8. ASSUME NEW c \in Conn, ConnectError(c) PROVE CommandsChecked'
  BY <1>8, CoreTypes, RoomTypes DEF ConnectError, CommandsChecked
<1>9. ASSUME NEW c \in Conn, ConnectedOwner(c) PROVE CommandsChecked'
  BY <1>9, CoreTypes, RoomTypes DEF ConnectedOwner, CommandsChecked
<1>10. ASSUME NEW c \in Conn, OpenRoom(c) PROVE CommandsChecked'
  BY <1>10, CoreTypes, RoomTypes DEF OpenRoom, NewRdpSessionRoom, KnownRooms, Before,
     CommandsChecked
<1>11. ASSUME NEW c \in Conn, ConnectedGuest(c) PROVE CommandsChecked'
  BY <1>11, CoreTypes, RoomTypes DEF ConnectedGuest, CommandsChecked
<1>12. ASSUME NEW c \in Conn, Join(c) PROVE CommandsChecked'
  BY <1>12, CoreTypes, RoomTypes DEF Join, JoinRoom, join, CommandsChecked
<1>13. ASSUME NEW c \in Conn, JoinError(c) PROVE CommandsChecked'
  BY <1>13, CoreTypes, RoomTypes DEF JoinError, JoinRoomError, CommandsChecked
<1>14. ASSUME NEW c \in Conn, SessionPanic(c) PROVE CommandsChecked'
  BY <1>14, CoreTypes, RoomTypes DEF SessionPanic, CommandsChecked
<1>15. ASSUME NEW c \in Conn, Leave(c) PROVE CommandsChecked'
  BY <1>15, CoreTypes, RoomTypes DEF Leave, LeaveRoom, leave, CommandsChecked
<1>16. ASSUME NEW c \in Conn, LeaveError(c) PROVE CommandsChecked'
  BY <1>16, CoreTypes, RoomTypes DEF LeaveError, CommandsChecked
<1>17. ASSUME NEW c \in Conn, LeaveScan(c) PROVE CommandsChecked'
  BY <1>17, CoreTypes, RoomTypes DEF LeaveScan, HasAdmin, CommandsChecked
<1>18. ASSUME NEW c \in Conn, LeaveClose(c) PROVE CommandsChecked'
  BY <1>18, CoreTypes, RoomTypes DEF LeaveClose, closeRoom, CommandsChecked
<1>19. ASSUME NEW c \in Conn, Cleanup(c) PROVE CommandsChecked'
  BY <1>19, CoreTypes, RoomTypes DEF Cleanup, CommandsChecked
<1>20. ASSUME NEW c \in Conn, Disconnect(c) PROVE CommandsChecked'
  BY <1>20, CoreTypes, RoomTypes DEF Disconnect, CommandsChecked
<1>21. ASSUME NEW c \in Conn, ReaderStep(c) \/ ReaderReceives(c) PROVE CommandsChecked'
  <2>1. creator' = creator
    BY <1>21, ReaderEffect
  <2>2. CASE ReaderStep(c)
    BY <2>1, <2>2, CommandEffect DEF ReaderStep, CommandsChecked
  <2>3. CASE ReaderReceives(c)
    <3> DEFINE r == RoomOf(c)
    <3>1. PICK op \in Command[c], u \in Named, p \in Permission :
             /\ Accepts(c, r, op, u)
             /\ cmd' = [cmd EXCEPT ![c] =
                   [step |-> op, room |-> r,
                    user |-> IF op = "stop" THEN None ELSE u,
                    perm |-> IF op \in {"share", "perm"} THEN p ELSE {}]]
      BY <2>3, CommandAssumption DEF ReaderReceives, Receive
    <3>2. cmd'[c].step = op /\ cmd'[c].room = r /\ (op # "stop" => cmd'[c].user = u)
      BY <3>1, RoomTypes
    <3>3. \A d \in Conn \ {c} : cmd'[d] = cmd[d]
      BY <3>1, RoomTypes
    <3>4. op = "remove" => r \in Conn /\ creator[r] \notin {None, u}
      BY <3>1, CoreTypes DEF Accepts, MayRemove, KnownRooms
    <3>5. op = "stop" => r \in Conn /\ creator[r] = userId[c]
      <4>1. pc[c] \in {"stream", "scan", "close", "cleanup"}
        BY <2>3 DEF ReaderReceives
      <4>2. op = "stop" => r \in rdpRooms /\ role[c] = "admin"
        BY <3>1 DEF Accepts, MayStopShare
      <4> QED
        BY <4>1, <4>2, CoreTypes DEF AdminIsHost
    <3> QED
      BY <2>1, <3>2, <3>3, <3>4, <3>5 DEF CommandsChecked
  <2> QED
    BY <1>21, <2>2, <2>3
<1>22. ASSUME ProcessEnds PROVE CommandsChecked'
  <2>1. cmd' = [c \in Conn |-> NoCommand]
    BY <1>22 DEF ProcessEnds
  <2> QED
    BY <2>1 DEF CommandsChecked, NoCommand
<1>23. CASE UNCHANGED vars
  BY <1>23 DEF CommandsChecked
<1> QED
  BY <1>1, <1>2, <1>3, <1>4, <1>5, <1>6, <1>7, <1>8, <1>9, <1>10, <1>11, <1>12, <1>13,
     <1>14, <1>15, <1>16, <1>17, <1>18, <1>19, <1>20, <1>21, <1>22, <1>23
  DEF Next, HandlerStep, StreamEnd, StopCrash, Crash, Quiet

(* The role of the admin stays with the host. *)
LEMMA AdminStep ==
  ASSUME TypeOK, KnownRooms, ShareDecided, AdminIsHost, [Next]_vars
  PROVE  AdminIsHost'
<1>1. ASSUME NEW c \in Conn, ArriveHost(c) PROVE AdminIsHost'
  BY <1>1, CoreTypes, RoomTypes DEF ArriveHost, GetRoomByAppIdAndCreator, AdminIsHost, RoomOf
<1>2. ASSUME NEW c \in Conn, NEW q \in Conn, ArriveShare(c, q) PROVE AdminIsHost'
  BY <1>2, CoreTypes, RoomTypes DEF ArriveShare, AdminIsHost, RoomOf
<1>3. ASSUME NEW c \in Conn, NEW q \in Conn, ArriveRefused(c, q) PROVE AdminIsHost'
  BY <1>3, CoreTypes, RoomTypes DEF ArriveRefused, AdminIsHost, RoomOf
<1>4. ASSUME NEW c \in Conn, AuthShareRoom(c) PROVE AdminIsHost'
  <2>1. CASE share[c] \in rdpRooms /\ Proceed(c, "connect")
    BY <1>4, <2>1, CoreTypes, RoomTypes DEF AuthShareRoom, AdminIsHost, RoomOf
  <2>2. CASE Return(c)
    BY <1>4, <2>2, CoreTypes, RoomTypes DEF AuthShareRoom, AdminIsHost, RoomOf
  <2> QED
    BY <1>4, <2>1, <2>2 DEF AuthShareRoom
<1>5. ASSUME NEW c \in Conn, Launch(c) PROVE AdminIsHost'
  BY <1>5, CoreTypes, RoomTypes DEF Launch, AdminIsHost, RoomOf
<1>6. ASSUME NEW c \in Conn, Lookup(c) PROVE AdminIsHost'
  BY <1>6, CoreTypes, RoomTypes DEF Lookup, AdminIsHost, RoomOf
<1>7. ASSUME NEW c \in Conn, Attach(c) PROVE AdminIsHost'
  <2>1. CASE Move(c, "dial") /\ UNCHANGED <<open, share, perms, ses>>
    BY <1>7, <2>1, CoreTypes, RoomTypes DEF Attach, AdminIsHost, RoomOf
  <2>2. CASE Return(c)
    BY <1>7, <2>2, CoreTypes, RoomTypes DEF Attach, AdminIsHost, RoomOf
  <2> QED
    BY <1>7, <2>1, <2>2 DEF Attach
<1>8. ASSUME NEW c \in Conn, ConnectError(c) PROVE AdminIsHost'
  BY <1>8, CoreTypes, RoomTypes DEF ConnectError, AdminIsHost, RoomOf
<1>9. ASSUME NEW c \in Conn, ConnectedOwner(c) PROVE AdminIsHost'
  BY <1>9, CoreTypes, RoomTypes DEF ConnectedOwner, AdminIsHost, RoomOf
<1>10. ASSUME NEW c \in Conn, OpenRoom(c) PROVE AdminIsHost'
  BY <1>10, CoreTypes, RoomTypes DEF OpenRoom, NewRdpSessionRoom, KnownRooms, Before,
     ShareDecided, ShareSeen, AdminIsHost, RoomOf
<1>11. ASSUME NEW c \in Conn, ConnectedGuest(c) PROVE AdminIsHost'
  BY <1>11, CoreTypes, RoomTypes DEF ConnectedGuest, AdminIsHost, RoomOf
<1>12. ASSUME NEW c \in Conn, Join(c) PROVE AdminIsHost'
  BY <1>12, CoreTypes, RoomTypes DEF Join, JoinRoom, join, GuestRole, KnownRooms, Before,
     ShareDecided, ShareSeen, AdminIsHost, RoomOf
<1>13. ASSUME NEW c \in Conn, JoinError(c) PROVE AdminIsHost'
  BY <1>13, CoreTypes, RoomTypes DEF JoinError, JoinRoomError, AdminIsHost, RoomOf
<1>14. ASSUME NEW c \in Conn, SessionPanic(c) PROVE AdminIsHost'
  BY <1>14, CoreTypes, RoomTypes DEF SessionPanic, AdminIsHost, RoomOf
<1>15. ASSUME NEW c \in Conn, Leave(c) PROVE AdminIsHost'
  BY <1>15, CoreTypes, RoomTypes DEF Leave, LeaveRoom, leave, AdminIsHost, RoomOf
<1>16. ASSUME NEW c \in Conn, LeaveError(c) PROVE AdminIsHost'
  BY <1>16, CoreTypes, RoomTypes DEF LeaveError, AdminIsHost, RoomOf
<1>17. ASSUME NEW c \in Conn, LeaveScan(c) PROVE AdminIsHost'
  BY <1>17, CoreTypes, RoomTypes DEF LeaveScan, HasAdmin, AdminIsHost, RoomOf
<1>18. ASSUME NEW c \in Conn, LeaveClose(c) PROVE AdminIsHost'
  BY <1>18, CoreTypes, RoomTypes DEF LeaveClose, closeRoom, AdminIsHost, RoomOf
<1>19. ASSUME NEW c \in Conn, Cleanup(c) PROVE AdminIsHost'
  BY <1>19, CoreTypes, RoomTypes DEF Cleanup, AdminIsHost, RoomOf
<1>20. ASSUME NEW c \in Conn, Disconnect(c) PROVE AdminIsHost'
  BY <1>20, CoreTypes, RoomTypes DEF Disconnect, AdminIsHost, RoomOf
<1>21. ASSUME NEW c \in Conn, ReaderStep(c) \/ ReaderReceives(c) PROVE AdminIsHost'
  BY <1>21, ReaderEffect, ReaderRoles DEF AdminIsHost, RoomOf
<1>22. ASSUME ProcessEnds PROVE AdminIsHost'
  BY <1>22, EndEffect, CoreTypes, RoomTypes DEF AdminIsHost, RoomOf
<1>23. CASE UNCHANGED vars
  BY <1>23 DEF AdminIsHost, RoomOf
<1> QED
  BY <1>1, <1>2, <1>3, <1>4, <1>5, <1>6, <1>7, <1>8, <1>9, <1>10, <1>11, <1>12, <1>13,
     <1>14, <1>15, <1>16, <1>17, <1>18, <1>19, <1>20, <1>21, <1>22, <1>23
  DEF Next, HandlerStep, StreamEnd, StopCrash, Crash, Quiet

(* The creator stays invited. *)
LEMMA InvitedStep ==
  ASSUME TypeOK, KnownRooms, CommandsChecked, CreatorInvited, [Next]_vars
  PROVE  CreatorInvited'
<1>1. ASSUME NEW c \in Conn, ArriveHost(c) PROVE CreatorInvited'
  BY <1>1, CoreTypes, RoomTypes DEF ArriveHost, GetRoomByAppIdAndCreator, CreatorInvited
<1>2. ASSUME NEW c \in Conn, NEW q \in Conn, ArriveShare(c, q) PROVE CreatorInvited'
  BY <1>2, CoreTypes, RoomTypes DEF ArriveShare, CreatorInvited
<1>3. ASSUME NEW c \in Conn, NEW q \in Conn, ArriveRefused(c, q) PROVE CreatorInvited'
  BY <1>3, CoreTypes, RoomTypes DEF ArriveRefused, CreatorInvited
<1>4. ASSUME NEW c \in Conn, AuthShareRoom(c) PROVE CreatorInvited'
  <2>1. CASE share[c] \in rdpRooms /\ Proceed(c, "connect")
    BY <1>4, <2>1, CoreTypes, RoomTypes DEF AuthShareRoom, CreatorInvited
  <2>2. CASE Return(c)
    BY <1>4, <2>2, CoreTypes, RoomTypes DEF AuthShareRoom, CreatorInvited
  <2> QED
    BY <1>4, <2>1, <2>2 DEF AuthShareRoom
<1>5. ASSUME NEW c \in Conn, Launch(c) PROVE CreatorInvited'
  BY <1>5, CoreTypes, RoomTypes DEF Launch, CreatorInvited
<1>6. ASSUME NEW c \in Conn, Lookup(c) PROVE CreatorInvited'
  BY <1>6, CoreTypes, RoomTypes DEF Lookup, CreatorInvited
<1>7. ASSUME NEW c \in Conn, Attach(c) PROVE CreatorInvited'
  <2>1. CASE Move(c, "dial") /\ UNCHANGED <<open, share, perms, ses>>
    BY <1>7, <2>1, CoreTypes, RoomTypes DEF Attach, CreatorInvited
  <2>2. CASE Return(c)
    BY <1>7, <2>2, CoreTypes, RoomTypes DEF Attach, CreatorInvited
  <2> QED
    BY <1>7, <2>1, <2>2 DEF Attach
<1>8. ASSUME NEW c \in Conn, ConnectError(c) PROVE CreatorInvited'
  BY <1>8, CoreTypes, RoomTypes DEF ConnectError, CreatorInvited
<1>9. ASSUME NEW c \in Conn, ConnectedOwner(c) PROVE CreatorInvited'
  BY <1>9, CoreTypes, RoomTypes DEF ConnectedOwner, CreatorInvited
<1>10. ASSUME NEW c \in Conn, OpenRoom(c) PROVE CreatorInvited'
  BY <1>10, CoreTypes, RoomTypes DEF OpenRoom, NewRdpSessionRoom, Permission, CreatorInvited
<1>11. ASSUME NEW c \in Conn, ConnectedGuest(c) PROVE CreatorInvited'
  BY <1>11, CoreTypes, RoomTypes DEF ConnectedGuest, CreatorInvited
<1>12. ASSUME NEW c \in Conn, Join(c) PROVE CreatorInvited'
  BY <1>12, CoreTypes, RoomTypes DEF Join, JoinRoom, join, CreatorInvited
<1>13. ASSUME NEW c \in Conn, JoinError(c) PROVE CreatorInvited'
  BY <1>13, CoreTypes, RoomTypes DEF JoinError, JoinRoomError, CreatorInvited
<1>14. ASSUME NEW c \in Conn, SessionPanic(c) PROVE CreatorInvited'
  BY <1>14, CoreTypes, RoomTypes DEF SessionPanic, CreatorInvited
<1>15. ASSUME NEW c \in Conn, Leave(c) PROVE CreatorInvited'
  BY <1>15, CoreTypes, RoomTypes DEF Leave, LeaveRoom, leave, CreatorInvited
<1>16. ASSUME NEW c \in Conn, LeaveError(c) PROVE CreatorInvited'
  BY <1>16, CoreTypes, RoomTypes DEF LeaveError, CreatorInvited
<1>17. ASSUME NEW c \in Conn, LeaveScan(c) PROVE CreatorInvited'
  BY <1>17, CoreTypes, RoomTypes DEF LeaveScan, HasAdmin, CreatorInvited
<1>18. ASSUME NEW c \in Conn, LeaveClose(c) PROVE CreatorInvited'
  BY <1>18, CoreTypes, RoomTypes DEF LeaveClose, closeRoom, CreatorInvited
<1>19. ASSUME NEW c \in Conn, Cleanup(c) PROVE CreatorInvited'
  BY <1>19, CoreTypes, RoomTypes DEF Cleanup, CreatorInvited
<1>20. ASSUME NEW c \in Conn, Disconnect(c) PROVE CreatorInvited'
  BY <1>20, CoreTypes, RoomTypes DEF Disconnect, CreatorInvited
<1>21. ASSUME NEW c \in Conn, ReaderStep(c) \/ ReaderReceives(c) PROVE CreatorInvited'
  <2>0. creator' = creator /\ rdpRooms' = rdpRooms
    BY <1>21, ReaderEffect
  <2>1. CASE ReaderReceives(c)
    BY <2>1 DEF ReaderReceives, Receive, CreatorInvited
  <2>2. CASE Share(c)
    <3> DEFINE k == cmd[c]
    <3>1. \/ invitees' = [invitees EXCEPT ![k.room][k.user] = k.perm]
          \/ invitees' = invitees
      BY <2>2 DEF Share, AddInvitee
    <3>2. k.perm # None
      BY RoomTypes DEF CommandState
    <3> HIDE DEF k
    <3>3. ASSUME NEW r \in rdpRooms PROVE invitees'[r][creator[r]] # None
      <4>1. r \in Conn /\ creator[r] \in User /\ invitees[r][creator[r]] # None
        BY CoreTypes DEF KnownRooms, CreatorInvited
      <4>2. invitees'[r][creator[r]] \in {invitees[r][creator[r]], k.perm}
        BY <3>1, <4>1, RoomTypes
      <4> QED
        BY <3>2, <4>1, <4>2
    <3> QED
      BY <2>0, <3>3 DEF CreatorInvited
  <2>3. CASE ShareRdpSession(c)
    BY <2>3 DEF ShareRdpSession, CreatorInvited
  <2>4. CASE Remove(c)
    BY <2>0, <2>4, CoreTypes, RoomTypes DEF Remove, RemoveUser, CommandsChecked, CreatorInvited
  <2>5. CASE RemoveInvitee(c)
    BY <2>5 DEF RemoveInvitee, CreatorInvited
  <2>6. CASE SetClient(c)
    BY <2>6 DEF SetClient, CreatorInvited
  <2>7. CASE SetInvitee(c)
    BY <2>0, <2>7, CoreTypes, RoomTypes DEF SetInvitee, CommandState, CreatorInvited
  <2>8. CASE Stop(c)
    BY <2>0, <2>8, CoreTypes, RoomTypes DEF Stop, StopShare, KnownRooms, CreatorInvited
  <2> QED
    BY <1>21, <2>1, <2>2, <2>3, <2>4, <2>5, <2>6, <2>7, <2>8 DEF ReaderStep, CommandStep
<1>22. ASSUME ProcessEnds PROVE CreatorInvited'
  BY <1>22, EndEffect, CoreTypes, RoomTypes DEF CreatorInvited
<1>23. CASE UNCHANGED vars
  BY <1>23 DEF CreatorInvited
<1> QED
  BY <1>1, <1>2, <1>3, <1>4, <1>5, <1>6, <1>7, <1>8, <1>9, <1>10, <1>11, <1>12, <1>13,
     <1>14, <1>15, <1>16, <1>17, <1>18, <1>19, <1>20, <1>21, <1>22, <1>23
  DEF Next, HandlerStep, StreamEnd, StopCrash, Crash, Quiet

-----------------------------------------------------------------------------
(* The parts hold initially. *)
LEMMA RoomInit == Init => RoomInv
<1> SUFFICES ASSUME Init PROVE RoomInv
  OBVIOUS
<1>1. SessionInv
  BY SessionInit
<1>2. /\ rdpRooms = {} /\ open = {}
      /\ users = [s \in Conn |-> [u \in User |-> None]]
      /\ cmd = [c \in Conn |-> NoCommand]
      /\ pc = [c \in Conn |-> "idle"]
  BY DEF Init, RoomsInit, CommandsInit
<1> QED
  BY <1>1, <1>2
  DEF RoomInv, MembersKnown, ClosedRoomDisconnects, CommandsChecked, NoCommand, AdminIsHost,
      CreatorInvited

(* Together they are an inductive invariant. *)
LEMMA RoomStep == RoomInv /\ [Next]_vars => RoomInv'
  BY SessionStep, MembersKnownStep, ClosedStep, CommandsStep, AdminStep, InvitedStep
  DEF RoomInv, SessionInv

(* The rooms of the gateway keep the invariant in every execution. *)
THEOREM RoomCorrect == Spec => []RoomInv
  BY RoomInit, RoomStep, PTL DEF Spec

(* No websocket of a member outlives the room it was left in by closeRoom. *)
THEOREM ClosingDisconnects == Spec => []ClosedRoomDisconnects
  BY RoomCorrect, PTL DEF RoomInv

(* remove-share, set-permissions and stop-share leave the creator invited.  *)
THEOREM CreatorStaysInvited == Spec => []CreatorInvited
  BY RoomCorrect, PTL DEF RoomInv

(* stop-share is only ever executed for the creator of the session.         *)
THEOREM OnlyTheHostStops == Spec => []OnlyHostStops
<1>1. RoomInv => OnlyHostStops
  BY DEF RoomInv, CommandsChecked, OnlyHostStops
<1> QED
  BY <1>1, RoomCorrect, PTL


(* A room is closed only when the host's role is no longer held in it: the  *)
(* scan saw nobody with a role but viewer, and until closeRoom the package  *)
(* mutex keeps new clients out while commands give nobody the host's role.  *)
THEOREM ClosesWithoutHost == Spec => []HostKeepsRoom
<1>1. Init => HostKeepsRoom
  BY DEF Init, HostKeepsRoom
<1>2. ASSUME RoomInv, HostKeepsRoom, [Next]_vars PROVE HostKeepsRoom'
  <2>0. TypeOK /\ LockInv
    BY <1>2 DEF RoomInv, SessionInv
  <2> DEFINE Same(c) == share'[c] = share[c] /\ users' = users /\ role' = role
  <2>1. (\A c \in Conn : pc'[c] = "close" => pc[c] = "close" /\ Same(c)) => HostKeepsRoom'
    BY <1>2 DEF HostKeepsRoom, RoomOf, Members
  <2>2. (\A c \in Conn : pc'[c] # "close") => HostKeepsRoom'
    BY DEF HostKeepsRoom
  <2>3. ASSUME NEW c \in Conn, OpenRoom(c) \/ Join(c) \/ Leave(c) PROVE HostKeepsRoom'
    <3>1. lock = None
      BY <2>3 DEF OpenRoom, NewRdpSessionRoom, Join, JoinRoom, Leave, LeaveRoom
    <3>2. \A d \in Conn : pc[d] # "close"
      BY <2>0, <3>1, NoneAssumption DEF LockInv
    <3>3. \A d \in Conn : pc'[d] # "close"
      BY <2>0, <2>3, <3>2 DEF TypeOK, OpenRoom, Join, Leave
    <3> QED
      BY <2>2, <3>3
  <2>4. ASSUME NEW c \in Conn, LeaveScan(c) PROVE HostKeepsRoom'
    <3>1. \A d \in Conn \ {c} : pc[d] # "close"
      BY <2>0, <2>4 DEF LockInv, LeaveScan
    <3>2. CASE HasAdmin(RoomOf(c))
      BY <2>0, <2>2, <2>4, <3>1, <3>2 DEF TypeOK, LeaveScan
    <3>3. CASE ~HasAdmin(RoomOf(c))
      BY <2>0, <2>4, <3>1, <3>3
      DEF TypeOK, LeaveScan, HasAdmin, HostKeepsRoom, RoomOf, Members
    <3> QED
      BY <3>2, <3>3
  <2>5. ASSUME NEW c \in Conn, ReaderStep(c) \/ ReaderReceives(c) PROVE HostKeepsRoom'
    <3>1. /\ UNCHANGED <<pc, share>>
          /\ \A r \in Conn, u \in User : users'[r][u] = users[r][u] \/ users'[r][u] = None
          /\ \A x \in Conn : role'[x] = role[x] \/ role'[x] # "admin"
      BY <2>0, <2>5, ReaderEffect, ReaderRoles
    <3>2. ASSUME NEW d \in Conn, pc'[d] = "close", NEW u \in User,
                 users'[RoomOf(d)][u] # None
          PROVE  role'[users'[RoomOf(d)][u]] # "admin"
      <4>1. RoomOf(d) \in Conn /\ users[RoomOf(d)][u] \in Conn \cup {None}
        BY <2>0, CoreTypes DEF TypeOK, RoomOf
      <4>2. users'[RoomOf(d)][u] = users[RoomOf(d)][u]
        BY <3>1, <3>2, <4>1
      <4>3. role[users[RoomOf(d)][u]] # "admin"
        BY <1>2, <3>1, <3>2, <4>2 DEF HostKeepsRoom, Members
      <4> QED
        BY <3>1, <3>2, <4>1, <4>2, <4>3
    <3> QED
      BY <3>1, <3>2 DEF HostKeepsRoom, RoomOf, Members
  <2>6. CASE ProcessEnds
    BY <2>0, <2>2, <2>6, EndEffect
  <2>7. ASSUME NEW c \in Conn,
               \/ ArriveHost(c) \/ AuthShareRoom(c) \/ Launch(c) \/ Lookup(c) \/ Attach(c)
               \/ ConnectError(c) \/ ConnectedOwner(c) \/ ConnectedGuest(c) \/ JoinError(c)
               \/ SessionPanic(c) \/ LeaveError(c) \/ LeaveClose(c)
               \/ Cleanup(c) \/ Disconnect(c)
               \/ \E q \in Conn : ArriveShare(c, q) \/ ArriveRefused(c, q)
        PROVE  \A d \in Conn : pc'[d] = "close" => pc[d] = "close" /\ Same(d)
    <3>1. pc \in [Conn -> Place] /\ share \in [Conn -> Conn \cup {None}]
      BY <2>0 DEF TypeOK
    <3> QED
      BY <2>7, <3>1
      DEF ArriveHost, ArriveShare, ArriveRefused, AuthShareRoom, Launch, Lookup, Attach,
          ConnectError, ConnectedOwner, ConnectedGuest, JoinError, SessionPanic, LeaveError,
          LeaveClose, closeRoom, Cleanup, Disconnect
  <2>8. CASE UNCHANGED vars
    BY <2>1, <2>8
  <2> HIDE DEF Same
  <2> QED
    BY <1>2, <2>1, <2>3, <2>4, <2>5, <2>6, <2>7, <2>8
    DEF Next, HandlerStep, StreamEnd, StopCrash, Crash, Quiet
<1> QED
  BY <1>1, <1>2, RoomCorrect, PTL DEF Spec

(* An open websocket that watches a session stays its user's client in the  *)
(* room, where commands and closeRoom reach it, until its own handler ends  *)
(* or a second connection of its user joins or leaves the same room.        *)
THEOREM WatchersStayListed == Spec => StreamsListed
<1>1. ASSUME RoomInv, [Next]_vars, NEW c \in Conn PROVE StaysListed(c)
  <2>0. TypeOK /\ KnownRooms /\ ShareDecided
    BY <1>1 DEF RoomInv, SessionInv
  <2>1. /\ pc \in [Conn -> Place] /\ share \in [Conn -> Conn \cup {None}]
        /\ RoomOf(c) \in Conn /\ userId \in [Conn -> User]
        /\ users \in [Conn -> [User -> Conn \cup {None}]]
    BY <2>0, CoreTypes, VisitAssumption DEF TypeOK, RoomOf
  <2> DEFINE Untouched == /\ pc[c] = "stream"
                          /\ UNCHANGED <<users, rdpRooms>>
                          /\ share'[c] = share[c]
  <2>2. (pc'[c] = "stream" /\ c \in open' => Untouched) => StaysListed(c)
    BY DEF StaysListed, Listed, RoomOf
  <2>3. ASSUME NEW d \in Conn, OpenRoom(d) PROVE StaysListed(c)
    <3>1. CASE d = c
      BY <2>0, <2>1, <2>3, <3>1
      DEF OpenRoom, NewRdpSessionRoom, ShareDecided, StaysListed, Listed, RoomOf
    <3>2. CASE d # c
      <4>1. Listed(c) => RoomOf(c) # d
        BY <2>0, <2>3 DEF OpenRoom, KnownRooms, Before, Listed
      <4> QED
        BY <2>1, <2>3, <3>2, <4>1 DEF OpenRoom, NewRdpSessionRoom, StaysListed, Listed, RoomOf
    <3> QED
      BY <3>1, <3>2
  <2>4. ASSUME NEW d \in Conn, Join(d) PROVE StaysListed(c)
    <3>1. RoomOf(d) = share[d] /\ RoomOf(d) \in Conn
      BY <2>0, <2>1, <2>4 DEF Join, ShareDecided, RoomOf
    <3>2. /\ users' = [users EXCEPT ![RoomOf(d)][userId[d]] = d]
          /\ RoomOf(d) \in rdpRooms /\ rdpRooms' = rdpRooms /\ share' = share
          /\ pc[d] = "join" /\ pc'[d] \in {"stream", "abort"}
          /\ \A e \in Conn \ {d} : pc'[e] = pc[e]
      BY <2>1, <2>4, <3>1 DEF Join, JoinRoom, join
    <3>3. CASE d = c
      BY <2>1, <3>1, <3>2, <3>3 DEF StaysListed, Listed, RoomOf
    <3>4. CASE d # c /\ RoomOf(d) = RoomOf(c) /\ userId[d] = userId[c]
      BY <3>2, <3>4 DEF StaysListed, SecondVisit
    <3>5. CASE d # c /\ ~(RoomOf(d) = RoomOf(c) /\ userId[d] = userId[c])
      BY <2>1, <3>1, <3>2, <3>5 DEF StaysListed, Listed, RoomOf
    <3> QED
      BY <3>3, <3>4, <3>5
  <2>5. ASSUME NEW d \in Conn, Leave(d) PROVE StaysListed(c)
    <3>1. /\ users' = [users EXCEPT ![RoomOf(d)][userId[d]] = None]
          /\ rdpRooms' = rdpRooms /\ share' = share
          /\ pc[d] = "stream" /\ pc'[d] = "scan"
          /\ \A e \in Conn \ {d} : pc'[e] = pc[e]
      BY <2>1, <2>5 DEF Leave, LeaveRoom, leave
    <3>2. CASE d = c
      BY <3>1, <3>2 DEF StaysListed
    <3>3. CASE d # c /\ RoomOf(d) = RoomOf(c) /\ userId[d] = userId[c]
      BY <3>1, <3>3 DEF StaysListed, SecondVisit
    <3>4. CASE d # c /\ ~(RoomOf(d) = RoomOf(c) /\ userId[d] = userId[c])
      BY <2>1, <3>1, <3>4 DEF StaysListed, Listed, RoomOf
    <3> QED
      BY <3>2, <3>3, <3>4
  <2>6. ASSUME NEW d \in Conn, LeaveClose(d) PROVE StaysListed(c)
    BY <2>1, <2>6 DEF LeaveClose, closeRoom, StaysListed, Listed, RoomOf
  <2>7. ASSUME NEW d \in Conn, Remove(d), UNCHANGED <<pc, localVars>> PROVE StaysListed(c)
    BY <2>1, <2>7 DEF Remove, RemoveUser, StaysListed, Listed, RoomOf
  <2>8. ASSUME NEW d \in Conn, Stop(d), UNCHANGED <<pc, localVars>> PROVE StaysListed(c)
    BY <2>1, <2>8 DEF Stop, StopShare, StaysListed, Listed, RoomOf
  <2>9. CASE ProcessEnds
    BY <2>9, EndEffect DEF StaysListed
  <2>10. ASSUME NEW d \in Conn,
                \/ ArriveHost(d) \/ AuthShareRoom(d) \/ Launch(d) \/ Lookup(d) \/ Attach(d)
                \/ ConnectError(d) \/ ConnectedOwner(d) \/ ConnectedGuest(d) \/ JoinError(d)
                \/ SessionPanic(d) \/ LeaveError(d) \/ LeaveScan(d)
                \/ Cleanup(d) \/ Disconnect(d) \/ ReaderReceives(d)
                \/ \E q \in Conn : ArriveShare(d, q) \/ ArriveRefused(d, q)
         PROVE  pc'[c] = "stream" /\ c \in open' => Untouched
    BY <2>1, <2>10
    DEF ArriveHost, ArriveShare, ArriveRefused, AuthShareRoom, Launch, Lookup, Attach,
        ConnectError, ConnectedOwner, ConnectedGuest, JoinError, SessionPanic, LeaveError,
        LeaveScan, Cleanup, Disconnect, ReaderReceives, Receive
  <2>11. ASSUME NEW d \in Conn, UNCHANGED <<pc, localVars>>,
                \/ Share(d) \/ ShareRdpSession(d) \/ RemoveInvitee(d)
                \/ SetClient(d) \/ SetInvitee(d)
         PROVE  pc'[c] = "stream" /\ c \in open' => Untouched
    BY <2>11
    DEF Share, AddInvitee, ShareRdpSession, RemoveInvitee, SetClient, SetInvitee
  <2>12. CASE UNCHANGED vars
    BY <2>2, <2>12
  <2> HIDE DEF Untouched
  <2> QED
    BY <1>1, <2>2, <2>3, <2>4, <2>5, <2>6, <2>7, <2>8, <2>9, <2>10, <2>11, <2>12
    DEF Next, HandlerStep, StreamEnd, ReaderStep, CommandStep, StopCrash, Crash, Quiet
<1>2. RoomInv /\ [Next]_vars => [\A c \in Conn : StaysListed(c)]_vars
  BY <1>1
<1> QED
  BY <1>2, RoomCorrect, PTL DEF Spec, StreamsListed

-----------------------------------------------------------------------------
(* What the database and the cache announce, while they answer. *)

(* A session is announced before its room is opened. *)
Announced ==
    /\ AnnouncedWhileOpen
    /\ \A c \in Conn : pc[c] = "newRoom" => c \in active /\ c \in kv

(* What is announced stays so until closeRoom. *)
LEMMA AnnouncedStep ==
  ASSUME StoreFails = FALSE, TypeOK, KnownRooms, LockInv, Announced, [Next]_vars
  PROVE  Announced'
<1> USE CoreTypes DEF Announced, AnnouncedWhileOpen
<1>1. CASE UNCHANGED <<rdpRooms, creator, active, kv>>
           /\ \A c \in Conn : pc'[c] = "newRoom" => pc[c] = "newRoom"
  BY <1>1
<1>2. ASSUME NEW c \in Conn, ConnectedOwner(c) PROVE Announced'
  <2>1. /\ active' = active \cup {c} /\ kv' = kv \cup {c} /\ pc' = [pc EXCEPT ![c] = "newRoom"]
        /\ UNCHANGED <<rdpRooms, creator>> /\ pc[c] = "dial"
    BY <1>2 DEF ConnectedOwner
  <2>2. creator[c] = None
    BY <2>1 DEF KnownRooms, Before
  <2> QED
    BY <2>1, <2>2
<1>3. ASSUME NEW c \in Conn, OpenRoom(c) PROVE Announced'
  <2>1. /\ rdpRooms' = rdpRooms \cup {c} /\ creator' = [creator EXCEPT ![c] = userId[c]]
        /\ UNCHANGED <<active, kv>> /\ pc[c] = "newRoom" /\ pc' = [pc EXCEPT ![c] = "stream"]
    BY <1>3 DEF OpenRoom, NewRdpSessionRoom
  <2> QED
    BY <2>1
<1>4. ASSUME NEW c \in Conn, LeaveClose(c) PROVE Announced'
  <2>1. PICK r : r = RoomOf(c)
    OBVIOUS
  <2>2. /\ rdpRooms' = rdpRooms \ {r} /\ active' = active \ {r} /\ kv' = kv \ {r}
        /\ UNCHANGED creator /\ pc[c] = "close" /\ pc' = [pc EXCEPT ![c] = "cleanup"]
    BY <1>4, <2>1 DEF LeaveClose, closeRoom
  <2>3. r \in rdpRooms /\ pc[r] # "newRoom"
    BY <2>1, <2>2 DEF LockInv, KnownRooms, Before
  <2> QED
    BY <2>2, <2>3
<1>5. ASSUME ProcessEnds PROVE Announced'
  BY <1>5, EndEffect
<1>6. ASSUME NEW c \in Conn, ReaderStep(c) \/ ReaderReceives(c) PROVE Announced'
  BY <1>1, <1>6, ReaderFrame
<1>7. ASSUME NEW c \in Conn, ArriveHost(c) \/ SessionPanic(c) \/ LeaveError(c) \/ Leave(c)
                               \/ Disconnect(c)
      PROVE  Announced'
  BY <1>1, <1>7 DEF ArriveHost, SessionPanic, LeaveError, Leave, LeaveRoom, Disconnect
<1>8. ASSUME NEW c \in Conn, NEW q \in Conn, ArriveShare(c, q) \/ ArriveRefused(c, q)
      PROVE  Announced'
  BY <1>1, <1>8 DEF ArriveShare, ArriveRefused
<1>9. ASSUME NEW c \in Conn,
             AuthShareRoom(c) \/ Launch(c) \/ Lookup(c) \/ Attach(c) \/ ConnectError(c)
      PROVE  Announced'
  BY <1>1, <1>9 DEF AuthShareRoom, Launch, Lookup, Attach, ConnectError
<1>10. ASSUME NEW c \in Conn,
              ConnectedGuest(c) \/ Join(c) \/ JoinError(c) \/ LeaveScan(c) \/ Cleanup(c)
      PROVE  Announced'
  BY <1>1, <1>10 DEF ConnectedGuest, Join, JoinRoom, JoinError, LeaveScan, Cleanup
<1>11. ASSUME UNCHANGED vars PROVE Announced'
  BY <1>1, <1>11
<1> QED
  BY <1>2, <1>3, <1>4, <1>5, <1>6, <1>7, <1>8, <1>9, <1>10, <1>11
  DEF Next, HandlerStep, StreamEnd, StopCrash, Crash, Quiet

(* While the database and the cache answer, a session is announced by its   *)
(* record and its address entry exactly as long as its room is registered.  *)
THEOREM AnnouncesOpenRooms ==
  ASSUME StoreFails = FALSE
  PROVE  Spec => []AnnouncedWhileOpen
<1>1. Init => Announced
  BY DEF Init, RoomsInit, Announced, AnnouncedWhileOpen
<1>2. SessionInv /\ Announced /\ [Next]_vars => Announced'
  BY AnnouncedStep DEF SessionInv
<1>3. Announced => AnnouncedWhileOpen
  BY DEF Announced
<1> QED
  BY <1>1, <1>2, <1>3, SessionCorrect, PTL DEF Spec

-----------------------------------------------------------------------------
(* The invitees of a room. *)

(* The limit, for the rooms that are not registered too, in an instance     *)
(* whose clients do not send set-permissions.                               *)
Limited ==
    /\ \A r \in Conn : IsFiniteSet(Invited(r)) /\ Cardinality(Invited(r)) <= InviteeLimit
    /\ \A c \in Conn : cmd[c].step \notin {"perm", "permInvitee"}

(* Fewer invitees are within the limit, ... *)
LEMMA FewerInvited ==
  ASSUME NEW S, NEW T, IsFiniteSet(S), Cardinality(S) <= InviteeLimit, T \subseteq S
  PROVE  IsFiniteSet(T) /\ Cardinality(T) <= InviteeLimit
<1>1. /\ IsFiniteSet(T) /\ Cardinality(T) <= Cardinality(S)
      /\ Cardinality(T) \in Nat /\ Cardinality(S) \in Nat
  BY FS_Subset, FS_CardinalityType
<1> QED
  BY <1>1, LimitAssumption

(* ... and so is one more than a number below it. *)
LEMMA OneMoreInvited ==
  ASSUME NEW S, NEW T, NEW u, IsFiniteSet(S), Cardinality(S) < InviteeLimit, T \subseteq S \cup {u}
  PROVE  IsFiniteSet(T) /\ Cardinality(T) <= InviteeLimit
<1>1. /\ IsFiniteSet(S \cup {u}) /\ Cardinality(S) \in Nat
      /\ Cardinality(S \cup {u}) = IF u \in S THEN Cardinality(S) ELSE Cardinality(S) + 1
  BY FS_AddElement, FS_CardinalityType
<1>2. Cardinality(S \cup {u}) <= InviteeLimit
  BY <1>1, LimitAssumption
<1> QED
  BY <1>1, <1>2, FewerInvited

(* Only OpenRoom and share-session add an invitee. *)
LEMMA InvitedFrame ==
  ASSUME TypeOK, Limited, [Next]_vars
  PROVE  \/ \A r \in Conn : Invited(r)' \subseteq Invited(r)
         \/ \E c \in Conn : OpenRoom(c) \/ Share(c)
<1> DEFINE Fewer == \A r \in Conn : Invited(r)' \subseteq Invited(r)
<1>0. invitees \in [Conn -> [User -> {None} \cup Permission]]
  BY RoomTypes
<1>1. invitees' = invitees => Fewer
  BY DEF Invited
<1>2. ASSUME NEW c \in Conn, Remove(c) PROVE Fewer
  <2>1. PICK r, u : invitees' = [invitees EXCEPT ![r][u] = None]
    BY <1>2 DEF Remove, RemoveUser
  <2> QED
    BY <1>0, <2>1 DEF Invited
<1>3. ASSUME NEW c \in Conn, Stop(c) PROVE Fewer
  <2>0. PICK r, u : r = cmd[c].room /\ u = creator[r]
    OBVIOUS
  <2>1. invitees' = [invitees EXCEPT ![r] =
                      [v \in User |-> IF v = u THEN invitees[r][v] ELSE None]]
    BY <1>3, <2>0 DEF Stop, StopShare
  <2> QED
    BY <1>0, <2>1 DEF Invited
<1>4. ASSUME ProcessEnds PROVE Fewer
  BY <1>4 DEF ProcessEnds, Invited
<1>5. ASSUME NEW c \in Conn, ReaderStep(c) \/ ReaderReceives(c), ~Share(c) PROVE Fewer
  <2>1. ~SetInvitee(c)
    BY DEF Limited, SetInvitee
  <2> QED
    BY <1>1, <1>2, <1>3, <1>5, <2>1
    DEF ReaderStep, CommandStep, ReaderReceives, Receive, ShareRdpSession, RemoveInvitee, SetClient
<1>6. ASSUME NEW c \in Conn,
             \/ ArriveHost(c) \/ StreamEnd(c) \/ Disconnect(c) \/ HandlerStep(c)
             \/ \E q \in Conn : ArriveShare(c, q) \/ ArriveRefused(c, q),
             ~OpenRoom(c)
      PROVE  Fewer
  BY <1>1, <1>6
  DEF ArriveHost, StreamEnd, SessionPanic, LeaveError, Leave, LeaveRoom, Disconnect, ArriveShare,
      ArriveRefused, HandlerStep, AuthShareRoom, Launch, Lookup, Attach, ConnectError,
      ConnectedOwner, ConnectedGuest, Join, JoinRoom, JoinError, LeaveScan, LeaveClose, closeRoom,
      Cleanup
<1>7. UNCHANGED vars => Fewer
  BY <1>1
<1> HIDE DEF Fewer
<1>8. Fewer \/ \E c \in Conn : OpenRoom(c) \/ Share(c)
  BY <1>4, <1>5, <1>6, <1>7 DEF Next, StopCrash, Crash, Quiet
<1> QED
  BY <1>8 DEF Fewer

(* The readers take no set-permissions when nobody sends it. *)
LEMMA NoPermissionStep ==
  ASSUME \A c \in Conn : "perm" \notin Command[c], TypeOK, Limited, [Next]_vars, NEW d \in Conn
  PROVE  cmd'[d].step \notin {"perm", "permInvitee"}
<1> DEFINE Kept == cmd'[d].step \notin {"perm", "permInvitee"}
<1>0. cmd \in [Conn -> CommandState] /\ cmd[d].step \notin {"perm", "permInvitee"}
  BY RoomTypes DEF Limited
<1>1. cmd' = cmd => Kept
  BY <1>0
<1>2. ASSUME NEW c \in Conn, Finish(c) PROVE Kept
  BY <1>0, <1>2 DEF NoCommand
<1>3. ASSUME NEW c \in Conn, Goto(c, "shareDb") \/ Goto(c, "removeDb") PROVE Kept
  BY <1>0, <1>3 DEF CommandState
<1>4. ASSUME NEW c \in Conn, CommandStep(c) PROVE Kept
  <2>1. ~SetClient(c) /\ ~SetInvitee(c)
    BY DEF Limited, SetClient, SetInvitee
  <2> QED
    BY <1>2, <1>3, <1>4, <2>1
    DEF CommandStep, Share, ShareRdpSession, Remove, RemoveInvitee, Stop
<1>5. ASSUME NEW c \in Conn, ReaderReceives(c) PROVE Kept
  <2>1. PICK op \in Command[c] : \E u, p :
           cmd' = [cmd EXCEPT ![c] = [step |-> op, room |-> RoomOf(c), user |-> u, perm |-> p]]
    BY <1>5 DEF ReaderReceives, Receive
  <2>2. op \notin {"perm", "permInvitee"}
    BY CommandAssumption
  <2> QED
    BY <1>0, <2>1, <2>2
<1>6. ASSUME ProcessEnds PROVE Kept
  BY <1>6 DEF ProcessEnds, NoCommand
<1>7. UNCHANGED vars => Kept
  BY <1>1
<1>8. ASSUME NEW c \in Conn,
             \/ ArriveHost(c) \/ StreamEnd(c) \/ Disconnect(c) \/ HandlerStep(c)
             \/ \E q \in Conn : ArriveShare(c, q) \/ ArriveRefused(c, q)
      PROVE  Kept
  BY <1>1, <1>8
  DEF ArriveHost, StreamEnd, SessionPanic, LeaveError, Leave, Disconnect, ArriveShare,
      ArriveRefused, HandlerStep, AuthShareRoom, Launch, Lookup, Attach, ConnectError,
      ConnectedOwner, OpenRoom, ConnectedGuest, Join, JoinError, LeaveScan, LeaveClose, Cleanup
<1> HIDE DEF Kept
<1>9. Kept
  BY <1>4, <1>5, <1>6, <1>7, <1>8 DEF Next, ReaderStep, StopCrash, Crash, Quiet
<1> QED
  BY <1>9 DEF Kept

(* The limit is kept. *)
LEMMA LimitedStep ==
  ASSUME \A c \in Conn : "perm" \notin Command[c], TypeOK, Limited, [Next]_vars
  PROVE  Limited'
<1>0. invitees \in [Conn -> [User -> {None} \cup Permission]]
  BY RoomTypes
<1> SUFFICES ASSUME NEW r \in Conn
             PROVE  IsFiniteSet(Invited(r)') /\ Cardinality(Invited(r)') <= InviteeLimit
  BY NoPermissionStep DEF Limited
<1>1. IsFiniteSet(Invited(r)) /\ Cardinality(Invited(r)) <= InviteeLimit
  BY DEF Limited
<1>2. CASE Invited(r)' \subseteq Invited(r)
  BY <1>1, <1>2, FewerInvited
<1>3. ASSUME NEW c \in Conn, OpenRoom(c)
      PROVE  IsFiniteSet(Invited(r)') /\ Cardinality(Invited(r)') <= InviteeLimit
  <2>1. invitees' = [invitees EXCEPT ![c] =
                       [v \in User |-> IF v = userId[c] THEN Rights ELSE None]]
    BY <1>3 DEF OpenRoom, NewRdpSessionRoom
  <2>2. c # r => Invited(r)' \subseteq Invited(r)
    BY <1>0, <2>1 DEF Invited
  <2>3. c = r => Invited(r)' \subseteq {} \cup {userId[c]}
    BY <1>0, <2>1 DEF Invited
  <2>4. IsFiniteSet({}) /\ Cardinality({}) < InviteeLimit
    BY FS_EmptySet, LimitAssumption
  <2> QED
    BY <1>2, <2>2, <2>3, <2>4, OneMoreInvited
<1>4. ASSUME NEW c \in Conn, Share(c)
      PROVE  IsFiniteSet(Invited(r)') /\ Cardinality(Invited(r)') <= InviteeLimit
  <2>0. PICK s, u, p : s = cmd[c].room /\ u = cmd[c].user /\ p = cmd[c].perm
    OBVIOUS
  <2>1. CASE ~AddInviteeOK(s)
    BY <1>2, <1>4, <2>0, <2>1 DEF Share, AddInvitee, Invited
  <2>2. CASE AddInviteeOK(s)
    <3>1. invitees' = [invitees EXCEPT ![s][u] = p]
      BY <1>4, <2>0, <2>2 DEF Share, AddInvitee
    <3>2. s # r => Invited(r)' \subseteq Invited(r)
      BY <1>0, <3>1 DEF Invited
    <3>3. s = r => Invited(r)' \subseteq Invited(r) \cup {u}
      BY <1>0, <3>1 DEF Invited
    <3> QED
      BY <1>1, <1>2, <2>2, <3>2, <3>3, OneMoreInvited DEF AddInviteeOK
  <2> QED
    BY <2>1, <2>2
<1> QED
  BY <1>2, <1>3, <1>4, InvitedFrame

(* Without set-permissions, whose unlocked write can bring back an invitee  *)
(* that was removed in between, no room ever exceeds INVITEE_LIMIT: not     *)
(* even when share-session commands race for the last place.                *)
THEOREM StaysWithinLimit ==
  ASSUME \A c \in Conn : "perm" \notin Command[c]
  PROVE  Spec => []WithinLimit
<1>1. Init => Limited
  <2> SUFFICES ASSUME Init PROVE Limited
    OBVIOUS
  <2>1. /\ invitees = [s \in Conn |-> [u \in User |-> None]]
        /\ cmd = [c \in Conn |-> NoCommand]
    BY DEF Init, RoomsInit, CommandsInit
  <2>2. \A r \in Conn : Invited(r) = {}
    BY <2>1 DEF Invited
  <2>3. IsFiniteSet({}) /\ Cardinality({}) = 0 /\ 0 <= InviteeLimit
    BY FS_EmptySet, LimitAssumption
  <2>4. \A c \in Conn : cmd[c].step \notin {"perm", "permInvitee"}
    BY <2>1 DEF NoCommand
  <2> QED
    BY <2>2, <2>3, <2>4 DEF Limited
<1>2. TypeOK /\ Limited /\ [Next]_vars => Limited'
  BY LimitedStep
<1>3. TypeOK /\ Limited => WithinLimit
  BY CoreTypes DEF Limited, WithinLimit
<1> QED
  BY <1>1, <1>2, <1>3, TypeCorrect, PTL DEF Spec
=============================================================================
