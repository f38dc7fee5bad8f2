--------------------------- MODULE WsServerProofs ---------------------------
(***************************************************************************)
(* Proofs about WsServer for every set of users and connections, every     *)
(* limit and every set of commands: types, and the counts of connections.  *)
(***************************************************************************)
EXTENDS WsServer, FiniteSetTheorems, TLAPS

USE DEF vars, roomVars, storeVars, localVars, gauges, Move, At, Finish, Goto, Return, Proceed

-----------------------------------------------------------------------------
(* Type correctness. *)

(* Changing one cell of a table of rooms and users keeps its type. *)
LEMMA CellType ==
  ASSUME NEW S, NEW f \in [Conn -> [User -> S]], NEW r, NEW u, NEW v \in S
  PROVE  [f EXCEPT ![r][u] = v] \in [Conn -> [User -> S]]
<1>1. ASSUME NEW x \in Conn PROVE [f EXCEPT ![r][u] = v][x] \in [User -> S]
  OBVIOUS
<1> QED
  BY <1>1

Invitation == [Conn -> [User -> {None} \cup Permission]]

(* So does counting a connection, ... *)
LEMMA CountType ==
  ASSUME connIds \in [Conn -> Nat], NEW c, AddConn(c)
  PROVE  connIds' \in [Conn -> Nat]
<1> DEFINE k == tun[c]
<1>1. connIds' = [connIds EXCEPT ![k] = connIds[k] + 1]
  BY DEF AddConn
<1> HIDE DEF k
<1>2. ASSUME NEW x \in Conn PROVE connIds'[x] \in Nat
  BY <1>1
<1> QED
  BY <1>1, <1>2

(* ... discounting it, ... *)
LEMMA DiscountType ==
  ASSUME connIds \in [Conn -> Nat], NEW c, Cleanup(c)
  PROVE  connIds' \in [Conn -> Nat]
<1> DEFINE k == tun[c]
<1>1. connIds' = [connIds EXCEPT ![k] = IF connIds[k] = 0 THEN 0 ELSE connIds[k] - 1]
  BY DEF Cleanup
<1> HIDE DEF k
<1>2. ASSUME NEW x \in Conn PROVE connIds'[x] \in Nat
  BY <1>1
<1> QED
  BY <1>1, <1>2

(* ... taking the guacd connection of a room, ... *)
LEMMA AttachType ==
  ASSUME tun \in [Conn -> Conn \cup {None}], rdpConn \in [Conn -> Conn \cup {None}],
         rdpRooms \subseteq Conn, NEW c, Attach(c)
  PROVE  tun' \in [Conn -> Conn \cup {None}]
<1>1. \/ target[c] \in rdpRooms /\ tun' = [tun EXCEPT ![c] = rdpConn[target[c]]]
      \/ tun' = [tun EXCEPT ![c] = None]
  BY DEF Attach
<1> QED
  BY <1>1

(* ... reading the session data, ... *)
LEMMA SesType ==
  ASSUME ses \in [Conn -> BOOLEAN], NEW c \in Conn, NEW s,
         ses' = [ses EXCEPT ![c] = s \in sessionData]
  PROVE  ses' \in [Conn -> BOOLEAN]
  OBVIOUS

(* ... writing one invitee to the room or to the database, ... *)
LEMMA InviteeType ==
  ASSUME invitees \in Invitation, invited \in Invitation, NEW c, cmd[c].perm \in Permission
  PROVE  /\ Share(c) => invitees' \in Invitation
         /\ ShareRdpSession(c) => invited' \in Invitation
         /\ RemoveInvitee(c) => invited' \in Invitation
<1> DEFINE k == cmd[c]
<1>1. /\ Share(c) => \/ invitees' = [invitees EXCEPT ![k.room][k.user] = k.perm]
                     \/ invitees' = invitees
      /\ ShareRdpSession(c) => \/ invited' = [invited EXCEPT ![k.room][k.user] = k.perm]
                               \/ invited' = invited
      /\ RemoveInvitee(c) => \/ invited' = [invited EXCEPT ![k.room][k.user] = None]
                             \/ invited' = invited
  <2>1. Share(c) => \/ invitees' = [invitees EXCEPT ![k.room][k.user] = k.perm]
                    \/ invitees' = invitees
    BY DEF Share, AddInvitee
  <2>2. ShareRdpSession(c) => \/ invited' = [invited EXCEPT ![k.room][k.user] = k.perm]
                              \/ invited' = invited
    BY DEF ShareRdpSession
  <2>3. RemoveInvitee(c) => \/ invited' = [invited EXCEPT ![k.room][k.user] = None]
                            \/ invited' = invited
    BY DEF RemoveInvitee
  <2> QED
    BY <2>1, <2>2, <2>3
<1>2. k.perm \in {None} \cup Permission /\ None \in {None} \cup Permission
  OBVIOUS
<1> HIDE DEF k
<1>3. ASSUME NEW f \in Invitation, NEW r, NEW u, NEW v \in {None} \cup Permission
      PROVE  [f EXCEPT ![r][u] = v] \in Invitation
  BY CellType DEF Invitation
<1>4. /\ [invitees EXCEPT ![k.room][k.user] = k.perm] \in Invitation
      /\ [invited EXCEPT ![k.room][k.user] = k.perm] \in Invitation
      /\ [invited EXCEPT ![k.room][k.user] = None] \in Invitation
  BY <1>2, <1>3, Zenon
<1> QED
  BY <1>1, <1>4, Zenon

(* ... letting go of the package mutex, ... *)
LEMMA ScanType ==
  ASSUME lock \in Conn \cup {None}, pc \in [Conn -> Place], NEW c, LeaveScan(c)
  PROVE  lock' \in Conn \cup {None} /\ pc' \in [Conn -> Place]
<1>1. /\ lock' = None \/ lock' = lock
      /\ \/ pc' = [pc EXCEPT ![c] = "cleanup"]
         \/ pc' = [pc EXCEPT ![c] = "close"]
  BY DEF LeaveScan
<1>2. "cleanup" \in Place /\ "close" \in Place
  BY DEF Place
<1> QED
  BY <1>1, <1>2

(* ... dropping invitees from the database, ... *)
LEMMA DropType ==
  ASSUME invited \in [Conn -> [User -> {None} \cup Permission]], NEW r, DropInvited(r)
  PROVE  invited' \in [Conn -> [User -> {None} \cup Permission]]
<1>1. PICK kept \in SUBSET User :
         invited' = [invited EXCEPT ![r] =
                        [u \in User |-> IF u \in (Invited(r) \ {creator[r]}) \ kept
                                        THEN None ELSE invited[r][u]]]
  BY DEF DropInvited
<1>2. ASSUME NEW x \in Conn PROVE invited'[x] \in [User -> {None} \cup Permission]
  BY <1>1
<1> QED
  BY <1>1, <1>2

(* ... moving on in a command, or finishing it. *)
LEMMA CommandType ==
  ASSUME CommandsTypeOK, NEW c \in Conn, NEW s \in Step, Goto(c, s) \/ Finish(c)
  PROVE  CommandsTypeOK'
<1>1. NoCommand \in CommandState
  BY DEF NoCommand, CommandState, Step, Permission
<1>2. CASE Goto(c, s)
  <2>1. [cmd[c] EXCEPT !.step = s] \in CommandState
    BY DEF CommandsTypeOK, CommandState
  <2> QED
    BY <1>2, <2>1 DEF CommandsTypeOK
<1>3. CASE Finish(c)
  BY <1>1, <1>3 DEF CommandsTypeOK
<1> QED
  BY <1>2, <1>3

(* The initial values have their types. *)
LEMMA TypeInit == Init => TypeOK
  BY NoneAssumption DEF Init, RoomsInit, CommandsInit, TypeOK, RoomsTypeOK, CommandsTypeOK,
     CommandState, NoCommand, Step, Place, Role, Permission, Rights

(* Every step of a handler, of a reader or of the process keeps the types. *)
LEMMA TypeStep == TypeOK /\ [Next]_vars => TypeOK'
<1> SUFFICES ASSUME TypeOK, [Next]_vars PROVE TypeOK'
  OBVIOUS
<1> USE NoneAssumption, VisitAssumption, CommandAssumption
    DEF TypeOK, RoomsTypeOK, CommandsTypeOK, CommandState, Step, Place, Role, Permission, Rights
<1>1. CASE UNCHANGED vars
  BY <1>1
<1>2. ASSUME NEW c \in Conn, ArriveHost(c) PROVE TypeOK'
  <2>1. CASE UNCHANGED <<share, perms>>
    BY <1>2, <2>1 DEF ArriveHost
  <2>2. ASSUME NEW r \in GetRoomByAppIdAndCreator(userId[c]),
               share' = [share EXCEPT ![c] = r],
               perms' = [perms EXCEPT ![c] = {"admin", "mouse", "keyboard"}]
        PROVE  TypeOK'
    <3>1. r \in Conn
      BY DEF GetRoomByAppIdAndCreator
    <3>2. perms' \in [Conn -> Permission]
      BY <2>2
    <3> QED
      BY <1>2, <2>2, <3>1, <3>2 DEF ArriveHost
  <2> QED
    BY <1>2, <2>1, <2>2 DEF ArriveHost
<1>3. ASSUME NEW c \in Conn, NEW q \in Conn, ArriveShare(c, q) PROVE TypeOK'
  <2>1. invited[q][userId[c]] \in Permission
    BY <1>3 DEF ArriveShare
  <2> QED
    BY <1>3, <2>1 DEF ArriveShare
<1>4. ASSUME NEW c \in Conn, NEW q \in Conn, ArriveRefused(c, q) PROVE TypeOK'
  BY <1>4 DEF ArriveRefused
<1>5. ASSUME NEW c \in Conn, AuthShareRoom(c) PROVE TypeOK'
  <2>1. CASE Proceed(c, "connect")
    BY <1>5, <2>1 DEF AuthShareRoom
  <2>2. CASE Return(c)
    BY <1>5, <2>2 DEF AuthShareRoom
  <2> QED
    BY <1>5, <2>1, <2>2 DEF AuthShareRoom
<1>6. ASSUME NEW c \in Conn, Launch(c) PROVE TypeOK'
  BY <1>6 DEF Launch
<1>7. ASSUME NEW c \in Conn, Lookup(c) PROVE TypeOK'
  BY <1>7 DEF Lookup, GetRoomByAppIdAndCreator
<1>8. ASSUME NEW c \in Conn, Attach(c) PROVE TypeOK'
  <2>1. CASE target[c] \in sessionData \cap rdpRooms
    <3>1. tun' \in [Conn -> Conn \cup {None}]
      BY <1>8, AttachType
    <3>2. /\ target' = [target EXCEPT ![c] = None]
          /\ query' = [query EXCEPT ![c] = None]
          /\ pc' = [pc EXCEPT ![c] = "dial"]
          /\ UNCHANGED <<open, share, perms, ses>>
          /\ UNCHANGED <<lock, roomVars, storeVars, cmd, gauges, crashes>>
      BY <1>8, <2>1 DEF Attach
    <3> QED
      BY <3>1, <3>2
  <2>2. CASE Return(c)
    BY <1>8, <2>2 DEF Attach
  <2> QED
    BY <1>8, <2>1, <2>2 DEF Attach
<1>9. ASSUME NEW c \in Conn, ConnectError(c) PROVE TypeOK'
  BY <1>9 DEF ConnectError
<1>10. ASSUME NEW c \in Conn, ConnectedOwner(c) PROVE TypeOK'
  <2>1. connIds' \in [Conn -> Nat]
    <3>1. AddConn(c)
      BY <1>10 DEF ConnectedOwner
    <3> QED
      BY <3>1, CountType
  <2>3. ses' \in [Conn -> BOOLEAN]
    <3>1. ses' = [ses EXCEPT ![c] = c \in sessionData]
      BY <1>10 DEF ConnectedOwner
    <3> QED
      BY <3>1, SesType
  <2>2. active' \subseteq Conn /\ kv' \subseteq Conn
    BY <1>10 DEF ConnectedOwner
  <2> QED
    BY <1>10, <2>3, <2>1, <2>2 DEF ConnectedOwner
<1>11. ASSUME NEW c \in Conn, OpenRoom(c) PROVE TypeOK'
  BY <1>11 DEF OpenRoom, NewRdpSessionRoom
<1>12. ASSUME NEW c \in Conn, ConnectedGuest(c) PROVE TypeOK'
  <2>1. connIds' \in [Conn -> Nat]
    <3>1. AddConn(c)
      BY <1>12 DEF ConnectedGuest
    <3> QED
      BY <3>1, CountType
  <2>3. ses' \in [Conn -> BOOLEAN]
    <3>1. ses' = [ses EXCEPT ![c] = share[c] \in sessionData]
      BY <1>12 DEF ConnectedGuest
    <3> QED
      BY <3>1, SesType
  <2> QED
    BY <1>12, <2>3, <2>1 DEF ConnectedGuest
<1>13. ASSUME NEW c \in Conn, Join(c) PROVE TypeOK'
  BY <1>13 DEF Join, JoinRoom, join, GuestRole
<1>14. ASSUME NEW c \in Conn, JoinError(c) PROVE TypeOK'
  BY <1>14 DEF JoinError
<1>15. ASSUME NEW c \in Conn, SessionPanic(c) PROVE TypeOK'
  BY <1>15 DEF SessionPanic
<1>16. ASSUME NEW c \in Conn, Leave(c) PROVE TypeOK'
  BY <1>16 DEF Leave, LeaveRoom, leave
<1>17. ASSUME NEW c \in Conn, LeaveError(c) PROVE TypeOK'
  BY <1>17 DEF LeaveError
<1>18. ASSUME NEW c \in Conn, LeaveScan(c) PROVE TypeOK'
  <2>1. lock' \in Conn \cup {None} /\ pc' \in [Conn -> Place]
    BY <1>18, ScanType
  <2> QED
    BY <1>18, <2>1 DEF LeaveScan
<1>19. ASSUME NEW c \in Conn, LeaveClose(c) PROVE TypeOK'
  BY <1>19 DEF LeaveClose, closeRoom
<1>20. ASSUME NEW c \in Conn, Cleanup(c) PROVE TypeOK'
  <2>1. connIds' \in [Conn -> Nat]
    BY <1>20, DiscountType
  <2>2. rdpCount' \in Int
    BY <1>20 DEF Cleanup
  <2> QED
    BY <1>20, <2>1, <2>2 DEF Cleanup
<1>21. ASSUME NEW c \in Conn, Disconnect(c) PROVE TypeOK'
  BY <1>21 DEF Disconnect
<1>22. ASSUME NEW c \in Conn, ReaderReceives(c) PROVE TypeOK'
  <2>1. CommandsTypeOK'
    <3>1. PICK op \in Command[c], u \in Named : \E p \in Grant[u] :
             cmd' = [cmd EXCEPT ![c] =
                [step |-> op, room |-> RoomOf(c),
                 user |-> IF op = "stop" THEN None ELSE u,
                 perm |-> IF op \in {"share", "perm"} THEN p ELSE {}]]
      BY <1>22 DEF ReaderReceives, Receive
    <3>2. u \in User /\ Grant[u] \subseteq Permission
      BY CommandAssumption
    <3>3. PICK p \in Permission :
             cmd' = [cmd EXCEPT ![c] =
                [step |-> op, room |-> RoomOf(c),
                 user |-> IF op = "stop" THEN None ELSE u,
                 perm |-> IF op \in {"share", "perm"} THEN p ELSE {}]]
      BY <3>1, <3>2
    <3>4. op \in Step
      BY CommandAssumption DEF Step
    <3> QED
      BY <3>2, <3>3, <3>4 DEF RoomOf
  <2> QED
    BY <1>22, <2>1 DEF ReaderReceives, Receive
<1>23. ASSUME NEW c \in Conn, Share(c), UNCHANGED <<pc, localVars, gauges, crashes>> PROVE TypeOK'
  <2>1. CommandsTypeOK'
    BY <1>23, CommandType DEF Share
  <2>2. invitees' \in [Conn -> [User -> {None} \cup Permission]]
    <3>1. cmd[c].perm \in Permission
      OBVIOUS
    <3> QED
      BY <1>23, <3>1, InviteeType DEF Invitation
  <2> QED
    BY <1>23, <2>1, <2>2 DEF Share, AddInvitee
<1>24. ASSUME NEW c \in Conn, ShareRdpSession(c), UNCHANGED <<pc, localVars, gauges, crashes>>
       PROVE  TypeOK'
  <2>1. CommandsTypeOK'
    BY <1>24, CommandType DEF ShareRdpSession
  <2>2. invited' \in [Conn -> [User -> {None} \cup Permission]]
    <3>1. cmd[c].perm \in Permission
      OBVIOUS
    <3> QED
      BY <1>24, <3>1, InviteeType DEF Invitation
  <2> QED
    BY <1>24, <2>1, <2>2 DEF ShareRdpSession
<1>25. ASSUME NEW c \in Conn, Remove(c), UNCHANGED <<pc, localVars, gauges, crashes>> PROVE TypeOK'
  <2>1. CommandsTypeOK'
    BY <1>25, CommandType DEF Remove
  <2>2. /\ invitees' \in [Conn -> [User -> {None} \cup Permission]]
        /\ users' \in [Conn -> [User -> Conn \cup {None}]]
    BY <1>25, CellType DEF Remove, RemoveUser
  <2> QED
    BY <1>25, <2>1, <2>2 DEF Remove, RemoveUser
<1>26. ASSUME NEW c \in Conn, RemoveInvitee(c), UNCHANGED <<pc, localVars, gauges, crashes>>
       PROVE  TypeOK'
  <2>1. CommandsTypeOK'
    BY <1>26, CommandType DEF RemoveInvitee
  <2>2. invited' \in [Conn -> [User -> {None} \cup Permission]]
    <3>1. cmd[c].perm \in Permission
      OBVIOUS
    <3> QED
      BY <1>26, <3>1, InviteeType DEF Invitation
  <2> QED
    BY <1>26, <2>1, <2>2 DEF RemoveInvitee
<1>27. ASSUME NEW c \in Conn, SetClient(c), UNCHANGED <<pc, localVars, gauges, crashes>>
       PROVE  TypeOK'
  <2>1. CommandsTypeOK'
    BY <1>27, CommandType, Zenon DEF SetClient
  <2>2. role' \in [Conn -> Role] /\ control' \in [Conn -> SUBSET {"mouse", "keyboard"}]
    BY <1>27 DEF SetClient, GuestRole
  <2> QED
    BY <1>27, <2>1, <2>2 DEF SetClient
<1>28. ASSUME NEW c \in Conn, SetInvitee(c), UNCHANGED <<pc, localVars, gauges, crashes>>
       PROVE  TypeOK'
  <2>1. CommandsTypeOK'
    BY <1>28, CommandType DEF SetInvitee
  <2>2. invitees' \in [Conn -> [User -> {None} \cup Permission]]
    BY <1>28, CellType DEF SetInvitee
  <2> QED
    BY <1>28, <2>1, <2>2 DEF SetInvitee
<1>29. ASSUME NEW c \in Conn, Stop(c), UNCHANGED <<pc, localVars, gauges, crashes>> PROVE TypeOK'
  <2> DEFINE r == cmd[c].room
  <2>0. StopShare(r)
    BY <1>29 DEF Stop
  <2>1. invitees' \in [Conn -> [User -> {None} \cup Permission]]
    <3>1. ASSUME NEW x \in Conn PROVE invitees'[x] \in [User -> {None} \cup Permission]
      BY <2>0 DEF StopShare
    <3> QED
      BY <2>0, <3>1 DEF StopShare
  <2>2. invited' \in [Conn -> [User -> {None} \cup Permission]]
    BY <2>0, DropType DEF StopShare
  <2>3. users' \in [Conn -> [User -> Conn \cup {None}]]
    <3>1. ASSUME NEW x \in Conn PROVE users'[x] \in [User -> Conn \cup {None}]
      BY <2>0 DEF StopShare
    <3> QED
      BY <2>0, <3>1 DEF StopShare
  <2>4. open' \subseteq Conn
    BY <2>0 DEF StopShare
  <2> QED
    BY <1>29, <2>0, <2>1, <2>2, <2>3, <2>4 DEF Stop, StopShare, NoCommand
<1>30. ASSUME ProcessEnds, invited' \in [Conn -> [User -> {None} \cup Permission]] PROVE TypeOK'
  BY <1>30 DEF ProcessEnds, NoCommand
<1>31. ASSUME NEW c \in Conn, StopCrash(c) PROVE TypeOK'
  BY <1>30, <1>31, DropType DEF StopCrash
<1>32. CASE Crash
  BY <1>30, <1>32 DEF Crash
<1>33. CASE Quiet
  BY <1>33 DEF Quiet
<1> QED
  BY <1>1, <1>2, <1>3, <1>4, <1>5, <1>6, <1>7, <1>8, <1>9, <1>10, <1>11, <1>12, <1>13, <1>14,
     <1>15, <1>16, <1>17, <1>18, <1>19, <1>20, <1>21, <1>22, <1>23, <1>24, <1>25, <1>26, <1>27,
     <1>28, <1>29, <1>31, <1>32, <1>33
  DEF Next, HandlerStep, StreamEnd, ReaderStep, CommandStep

(* The program state is well typed: rooms hold clients of connections and   *)
(* permissions of users, counts stay natural numbers.                       *)
THEOREM TypeCorrect == Spec => []TypeOK
  BY TypeInit, TypeStep, PTL DEF Spec

-----------------------------------------------------------------------------
(* The gauges. *)

(* The handlers MemorySessionStore and the gauge stand for. *)
CountedAt == {"newRoom", "join", "stream", "scan", "close", "cleanup", "abort"}
StreamingAt == {"stream", "scan", "close", "cleanup"}
Counted(k) == {c \in Conn : tun[c] = k /\ pc[c] \in CountedAt}
Streaming == {c \in Conn : pc[c] \in StreamingAt}

(* A handler that was counted has a guacd connection, its own or that of    *)
(* the room it joined.                                                      *)
TunnelsKnown ==
    /\ \A c \in Conn : pc[c] \in CountedAt \cup {"dial"} => tun[c] \in Conn
    /\ \A r \in rdpRooms : rdpConn[r] \in Conn

(* However many connections there may be, finitely many have come so far.   *)
GaugesInv ==
    /\ TypeOK
    /\ TunnelsKnown
    /\ \A k \in Conn : IsFiniteSet(Counted(k)) /\ connIds[k] = Cardinality(Counted(k))
    /\ IsFiniteSet(Streaming) /\ rdpCount = Cardinality(Streaming)

(* The types the proofs about the gauges use. *)
LEMMA HandlerTypes ==
  ASSUME TypeOK
  PROVE  /\ rdpRooms \subseteq Conn
         /\ rdpConn \in [Conn -> Conn \cup {None}]
         /\ pc \in [Conn -> Place]
         /\ tun \in [Conn -> Conn \cup {None}]
         /\ connIds \in [Conn -> Nat]
         /\ rdpCount \in Int
         /\ None \notin Conn
  BY NoneAssumption DEF TypeOK, RoomsTypeOK

(* A reader opens and closes no room, announces and counts nothing. *)
LEMMA ReaderFrame ==
  ASSUME NEW c \in Conn, ReaderStep(c) \/ ReaderReceives(c)
  PROVE  UNCHANGED <<rdpRooms, rdpConn, creator, active, kv, pc, tun, connIds, rdpCount>>
<1>1. CASE ReaderReceives(c)
  BY <1>1 DEF ReaderReceives, Receive
<1>2. CASE Share(c) /\ UNCHANGED <<pc, localVars, gauges, crashes>>
  BY <1>2 DEF Share, AddInvitee
<1>3. CASE ShareRdpSession(c) /\ UNCHANGED <<pc, localVars, gauges, crashes>>
  BY <1>3 DEF ShareRdpSession
<1>4. CASE Remove(c) /\ UNCHANGED <<pc, localVars, gauges, crashes>>
  BY <1>4 DEF Remove, RemoveUser
<1>5. CASE RemoveInvitee(c) /\ UNCHANGED <<pc, localVars, gauges, crashes>>
  BY <1>5 DEF RemoveInvitee
<1>6. CASE SetClient(c) /\ UNCHANGED <<pc, localVars, gauges, crashes>>
  BY <1>6 DEF SetClient
<1>7. CASE SetInvitee(c) /\ UNCHANGED <<pc, localVars, gauges, crashes>>
  BY <1>7 DEF SetInvitee
<1>8. CASE Stop(c) /\ UNCHANGED <<pc, localVars, gauges, crashes>>
  BY <1>8 DEF Stop, StopShare
<1> QED
  BY <1>1, <1>2, <1>3, <1>4, <1>5, <1>6, <1>7, <1>8 DEF ReaderStep, CommandStep

(* A step that neither lets a handler into the counted places nor out of    *)
(* them leaves the counts right when it leaves them alone.                  *)
LEMMA CountFrame ==
  ASSUME GaugesInv, UNCHANGED connIds,
         \A c \in Conn : pc'[c] \in CountedAt <=> pc[c] \in CountedAt,
         \A c \in Conn : pc[c] \in CountedAt => tun'[c] = tun[c]
  PROVE  \A k \in Conn : IsFiniteSet(Counted(k)') /\ connIds'[k] = Cardinality(Counted(k)')
<1> TAKE k \in Conn
<1>1. Counted(k)' = Counted(k)
  BY DEF Counted
<1> QED
  BY <1>1 DEF GaugesInv

(* Steps that neither enter nor leave the stream keep the gauge exact. *)
LEMMA StreamFrame ==
  ASSUME GaugesInv, UNCHANGED rdpCount,
         \A c \in Conn : pc'[c] \in StreamingAt <=> pc[c] \in StreamingAt
  PROVE  IsFiniteSet(Streaming') /\ rdpCount' = Cardinality(Streaming')
<1>1. Streaming' = Streaming
  BY DEF Streaming
<1> QED
  BY <1>1 DEF GaugesInv

(* OnConnect: the count of the handler's guacd connection goes up. *)
LEMMA CountUp ==
  ASSUME GaugesInv, NEW c \in Conn, AddConn(c), UNCHANGED tun,
         pc[c] = "dial", pc'[c] \in CountedAt, \A d \in Conn \ {c} : pc'[d] = pc[d]
  PROVE  \A k \in Conn : IsFiniteSet(Counted(k)') /\ connIds'[k] = Cardinality(Counted(k)')
<1> TAKE k \in Conn
<1>0. connIds \in [Conn -> Nat] /\ tun[c] \in Conn
  BY HandlerTypes DEF GaugesInv, TunnelsKnown
<1>1. CASE tun[c] = k
  <2>1. Counted(k)' = Counted(k) \cup {c} /\ c \notin Counted(k)
    BY <1>1 DEF Counted, CountedAt
  <2>2. connIds'[k] = connIds[k] + 1
    BY <1>0, <1>1 DEF AddConn
  <2> QED
    BY <2>1, <2>2, FS_AddElement DEF GaugesInv
<1>2. CASE tun[c] # k
  <2>1. Counted(k)' = Counted(k)
    BY <1>2 DEF Counted
  <2>2. connIds'[k] = connIds[k]
    BY <1>0, <1>2 DEF AddConn
  <2> QED
    BY <2>1, <2>2 DEF GaugesInv
<1> QED
  BY <1>1, <1>2

(* IncRdpCount. *)
LEMMA StreamUp ==
  ASSUME GaugesInv, NEW c \in Conn, rdpCount' = rdpCount + 1,
         pc[c] \notin StreamingAt, pc'[c] \in StreamingAt, \A d \in Conn \ {c} : pc'[d] = pc[d]
  PROVE  IsFiniteSet(Streaming') /\ rdpCount' = Cardinality(Streaming')
<1>1. Streaming' = Streaming \cup {c} /\ c \notin Streaming
  BY DEF Streaming
<1> QED
  BY <1>1, FS_AddElement DEF GaugesInv

(* The deferred calls. *)
LEMMA CountDown ==
  ASSUME GaugesInv, NEW c \in Conn, Cleanup(c)
  PROVE  \A k \in Conn : IsFiniteSet(Counted(k)') /\ connIds'[k] = Cardinality(Counted(k)')
<1> TAKE k \in Conn
<1>0. /\ connIds \in [Conn -> Nat] /\ pc \in [Conn -> Place] /\ tun \in [Conn -> Conn \cup {None}]
      /\ None \notin Conn
  BY HandlerTypes DEF GaugesInv
<1>3. /\ pc[c] \in {"cleanup", "abort"}
      /\ pc' = [pc EXCEPT ![c] = "done"]
      /\ tun' = [tun EXCEPT ![c] = None]
      /\ connIds' = [connIds EXCEPT ![tun[c]] = IF connIds[tun[c]] = 0 THEN 0
                                                ELSE connIds[tun[c]] - 1]
  BY DEF Cleanup
<1>4. tun[c] \in Conn
  BY <1>3 DEF GaugesInv, TunnelsKnown, CountedAt
<1>1. CASE tun[c] = k
  <2>1. Counted(k)' = Counted(k) \ {c} /\ c \in Counted(k)
    BY <1>0, <1>1, <1>3 DEF Counted, CountedAt
  <2>2. /\ IsFiniteSet(Counted(k)') /\ Cardinality(Counted(k)') = Cardinality(Counted(k)) - 1
        /\ Cardinality(Counted(k)') \in Nat
    BY <2>1, FS_RemoveElement, FS_CardinalityType DEF GaugesInv
  <2>3. connIds'[k] = IF connIds[k] = 0 THEN 0 ELSE connIds[k] - 1
    BY <1>0, <1>1, <1>3
  <2> QED
    BY <2>2, <2>3 DEF GaugesInv
<1>2. CASE tun[c] # k
  <2>1. Counted(k)' = Counted(k)
    BY <1>0, <1>2, <1>3 DEF Counted
  <2>2. connIds'[k] = connIds[k]
    BY <1>0, <1>2, <1>3
  <2> QED
    BY <2>1, <2>2 DEF GaugesInv
<1> QED
  BY <1>1, <1>2

(* The deferred calls take a handler that streamed off the gauge.           *)
LEMMA StreamDown ==
  ASSUME GaugesInv, NEW c \in Conn, Cleanup(c)
  PROVE  IsFiniteSet(Streaming') /\ rdpCount' = Cardinality(Streaming')
<1>0. pc \in [Conn -> Place]
  BY HandlerTypes DEF GaugesInv
<1>1. CASE pc[c] = "abort"
  <2>1. rdpCount' = rdpCount /\ pc' = [pc EXCEPT ![c] = "done"]
    BY <1>1 DEF Cleanup
  <2> QED
    BY <1>0, <1>1, <2>1, StreamFrame DEF StreamingAt
<1>2. CASE pc[c] = "cleanup"
  <2>1. rdpCount' = rdpCount - 1 /\ pc' = [pc EXCEPT ![c] = "done"]
    BY <1>2 DEF Cleanup
  <2>2. Streaming' = Streaming \ {c} /\ c \in Streaming
    BY <1>0, <1>2, <2>1 DEF Streaming, StreamingAt
  <2> QED
    BY <2>1, <2>2, FS_RemoveElement DEF GaugesInv
<1> QED
  BY <1>1, <1>2 DEF Cleanup

(* The guacd connections stay known. *)
LEMMA TunnelStep ==
  ASSUME TypeOK, TunnelsKnown, [Next]_vars
  PROVE  TunnelsKnown'
<1> USE HandlerTypes DEF TunnelsKnown, CountedAt
<1>1. ASSUME NEW c \in Conn, ArriveHost(c) PROVE TunnelsKnown'
  BY <1>1 DEF ArriveHost
<1>2. ASSUME NEW c \in Conn, NEW q \in Conn, ArriveShare(c, q) \/ ArriveRefused(c, q)
      PROVE  TunnelsKnown'
  BY <1>2 DEF ArriveShare, ArriveRefused
<1>3. ASSUME NEW c \in Conn, AuthShareRoom(c) PROVE TunnelsKnown'
  BY <1>3 DEF AuthShareRoom
<1>4. ASSUME NEW c \in Conn, Launch(c) PROVE TunnelsKnown'
  BY <1>4 DEF Launch
<1>5. ASSUME NEW c \in Conn, Lookup(c) PROVE TunnelsKnown'
  BY <1>5 DEF Lookup
<1>6. ASSUME NEW c \in Conn, Attach(c) PROVE TunnelsKnown'
  BY <1>6 DEF Attach
<1>7. ASSUME NEW c \in Conn, ConnectError(c) PROVE TunnelsKnown'
  BY <1>7 DEF ConnectError
<1>8. ASSUME NEW c \in Conn, ConnectedOwner(c) PROVE TunnelsKnown'
  BY <1>8 DEF ConnectedOwner
<1>9. ASSUME NEW c \in Conn, OpenRoom(c) PROVE TunnelsKnown'
  BY <1>9 DEF OpenRoom, NewRdpSessionRoom
<1>10. ASSUME NEW c \in Conn, ConnectedGuest(c) PROVE TunnelsKnown'
  BY <1>10 DEF ConnectedGuest
<1>11. ASSUME NEW c \in Conn, Join(c) PROVE TunnelsKnown'
  BY <1>11 DEF Join, JoinRoom, join
<1>12. ASSUME NEW c \in Conn, JoinError(c) PROVE TunnelsKnown'
  BY <1>12 DEF JoinError
<1>13. ASSUME NEW c \in Conn, SessionPanic(c) PROVE TunnelsKnown'
  BY <1>13 DEF SessionPanic
<1>14. ASSUME NEW c \in Conn, Leave(c) PROVE TunnelsKnown'
  BY <1>14 DEF Leave, LeaveRoom, leave
<1>15. ASSUME NEW c \in Conn, LeaveError(c) PROVE TunnelsKnown'
  BY <1>15 DEF LeaveError
<1>16. ASSUME NEW c \in Conn, LeaveScan(c) PROVE TunnelsKnown'
  BY <1>16 DEF LeaveScan
<1>17. ASSUME NEW c \in Conn, LeaveClose(c) PROVE TunnelsKnown'
  BY <1>17 DEF LeaveClose, closeRoom
<1>18. ASSUME NEW c \in Conn, Cleanup(c) PROVE TunnelsKnown'
  BY <1>18 DEF Cleanup
<1>19. ASSUME NEW c \in Conn, Disconnect(c) PROVE TunnelsKnown'
  BY <1>19 DEF Disconnect
<1>20. ASSUME NEW c \in Conn, ReaderStep(c) \/ ReaderReceives(c) PROVE TunnelsKnown'
  BY <1>20, ReaderFrame
<1>21. ASSUME ProcessEnds PROVE TunnelsKnown'
  BY <1>21 DEF ProcessEnds
<1>22. CASE UNCHANGED vars
  BY <1>22
<1> QED
  BY <1>1, <1>2, <1>3, <1>4, <1>5, <1>6, <1>7, <1>8, <1>9, <1>10, <1>11, <1>12,
     <1>13, <1>14, <1>15, <1>16, <1>17, <1>18, <1>19, <1>20, <1>21, <1>22
  DEF Next, HandlerStep, StreamEnd, StopCrash, Crash, Quiet

(* The counts stay exact: connections are counted by OnConnect, streams by  *)
(* OpenRoom and Join, and Cleanup takes both back.                          *)
LEMMA CountStep ==
  ASSUME GaugesInv, [Next]_vars
  PROVE  /\ \A k \in Conn : IsFiniteSet(Counted(k)') /\ connIds'[k] = Cardinality(Counted(k)')
         /\ IsFiniteSet(Streaming') /\ rdpCount' = Cardinality(Streaming')
<1> DEFINE CountsKept ==
             \A k \in Conn : IsFiniteSet(Counted(k)') /\ connIds'[k] = Cardinality(Counted(k)')
           StreamsKept == IsFiniteSet(Streaming') /\ rdpCount' = Cardinality(Streaming')
           Kept == CountsKept /\ StreamsKept
           Still == /\ UNCHANGED <<connIds, rdpCount>>
                    /\ \A c \in Conn : /\ pc'[c] \in CountedAt <=> pc[c] \in CountedAt
                                       /\ pc'[c] \in StreamingAt <=> pc[c] \in StreamingAt
                                       /\ pc[c] \in CountedAt => tun'[c] = tun[c]
<1>0. /\ TypeOK /\ pc \in [Conn -> Place] /\ tun \in [Conn -> Conn \cup {None}]
  BY HandlerTypes DEF GaugesInv
<1>a. Still => Kept
  BY CountFrame, StreamFrame
<1> HIDE DEF CountsKept, StreamsKept
<1>1. ASSUME NEW c \in Conn, ArriveHost(c) PROVE Kept
  BY <1>1, <1>0, <1>a DEF ArriveHost, CountedAt, StreamingAt
<1>2. ASSUME NEW c \in Conn, NEW q \in Conn, ArriveShare(c, q) \/ ArriveRefused(c, q) PROVE Kept
  BY <1>2, <1>0, <1>a DEF ArriveShare, ArriveRefused, CountedAt, StreamingAt
<1>3. ASSUME NEW c \in Conn, AuthShareRoom(c) PROVE Kept
  BY <1>3, <1>0, <1>a DEF AuthShareRoom, CountedAt, StreamingAt
<1>4. ASSUME NEW c \in Conn, Launch(c) PROVE Kept
  BY <1>4, <1>0, <1>a DEF Launch, CountedAt, StreamingAt
<1>5. ASSUME NEW c \in Conn, Lookup(c) PROVE Kept
  BY <1>5, <1>0, <1>a DEF Lookup, CountedAt, StreamingAt
<1>6. ASSUME NEW c \in Conn, Attach(c) PROVE Kept
  BY <1>6, <1>0, <1>a DEF Attach, CountedAt, StreamingAt
<1>7. ASSUME NEW c \in Conn, ConnectError(c) PROVE Kept
  BY <1>7, <1>0, <1>a DEF ConnectError, CountedAt, StreamingAt
<1>8. ASSUME NEW c \in Conn, JoinError(c) PROVE Kept
  BY <1>8, <1>0, <1>a DEF JoinError, CountedAt, StreamingAt
<1>9. ASSUME NEW c \in Conn, SessionPanic(c) PROVE Kept
  BY <1>9, <1>0, <1>a DEF SessionPanic, CountedAt, StreamingAt
<1>10. ASSUME NEW c \in Conn, Leave(c) PROVE Kept
  BY <1>10, <1>0, <1>a DEF Leave, CountedAt, StreamingAt
<1>11. ASSUME NEW c \in Conn, LeaveError(c) PROVE Kept
  BY <1>11, <1>0, <1>a DEF LeaveError, CountedAt, StreamingAt
<1>12. ASSUME NEW c \in Conn, LeaveScan(c) PROVE Kept
  BY <1>12, <1>0, <1>a DEF LeaveScan, CountedAt, StreamingAt
<1>13. ASSUME NEW c \in Conn, LeaveClose(c) PROVE Kept
  BY <1>13, <1>0, <1>a DEF LeaveClose, CountedAt, StreamingAt
<1>14. ASSUME NEW c \in Conn, Disconnect(c) PROVE Kept
  BY <1>14, <1>0, <1>a DEF Disconnect, CountedAt, StreamingAt
<1>15. ASSUME NEW c \in Conn, ConnectedOwner(c) \/ ConnectedGuest(c) PROVE Kept
  <2>1. /\ AddConn(c) /\ UNCHANGED <<tun, rdpCount>> /\ pc[c] = "dial"
        /\ pc'[c] \in CountedAt \ StreamingAt /\ \A d \in Conn \ {c} : pc'[d] = pc[d]
    BY <1>15, <1>0 DEF ConnectedOwner, ConnectedGuest, CountedAt, StreamingAt
  <2>2. CountsKept
    BY <2>1, CountUp DEF CountsKept
  <2>3. StreamsKept
    BY <2>1, StreamFrame DEF StreamsKept, StreamingAt
  <2> QED
    BY <2>2, <2>3
<1>16. ASSUME NEW c \in Conn, OpenRoom(c) PROVE Kept
  <2>1. /\ UNCHANGED <<connIds, tun>> /\ rdpCount' = rdpCount + 1 /\ pc[c] = "newRoom"
        /\ pc'[c] = "stream" /\ \A d \in Conn \ {c} : pc'[d] = pc[d]
    BY <1>16, <1>0 DEF OpenRoom
  <2>2. CountsKept
    BY <2>1, CountFrame DEF CountsKept, CountedAt
  <2>3. StreamsKept
    BY <2>1, StreamUp DEF StreamsKept, StreamingAt
  <2> QED
    BY <2>2, <2>3
<1>17. ASSUME NEW c \in Conn, Join(c) PROVE Kept
  <2>1. /\ UNCHANGED <<connIds, tun>> /\ pc[c] = "join"
        /\ \/ pc'[c] = "stream" /\ rdpCount' = rdpCount + 1
           \/ pc'[c] = "abort" /\ rdpCount' = rdpCount
        /\ \A d \in Conn \ {c} : pc'[d] = pc[d]
    BY <1>17, <1>0 DEF Join
  <2>2. CountsKept
    BY <2>1, CountFrame DEF CountsKept, CountedAt
  <2>3. StreamsKept
    BY <2>1, StreamUp, StreamFrame DEF StreamsKept, StreamingAt
  <2> QED
    BY <2>2, <2>3
<1>18. ASSUME NEW c \in Conn, Cleanup(c) PROVE Kept
  BY <1>18, CountDown, StreamDown DEF CountsKept, StreamsKept
<1>19. ASSUME NEW c \in Conn, ReaderStep(c) \/ ReaderReceives(c) PROVE Kept
  BY <1>19, <1>a, ReaderFrame
<1>20. ASSUME ProcessEnds PROVE Kept
  <2>1. /\ pc' = [c \in Conn |-> IF pc[c] = "idle" THEN "idle" ELSE "done"]
        /\ connIds' = [c \in Conn |-> 0] /\ rdpCount' = 0
    BY <1>20 DEF ProcessEnds
  <2>2. Streaming' = {} /\ \A k \in Conn : Counted(k)' = {}
    BY <2>1 DEF Streaming, Counted, StreamingAt, CountedAt
  <2> QED
    BY <2>1, <2>2, FS_EmptySet DEF CountsKept, StreamsKept
<1>21. ASSUME UNCHANGED vars PROVE Kept
  BY <1>21, <1>a
<1>22. Kept
  BY <1>1, <1>2, <1>3, <1>4, <1>5, <1>6, <1>7, <1>8, <1>9, <1>10, <1>11, <1>12,
     <1>13, <1>14, <1>15, <1>16, <1>17, <1>18, <1>19, <1>20, <1>21
  DEF Next, HandlerStep, StreamEnd, StopCrash, Crash, Quiet
<1> QED
  BY <1>22 DEF CountsKept, StreamsKept

(* The gauges keep the invariant in every execution. *)
THEOREM GaugesCorrect == Spec => []GaugesInv
<1>1. Init => GaugesInv
  <2> SUFFICES ASSUME Init PROVE GaugesInv
    OBVIOUS
  <2>1. /\ rdpRooms = {} /\ pc = [c \in Conn |-> "idle"]
        /\ connIds = [c \in Conn |-> 0] /\ rdpCount = 0
    BY DEF Init, RoomsInit
  <2>2. TunnelsKnown /\ Streaming = {} /\ \A k \in Conn : Counted(k) = {}
    BY <2>1 DEF TunnelsKnown, Streaming, Counted, StreamingAt, CountedAt
  <2> QED
    BY <2>1, <2>2, TypeInit, FS_EmptySet DEF GaugesInv
<1>2. GaugesInv /\ [Next]_vars => GaugesInv'
  BY TypeStep, TunnelStep, CountStep DEF GaugesInv
<1> QED
  BY <1>1, <1>2, PTL DEF Spec

(* MemorySessionStore and the session gauge count the handlers exactly,     *)
(* through every early return, failed join, recovered panic and restart.    *)
THEOREM GaugesStayExact == Spec => []GaugesExact
<1>1. GaugesInv => GaugesExact
  BY DEF GaugesInv, GaugesExact, Counted, CountedAt, Streaming, StreamingAt
<1> QED
  BY <1>1, GaugesCorrect, PTL
=============================================================================
