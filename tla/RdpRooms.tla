------------------------------ MODULE RdpRooms ------------------------------
(***************************************************************************)
(* The sharing rooms of the gateway: pkg/rdp_sharing.go with the stores it *)
(* writes (pkg/mem_session_data.go, the database of pkg/db.go, the address *)
(* cache of pkg/kv.go and the recording queue of pkg/redis.go).            *)
(*                                                                         *)
(* A websocket connection is a member of Conn.  The tunnel uuid of the     *)
(* connection that launched a session is that session's id, so rooms and   *)
(* sessions are named by members of Conn too.  The RdpClient object a room *)
(* holds for a user is named by the connection it was made for.  The model *)
(* covers one appId and one tenant.                                        *)
(*                                                                         *)
(* Critical sections: `lock' is the package mutex.  NewRdpSessionRoom,     *)
(* JoinRoom, AddInvitee and LeaveRoom hold it; every other access to       *)
(* rdpRooms is made without it.  A section that also holds or only holds   *)
(* the mutex of one room (join, leave, RemoveUser, StopShare) is one step. *)
(***************************************************************************)
EXTENDS Integers, FiniteSets

CONSTANTS
    User,          \* user ids
    Conn,          \* websocket connections, and the session ids they launch
    InviteeLimit,  \* INVITEE_LIMIT of pkg/commands.go
    StoreFails,    \* whether calls to the database and the cache may fail
    None           \* no user, connection, room or permission

(* A permission string such as "keyboard,mouse,admin" is only ever searched *)
(* with strings.Contains: it is the set of the words it holds.              *)
Rights == {"admin", "mouse", "keyboard"}
Permission == SUBSET Rights
Role == {"admin", "cohost", "viewer"}

ASSUME NoneAssumption == None \notin Conn \cup User /\ \A p \in Permission : p # None
ASSUME StoreAssumption == StoreFails \in BOOLEAN
ASSUME LimitAssumption == InviteeLimit \in Nat \ {0}

VARIABLES
    lock,        \* holder of the package mutex, or None
    rdpRooms,    \* the session ids with an entry in the map rdpRooms
    creator,     \* RdpSessionRoom.Creator; None until the room object exists
    rdpConn,     \* RdpSessionRoom.RdpConnectionId
    users,       \* RdpSessionRoom.Users: the client object of each user
    invitees,    \* RdpSessionRoom.Invitees: the permissions of each user
    role,        \* RdpClient.Role of the client object of a connection
    control,     \* RdpClient.Mouse and RdpClient.Keyboard, as a set
    open         \* websockets that neither side has closed
VARIABLES
    sessionData, \* the keys of SessionDataStore
    active,      \* sessions with an ActiveRdpSession record in the database
    invited,     \* ActiveRdpSessionInvitee records: permissions by session and user
    kv,          \* sessions with a guac-<id> address entry in the cache
    queued       \* how often a session's recording was handed to PushToQueue

roomVars == <<rdpRooms, creator, rdpConn, users, invitees, role, control>>
storeVars == <<sessionData, active, invited, kv, queued>>

RoomsTypeOK ==
    /\ lock \in Conn \cup {None}
    /\ rdpRooms \subseteq Conn
    /\ creator \in [Conn -> User \cup {None}]
    /\ rdpConn \in [Conn -> Conn \cup {None}]
    /\ users \in [Conn -> [User -> Conn \cup {None}]]
    /\ invitees \in [Conn -> [User -> {None} \cup Permission]]
    /\ role \in [Conn -> Role]
    /\ control \in [Conn -> SUBSET {"mouse", "keyboard"}]
    /\ open \subseteq Conn
    /\ sessionData \subseteq Conn
    /\ active \subseteq Conn
    /\ invited \in [Conn -> [User -> {None} \cup Permission]]
    /\ kv \subseteq Conn
    /\ queued \in [Conn -> Nat]

RoomsInit ==
    /\ lock = None
    /\ rdpRooms = {}
    /\ creator = [s \in Conn |-> None]
    /\ rdpConn = [s \in Conn |-> None]
    /\ users = [s \in Conn |-> [u \in User |-> None]]
    /\ invitees = [s \in Conn |-> [u \in User |-> None]]
    /\ role = [c \in Conn |-> "viewer"]
    /\ control = [c \in Conn |-> {}]
    /\ open = {}
    /\ sessionData = {}
    /\ active = {}
    /\ invited = [s \in Conn |-> [u \in User |-> None]]
    /\ kv = {}
    /\ queued = [s \in Conn |-> 0]

-----------------------------------------------------------------------------
(* Mutants: what a slip in the code would make of a definition below.       *)

GuestRole_Promotes(p) == IF "admin" \in p THEN "admin" ELSE "viewer"

AddInviteeOK_OffByOne(r) ==
    r \in rdpRooms /\ Cardinality({u \in User : invitees[r][u] # None}) <= InviteeLimit

RemoveUser_LeavesOpen(r, u) ==
    /\ invitees' = [invitees EXCEPT ![r][u] = None]
    /\ users' = [users EXCEPT ![r][u] = None]
    /\ UNCHANGED <<lock, rdpRooms, creator, rdpConn, role, control, open>>

leave_KeepsUser(r, u) == UNCHANGED users

JoinRoom_NoLock(r, u, c, p) ==
    /\ r \in rdpRooms
    /\ users' = [users EXCEPT ![r][u] = c]
    /\ role' = [role EXCEPT ![c] = IF creator[r] = u THEN "admin"
                                   ELSE IF "admin" \in p THEN "cohost" ELSE "viewer"]
    /\ control' = [control EXCEPT ![c] = p \ {"admin"}]
    /\ UNCHANGED <<lock, rdpRooms, creator, rdpConn, invitees, open>>

HasAdmin_OfInvitees(r) == \E u \in User : invitees[r][u] # None

closeRoom_LeavesOpen(r) ==
    /\ rdpRooms' = rdpRooms \ {r}
    /\ sessionData' = sessionData \ {r}
    /\ active' = active \ {r} \/ (StoreFails /\ UNCHANGED active)
    /\ kv' = kv \ {r} \/ (StoreFails /\ UNCHANGED kv)
    /\ queued' = IF r \in sessionData THEN [queued EXCEPT ![r] = @ + 1] ELSE queued
    /\ lock' = None
    /\ UNCHANGED <<creator, rdpConn, users, invitees, role, control, open, invited>>

closeRoom_KeepsRoom(r) ==
    /\ open' = open \ {users[r][u] : u \in User}
    /\ active' = active \ {r} \/ (StoreFails /\ UNCHANGED active)
    /\ kv' = kv \ {r} \/ (StoreFails /\ UNCHANGED kv)
    /\ queued' = IF r \in sessionData THEN [queued EXCEPT ![r] = @ + 1] ELSE queued
    /\ lock' = None
    /\ UNCHANGED <<rdpRooms, creator, rdpConn, users, invitees, role, control, invited,
                   sessionData>>

closeRoom_KeepsCache(r) ==
    /\ open' = open \ {users[r][u] : u \in User}
    /\ rdpRooms' = rdpRooms \ {r}
    /\ sessionData' = sessionData \ {r}
    /\ active' = active \ {r} \/ (StoreFails /\ UNCHANGED active)
    /\ queued' = IF r \in sessionData THEN [queued EXCEPT ![r] = @ + 1] ELSE queued
    /\ lock' = None
    /\ UNCHANGED <<creator, rdpConn, users, invitees, role, control, invited, kv>>

-----------------------------------------------------------------------------
(* What the unlocked readers of the maps see. *)

Members(r) == {u \in User : users[r][u] # None}

Invited(r) == {u \in User : invitees[r][u] # None}

(* Any room of the creator that the creator is not in: the map is iterated  *)
(* in an arbitrary order.                                                   *)
GetRoomByAppIdAndCreator(u) ==
    {r \in rdpRooms : creator[r] = u /\ users[r][u] = None}

(* The role SetPermissions and join give to someone who is not the creator. *)
GuestRole(p) == IF "admin" \in p THEN "cohost" ELSE "viewer"

-----------------------------------------------------------------------------
(* NewRdpSessionRoom, run by connection c for the session c. *)
NewRdpSessionRoom(c, u, connectionId) ==
    /\ lock = None
    /\ creator' = [creator EXCEPT ![c] = u]
    /\ rdpConn' = [rdpConn EXCEPT ![c] = connectionId]
    /\ invitees' = [invitees EXCEPT ![c] = [v \in User |-> IF v = u THEN Rights ELSE None]]
    /\ users' = [users EXCEPT ![c] = [v \in User |-> IF v = u THEN c ELSE None]]
    /\ role' = [role EXCEPT ![c] = "admin"]
    /\ control' = [control EXCEPT ![c] = {"mouse", "keyboard"}]
    /\ rdpRooms' = rdpRooms \cup {c}
    /\ UNCHANGED <<lock, open>>

(* RdpSessionRoom.join: connection c becomes the client object of user u,   *)
(* whoever was there before.                                                *)
join(r, u, c, p) ==
    /\ users' = [users EXCEPT ![r][u] = c]
    /\ role' = [role EXCEPT ![c] = IF creator[r] = u THEN "admin" ELSE GuestRole(p)]
    /\ control' = [control EXCEPT ![c] = p \ {"admin"}]

(* JoinRoom when it finds the room. *)
JoinRoom(r, u, c, p) ==
    /\ lock = None
    /\ r \in rdpRooms
    /\ join(r, u, c, p)
    /\ UNCHANGED <<lock, rdpRooms, creator, rdpConn, invitees, open>>

(* JoinRoom when the room is gone. *)
JoinRoomError(r) ==
    /\ lock = None
    /\ r \notin rdpRooms

(* AddInvitee succeeds when the room is there and below the limit. *)
AddInviteeOK(r) == r \in rdpRooms /\ Cardinality(Invited(r)) < InviteeLimit

AddInvitee(r, u, p) ==
    /\ lock = None
    /\ IF AddInviteeOK(r)
       THEN invitees' = [invitees EXCEPT ![r][u] = p]
       ELSE UNCHANGED invitees
    /\ UNCHANGED <<lock, rdpRooms, creator, rdpConn, users, role, control, open>>

(* RemoveUser runs under the room's own mutex only. *)
RemoveUser(r, u) ==
    /\ invitees' = [invitees EXCEPT ![r][u] = None]
    /\ users' = [users EXCEPT ![r][u] = None]
    /\ open' = open \ {users[r][u]}
    /\ UNCHANGED <<lock, rdpRooms, creator, rdpConn, role, control>>

(* The database calls of StopShare, whose errors are dropped: `kept' are    *)
(* the records that could not be removed.                                   *)
DropInvited(r) ==
    \E kept \in (IF StoreFails THEN SUBSET User ELSE {{}}) :
       invited' = [invited EXCEPT ![r] =
                      [u \in User |-> IF u \in (Invited(r) \ {creator[r]}) \ kept
                                      THEN None ELSE invited[r][u]]]

(* StopShare with the creator in the room. *)
StopShare(r) ==
    /\ users[r][creator[r]] # None
    /\ invitees' = [invitees EXCEPT ![r] =
                      [u \in User |-> IF u = creator[r] THEN invitees[r][u] ELSE None]]
    /\ DropInvited(r)
    /\ open' = open \ {users[r][u] : u \in User \ {creator[r]}}
    /\ users' = [users EXCEPT ![r] =
                      [u \in User |-> IF u = creator[r] THEN users[r][u] ELSE None]]
    /\ UNCHANGED <<lock, rdpRooms, creator, rdpConn, role, control>>

(* RdpSessionRoom.leave: the user is deleted, whichever connection made the *)
(* client object.                                                           *)
leave(r, u) == users' = [users EXCEPT ![r][u] = None]

(* LeaveRoom up to and including leave: the package mutex is taken. *)
LeaveRoom(c, r, u) ==
    /\ lock = None
    /\ r \in rdpRooms
    /\ lock' = c
    /\ leave(r, u)
    /\ UNCHANGED <<rdpRooms, creator, rdpConn, invitees, role, control, open>>

(* The scan of LeaveRoom, made without the room's mutex. *)
HasAdmin(r) == \E u \in Members(r) : role[users[r][u]] # "viewer"

(* closeRoom; the errors of the two deletions are only logged.  Without     *)
(* session data the recording is not queued: ses.RdpSessionId panics first. *)
closeRoom(r) ==
    /\ open' = open \ {users[r][u] : u \in User}
    /\ rdpRooms' = rdpRooms \ {r}
    /\ sessionData' = sessionData \ {r}
    /\ active' = active \ {r} \/ (StoreFails /\ UNCHANGED active)
    /\ kv' = kv \ {r} \/ (StoreFails /\ UNCHANGED kv)
    /\ queued' = IF r \in sessionData THEN [queued EXCEPT ![r] = @ + 1] ELSE queued
    /\ lock' = None
    /\ UNCHANGED <<creator, rdpConn, users, invitees, role, control, invited>>
=============================================================================
