---------------------------- MODULE RdpCommands ----------------------------
(***************************************************************************)
(* The reader goroutine of a connection (wsToGuacd and                     *)
(* handleAppaegisCommand of pkg/ws_server.go) and the commands of          *)
(* pkg/commands.go that change a room: share-session, remove-share,        *)
(* set-permissions and stop-share.                                         *)
(*                                                                         *)
(* An instruction is taken by Receive, which makes the reads the command   *)
(* makes before its first write (session data, role, room) and leaves the  *)
(* command in cmd[c]; each further step is one critical section, one       *)
(* unlocked access or one database call.  An instruction with several      *)
(* arguments repeats these steps for each of them, so one argument is      *)
(* modelled.  The goroutine outlives the handler of its connection: a      *)
(* command already taken is finished whatever happens to the connection.   *)
(***************************************************************************)
EXTENDS RdpRooms

CONSTANTS
    Command,     \* the commands each connection sends in this instance
    Named,       \* the users the commands of this instance name
    Grant        \* the permission arguments clients send, by the user they are for

ASSUME CommandAssumption ==
    /\ Command \in [Conn -> SUBSET {"share", "remove", "perm", "stop"}]
    /\ Named \subseteq User
    /\ Grant \in [User -> SUBSET Permission]

VARIABLES
    cmd    \* the command the reader goroutine of a connection is executing

Step == {"none", "share", "shareDb", "remove", "removeDb",
         "perm", "permInvitee", "permDb", "stop"}

CommandState == [step : Step, room : Conn \cup {None},
                 user : User \cup {None}, perm : Permission]

NoCommand == [step |-> "none", room |-> None, user |-> None, perm |-> {}]

CommandsTypeOK == cmd \in [Conn -> CommandState]

CommandsInit == cmd = [c \in Conn |-> NoCommand]

Goto(c, step) == cmd' = [cmd EXCEPT ![c].step = step]
Finish(c) == cmd' = [cmd EXCEPT ![c] = NoCommand]

-----------------------------------------------------------------------------
(* Mutant: remove-share without its check for the host. *)
MayRemove_Host(r, u) == r \in rdpRooms

-----------------------------------------------------------------------------
(* What remove-share, set-permissions and stop-share check before they      *)
(* start.  share-session checks nothing: AddInvitee looks the room up later. *)
MayRemove(r, u) == r \in rdpRooms /\ creator[r] # u
MaySetPermissions(c, r) == role[c] # "viewer" /\ r \in rdpRooms
MayStopShare(c, r) == role[c] = "admin" /\ r \in rdpRooms

(* GetCommandByOp: the command an instruction names. *)
Accepts(c, r, op, u) ==
    CASE op = "share"  -> TRUE
      [] op = "remove" -> MayRemove(r, u)
      [] op = "perm"   -> MaySetPermissions(c, r)
      [] op = "stop"   -> MayStopShare(c, r)

(* handleAppaegisCommand: without session data the instruction is dropped.  *)
(* Instructions that are refused change nothing and are not steps.          *)
Receive(c, r) ==
    /\ cmd[c] = NoCommand
    /\ r \in sessionData
    /\ \E op \in Command[c] : \E u \in Named : \E p \in Grant[u] :
          /\ Accepts(c, r, op, u)
          /\ cmd' = [cmd EXCEPT ![c] =
                [step |-> op, room |-> r,
                 user |-> IF op = "stop" THEN None ELSE u,
                 perm |-> IF op \in {"share", "perm"} THEN p ELSE {}]]
    /\ UNCHANGED <<lock, roomVars, open, storeVars>>

(* RequestSharingCommand: the room first, the database afterwards. *)
Share(c) ==
    LET k == cmd[c] IN
    /\ k.step = "share"
    /\ AddInvitee(k.room, k.user, k.perm)
    /\ IF AddInviteeOK(k.room) THEN Goto(c, "shareDb") ELSE Finish(c)
    /\ UNCHANGED storeVars

(* dbAccess.ShareRdpSession, the last step of share and of set-permissions. *)
ShareRdpSession(c) ==
    LET k == cmd[c] IN
    /\ k.step \in {"shareDb", "permDb"}
    /\ \/ invited' = [invited EXCEPT ![k.room][k.user] = k.perm]
       \/ StoreFails /\ UNCHANGED invited
    /\ Finish(c)
    /\ UNCHANGED <<lock, roomVars, open, sessionData, active, kv, queued>>

(* RemoveShareCommand: the user is put out of the room, then of the database. *)
Remove(c) ==
    /\ cmd[c].step = "remove"
    /\ RemoveUser(cmd[c].room, cmd[c].user)
    /\ Goto(c, "removeDb")
    /\ UNCHANGED storeVars

RemoveInvitee(c) ==
    LET k == cmd[c] IN
    /\ k.step = "removeDb"
    /\ \/ invited' = [invited EXCEPT ![k.room][k.user] = None]
       \/ StoreFails /\ UNCHANGED invited
    /\ Finish(c)
    /\ UNCHANGED <<lock, roomVars, open, sessionData, active, kv, queued>>

(* SetPermissions holds no mutex.  The client object of the user, if there  *)
(* is one, is changed in place, the creator's too.                          *)
SetClient(c) ==
    LET k == cmd[c]
        client == {users[k.room][k.user]} \ {None}
    IN
    /\ k.step = "perm"
    /\ role' = [x \in Conn |-> IF x \in client THEN GuestRole(k.perm) ELSE role[x]]
    /\ control' = [x \in Conn |-> IF x \in client THEN k.perm \ {"admin"} ELSE control[x]]
    /\ Goto(c, IF invitees[k.room][k.user] # None THEN "permInvitee" ELSE "permDb")
    /\ UNCHANGED <<lock, rdpRooms, creator, rdpConn, users, invitees, open, storeVars>>

(* The write of the invitee found by the loop just before. *)
SetInvitee(c) ==
    LET k == cmd[c] IN
    /\ k.step = "permInvitee"
    /\ invitees' = [invitees EXCEPT ![k.room][k.user] = k.perm]
    /\ Goto(c, "permDb")
    /\ UNCHANGED <<lock, rdpRooms, creator, rdpConn, users, role, control, open, storeVars>>

(* StopShareCommand with the creator still in the room. *)
Stop(c) ==
    /\ cmd[c].step = "stop"
    /\ StopShare(cmd[c].room)
    /\ Finish(c)
    /\ UNCHANGED <<sessionData, active, kv, queued>>

(* With the creator gone StopShare writes through a nil client: the panic is *)
(* in a goroutine nobody recovers and ends the process (see WsServer).       *)
StopPanics(c) ==
    /\ cmd[c].step = "stop"
    /\ users[cmd[c].room][creator[cmd[c].room]] = None

CommandStep(c) ==
    \/ Share(c)
    \/ ShareRdpSession(c)
    \/ Remove(c)
    \/ RemoveInvitee(c)
    \/ SetClient(c)
    \/ SetInvitee(c)
    \/ Stop(c)
=============================================================================
