----------------------------- MODULE RoomWrites -----------------------------
(***************************************************************************)
(* Who waits for whom when a client stops reading.  Messages to the        *)
(* members of a room are written to their websockets by every goroutine    *)
(* that changes it: JoinRoom, LeaveRoom and StopShare of                   *)
(* pkg/rdp_sharing.go with a mutex in hand, the commands of                *)
(* pkg/commands.go and the relay guacdToWs without.  A write takes the     *)
(* mutex of its websocket (pkg/types.go) and, with no deadline set, lasts  *)
(* while the client does not read.  Closing a websocket takes no mutex and *)
(* ends such a write.                                                      *)
(*                                                                         *)
(* One room is followed to its end, from a host that is streaming and      *)
(* those who have joined it, with a connection for each user; WsServer has *)
(* rooms, invitations and returning hosts in full.  What the messages say  *)
(* is left out, and the roles, which set-permissions changes: a member is  *)
(* a viewer or not as the model likes.                                     *)
(***************************************************************************)
EXTENDS Naturals, FiniteSets

CONSTANTS
    Client,     \* the host and the users that join, each with its websocket
    Host,       \* r.Creator
    Present,    \* the host and the users that have joined at the start
    Command,    \* the commands a client sends
    Fate,       \* what may befall a client's connection
    None        \* nobody

(* guacd draws on it, the client stops reading (and reads on), the client   *)
(* goes away, guacd ends the stream or takes no more input.                 *)
Events == {"draw", "stall", "go", "end"}

Handler(c) == <<"handler", c>>     \* the goroutine of ServeHTTP
Reader(c) == <<"reader", c>>       \* the goroutine of wsToGuacd
Goroutine == {"handler", "reader"} \X Client

ASSUME ClientAssumption ==
    /\ IsFiniteSet(Client)
    /\ Host \in Present
    /\ Present \subseteq Client
    /\ Fate \in [Client -> SUBSET Events]
    /\ Command \in [Client -> SUBSET {"share", "perm", "remove", "stop"}]
    /\ None \notin Client \cup Goroutine

VARIABLES
    room,       \* whether the room is in rdpRooms
    users,      \* the keys of its Users
    invitees,   \* the keys of its Invitees
    lock,       \* who holds the package mutex
    roomLock,   \* who holds the room's mutex; most hold it for one step
    mux,        \* who holds the mutex of a websocket
    sock,       \* a websocket: its client reads, does not read, or it is closed
    pc,         \* where a goroutine stands
    todo,       \* the members it has still to write to
    to,         \* the member it is writing to
    victim,     \* the user a remove-share names
    hasAdmin    \* the local variable of LeaveRoom

roomVars == <<room, users, invitees>>
writeVars == <<pc, todo, to>>
vars == <<roomVars, lock, roomLock, mux, sock, writeVars, victim, hasAdmin>>

Place ==
    {"idle", "lockJoin", "join", "joinList", "permission", "stream", "relay",
     "lockLeave", "leave", "leaveList", "done", "crashed",
     "off", "read", "share", "invite", "notify", "list", "stop", "stopList", "answer"}

TypeOK ==
    /\ room \in BOOLEAN
    /\ users \subseteq Client
    /\ invitees \subseteq Client
    /\ lock \in Goroutine \cup {None}
    /\ roomLock \in Goroutine \cup {None}
    /\ mux \in [Client -> Goroutine \cup {None}]
    /\ sock \in [Client -> {"reads", "stalled", "closed"}]
    /\ pc \in [Goroutine -> Place]
    /\ todo \in [Goroutine -> SUBSET Client]
    /\ to \in [Goroutine -> Client \cup {None}]
    /\ victim \in [Client -> Client \cup {None}]
    /\ hasAdmin \in BOOLEAN

Init ==
    /\ room = TRUE
    /\ users = Present
    /\ invitees = Client
    /\ lock = None
    /\ roomLock = None
    /\ mux = [c \in Client |-> None]
    /\ sock = [c \in Client |-> "reads"]
    /\ pc = [g \in Goroutine |->
               IF g[2] \in Present THEN IF g[1] = "handler" THEN "stream" ELSE "read"
               ELSE IF g[1] = "handler" THEN "idle" ELSE "off"]
    /\ todo = [g \in Goroutine |-> {}]
    /\ to = [g \in Goroutine |-> None]
    /\ victim = [c \in Client |-> None]
    /\ hasAdmin = FALSE

At(g, place) == pc[g] = place
Move(g, place) == pc' = [pc EXCEPT ![g] = place] /\ UNCHANGED <<todo, to>>

(* The goroutine goes on to write to the members S. *)
Send(g, S, place) ==
    /\ pc' = [pc EXCEPT ![g] = place]
    /\ todo' = [todo EXCEPT ![g] = S]
    /\ UNCHANGED to

(* A loop over Users does not come to members that are deleted meanwhile.   *)
Left(g) ==
    IF pc[g] \in {"joinList", "leaveList", "list"} THEN todo[g] \cap users ELSE todo[g]

(* It has written to all of them. *)
Sent(g, place) == At(g, place) /\ to[g] = None /\ Left(g) = {}

Close(S) == sock' = [c \in Client |-> IF c \in S THEN "closed" ELSE sock[c]]

-----------------------------------------------------------------------------
(* Mutants: what a slip in the code would make of a definition below.       *)

StopShare_KeepsHostInvited(c) ==
    /\ At(Reader(c), "stop")
    /\ roomLock = None
    /\ Host \in users
    /\ roomLock' = Reader(c)
    /\ invitees' = {}
    /\ users' = {Host}
    /\ Close(users \ {Host})
    /\ Move(Reader(c), "share")
    /\ UNCHANGED <<room, lock, mux, victim, hasAdmin>>

Relayed_IgnoresError(c) ==
    /\ Sent(Handler(c), "relay")
    /\ Move(Handler(c), "stream")
    /\ UNCHANGED <<roomVars, lock, roomLock, mux, sock, victim, hasAdmin>>

Leave_KeepsUser(c) ==
    /\ At(Handler(c), "leave")
    /\ IF room
       THEN /\ roomLock = None
            /\ Send(Handler(c), users, "leaveList")
            /\ UNCHANGED <<lock, sock>>
       ELSE /\ lock' = None
            /\ Send(Handler(c), {}, "done")
            /\ Close({c})
    /\ UNCHANGED <<roomVars, roomLock, mux, victim, hasAdmin>>

StopShare_LocksWrites(c) ==
    /\ At(Reader(c), "stop")
    /\ roomLock = None
    /\ Host \in users
    /\ \A u \in users \ {Host} : mux[u] = None
    /\ roomLock' = Reader(c)
    /\ invitees' = invitees \cap {Host}
    /\ users' = {Host}
    /\ Close(users \ {Host})
    /\ Send(Reader(c), {Host}, "stopList")
    /\ UNCHANGED <<room, lock, mux, victim, hasAdmin>>

-----------------------------------------------------------------------------
(* WrappedWebSocket.WriteMessage, called in a loop over the members.  The   *)
(* loop of LeaveRoom looks for an admin on its way, and writes only while   *)
(* somebody is invited.                                                     *)
Visit(g, c) ==
    /\ to[g] = None
    /\ c \in Left(g)
    /\ todo' = [todo EXCEPT ![g] = @ \ {c}]
    /\ hasAdmin' \in {hasAdmin, hasAdmin \/ At(g, "leaveList")}
    /\ IF At(g, "leaveList") /\ Cardinality(invitees) <= 1
       THEN UNCHANGED <<to, mux>>
       ELSE /\ to' = [to EXCEPT ![g] = c]
            /\ mux' = [mux EXCEPT ![c] = IF @ = None THEN g ELSE @]
    /\ UNCHANGED <<roomVars, lock, roomLock, sock, pc, victim>>

(* The mutex of the websocket was taken: the goroutine waited for it. *)
LockMux(g) ==
    /\ to[g] # None
    /\ mux[to[g]] = None
    /\ mux' = [mux EXCEPT ![to[g]] = g]
    /\ UNCHANGED <<roomVars, lock, roomLock, sock, writeVars, victim, hasAdmin>>

(* The write succeeds, or fails because the websocket is closed. *)
Written(g) ==
    /\ to[g] # None
    /\ mux[to[g]] = g
    /\ sock[to[g]] # "stalled"
    /\ mux' = [mux EXCEPT ![to[g]] = None]
    /\ to' = [to EXCEPT ![g] = None]
    /\ UNCHANGED <<roomVars, lock, roomLock, sock, pc, todo, victim, hasAdmin>>

-----------------------------------------------------------------------------
(* A handler returns: its deferred call closes the websocket. *)
Return(c) == Send(Handler(c), {}, "done")

(* A user comes to join; AuthShare has let it in. *)
Arrive(c) ==
    /\ At(Handler(c), "idle")
    /\ Move(Handler(c), "lockJoin")
    /\ UNCHANGED <<roomVars, lock, roomLock, mux, sock, victim, hasAdmin>>

(* JoinRoom and LeaveRoom wait for the package mutex. *)
Lock(c) ==
    /\ lock = None
    /\ lock' = Handler(c)
    /\ \/ At(Handler(c), "lockJoin") /\ Move(Handler(c), "join")
       \/ At(Handler(c), "lockLeave") /\ Move(Handler(c), "leave")
    /\ UNCHANGED <<roomVars, roomLock, mux, sock, victim, hasAdmin>>

(* JoinRoom: the room's mutex is taken with the package mutex in hand.  A   *)
(* loop over Users that nobody locks may come to the new member or not.     *)
Join(c) ==
    /\ At(Handler(c), "join")
    /\ IF room
       THEN /\ roomLock = None
            /\ users' = users \cup {c}
            /\ pc' = [pc EXCEPT ![Handler(c)] = "joinList"]
            /\ \E S \in SUBSET {g \in Goroutine : At(g, "list") /\ Left(g) # {}} :
                  todo' = [g \in Goroutine |-> IF g = Handler(c) THEN users'
                                              ELSE IF g \in S THEN todo[g] \cup {c}
                                              ELSE todo[g]]
            /\ UNCHANGED <<lock, sock, to>>
       ELSE /\ lock' = None
            /\ Return(c)
            /\ Close({c})
            /\ UNCHANGED users
    /\ UNCHANGED <<room, invitees, roomLock, mux, victim, hasAdmin>>

(* It returns when every member has got the list; SendPermission writes to  *)
(* the new one.                                                             *)
Joined(c) ==
    /\ Sent(Handler(c), "joinList")
    /\ lock' = None
    /\ Send(Handler(c), {c}, "permission")
    /\ UNCHANGED <<roomVars, roomLock, mux, sock, victim, hasAdmin>>

(* ServeHTTP starts the reader and relays what guacd sends. *)
Start(c) ==
    /\ Sent(Handler(c), "permission")
    /\ pc' = [pc EXCEPT ![Handler(c)] = "stream", ![Reader(c)] = "read"]
    /\ UNCHANGED <<roomVars, lock, roomLock, mux, sock, todo, to, victim, hasAdmin>>

Relay(c) ==
    /\ "draw" \in Fate[c]
    /\ At(Handler(c), "stream")
    /\ Send(Handler(c), {c}, "relay")
    /\ UNCHANGED <<roomVars, lock, roomLock, mux, sock, victim, hasAdmin>>

Relayed(c) ==
    /\ Sent(Handler(c), "relay")
    /\ Move(Handler(c), IF sock[c] = "closed" THEN "lockLeave" ELSE "stream")
    /\ UNCHANGED <<roomVars, lock, roomLock, mux, sock, victim, hasAdmin>>

(* guacd ends the stream, or is silent for SocketTimeout; or a closed       *)
(* websocket is noticed.                                                    *)
StreamEnd(c) ==
    /\ "end" \in Fate[c] \/ sock[c] = "closed"
    /\ At(Handler(c), "stream")
    /\ Move(Handler(c), "lockLeave")
    /\ UNCHANGED <<roomVars, lock, roomLock, mux, sock, victim, hasAdmin>>

(* LeaveRoom, likewise, ... *)
Leave(c) ==
    /\ At(Handler(c), "leave")
    /\ IF room
       THEN /\ roomLock = None
            /\ users' = users \ {c}
            /\ Send(Handler(c), users', "leaveList")
            /\ UNCHANGED <<lock, sock>>
       ELSE /\ lock' = None
            /\ Return(c)
            /\ Close({c})
            /\ UNCHANGED users
    /\ UNCHANGED <<room, invitees, roomLock, mux, victim, hasAdmin>>

(* ... with closeRoom when its loop met no admin. *)
LeaveDone(c) ==
    /\ Sent(Handler(c), "leaveList")
    /\ lock' = None
    /\ room' = hasAdmin
    /\ Close({c} \cup IF hasAdmin THEN {} ELSE users)
    /\ Return(c)
    /\ hasAdmin' = FALSE
    /\ UNCHANGED <<users, invitees, roomLock, mux, victim>>

-----------------------------------------------------------------------------
(* A reader takes a command of its client, in a room that is there. *)
Takes(c, command) ==
    /\ command \in Command[c]
    /\ At(Reader(c), "read")
    /\ sock[c] # "closed"
    /\ room

(* set-permissions writes the list of members to all, with no mutex, unless *)
(* a viewer sent it.                                                        *)
SetPermissions(c) ==
    /\ Takes(c, "perm")
    /\ Send(Reader(c), users, "list") \/ Send(Reader(c), {}, "list")
    /\ UNCHANGED <<roomVars, lock, roomLock, mux, sock, victim, hasAdmin>>

RequestSharing(c) ==
    /\ Takes(c, "share")
    /\ Move(Reader(c), "share")
    /\ UNCHANGED <<roomVars, lock, roomLock, mux, sock, victim, hasAdmin>>

(* share-session: AddInvitee waits for the package mutex ... *)
LockInvite(c) ==
    /\ At(Reader(c), "share")
    /\ lock = None
    /\ lock' = Reader(c)
    /\ Move(Reader(c), "invite")
    /\ UNCHANGED <<roomVars, roomLock, mux, sock, victim, hasAdmin>>

(* ... and then for the room's.  The list is written unless the room is     *)
(* full or gone, or the database or the mail fails.                         *)
AddInvitee(c) ==
    /\ At(Reader(c), "invite")
    /\ lock' = None
    /\ \/ /\ room
          /\ roomLock = None
          /\ \E u \in Client : invitees' = invitees \cup {u}
          /\ Send(Reader(c), users, "list") \/ Send(Reader(c), {}, "list")
       \/ Send(Reader(c), {}, "list") /\ UNCHANGED invitees
    /\ UNCHANGED <<room, users, roomLock, mux, sock, victim, hasAdmin>>

(* remove-share tells the user first, ... *)
RemoveShare(c, u) ==
    /\ Takes(c, "remove")
    /\ u # Host
    /\ victim' = [victim EXCEPT ![c] = u]
    /\ Send(Reader(c), users \cap {u}, "notify")
    /\ UNCHANGED <<roomVars, lock, roomLock, mux, sock, hasAdmin>>

(* ... closes its websocket under the room's mutex, and writes the list.    *)
RemoveUser(c) ==
    /\ Sent(Reader(c), "notify")
    /\ roomLock = None
    /\ invitees' = invitees \ {victim[c]}
    /\ users' = users \ {victim[c]}
    /\ Close(users \cap {victim[c]})
    /\ victim' = [victim EXCEPT ![c] = None]
    /\ Send(Reader(c), IF room THEN users' ELSE {}, "list")
    /\ UNCHANGED <<room, lock, roomLock, mux, hasAdmin>>

(* stop-share is refused unless the host sends it, who may have lost its    *)
(* role to set-permissions.                                                 *)
StopCommand(c) ==
    /\ Takes(c, "stop")
    /\ (c = Host /\ Move(Reader(c), "stop")) \/ Move(Reader(c), "list")
    /\ UNCHANGED <<roomVars, lock, roomLock, mux, sock, victim, hasAdmin>>

(* StopShare closes the websockets of the guests and writes to the host's,  *)
(* all under the room's mutex.                                              *)
StopShare(c) ==
    /\ At(Reader(c), "stop")
    /\ roomLock = None
    /\ Host \in users
    /\ roomLock' = Reader(c)
    /\ invitees' = invitees \cap {Host}
    /\ users' = {Host}
    /\ Close(users \ {Host})
    /\ Send(Reader(c), {Host}, "stopList")
    /\ UNCHANGED <<room, lock, mux, victim, hasAdmin>>

(* When the host has left it dereferences nil, and the process ends.        *)
StopCrash(c) ==
    /\ At(Reader(c), "stop")
    /\ roomLock = None
    /\ Host \notin users
    /\ room' = FALSE
    /\ users' = {} /\ invitees' = {}
    /\ lock' = None /\ mux' = [d \in Client |-> None]
    /\ Close(Client)
    /\ pc' = [g \in Goroutine |-> "crashed"]
    /\ todo' = [g \in Goroutine |-> {}]
    /\ to' = [g \in Goroutine |-> None]
    /\ victim' = [d \in Client |-> None]
    /\ hasAdmin' = FALSE
    /\ UNCHANGED roomLock

StopDone(c) ==
    /\ Sent(Reader(c), "stopList")
    /\ roomLock' = None
    /\ Send(Reader(c), {c}, "answer")
    /\ UNCHANGED <<roomVars, lock, mux, sock, victim, hasAdmin>>

(* The answer goes to the client of the command, then the next one is read. *)
Answer(c) ==
    /\ \/ Sent(Reader(c), "list") /\ Send(Reader(c), {c}, "answer")
       \/ Sent(Reader(c), "answer") /\ Move(Reader(c), "read")
    /\ UNCHANGED <<roomVars, lock, roomLock, mux, sock, victim, hasAdmin>>

ReadFails(c) ==
    /\ At(Reader(c), "read")
    /\ sock[c] = "closed"
    /\ Move(Reader(c), "done")
    /\ UNCHANGED <<roomVars, lock, roomLock, mux, sock, victim, hasAdmin>>

(* guacd takes no more of the client's input. *)
GuacdWriteFails(c) ==
    /\ "end" \in Fate[c]
    /\ At(Reader(c), "read")
    /\ Move(Reader(c), "done")
    /\ UNCHANGED <<roomVars, lock, roomLock, mux, sock, victim, hasAdmin>>

-----------------------------------------------------------------------------
(* A client stops reading, reads on, or goes away. *)
Peer(c) ==
    /\ ~At(Handler(c), "idle")
    /\ \/ "stall" \in Fate[c] /\ sock[c] = "reads" /\ sock' = [sock EXCEPT ![c] = "stalled"]
       \/ sock[c] = "stalled" /\ sock' = [sock EXCEPT ![c] = "reads"]
       \/ "go" \in Fate[c] /\ sock[c] # "closed" /\ sock' = [sock EXCEPT ![c] = "closed"]
    /\ UNCHANGED <<roomVars, lock, roomLock, mux, writeVars, victim, hasAdmin>>

Write(g) == (\E c \in Client : Visit(g, c)) \/ LockMux(g) \/ Written(g)

HandlerStep(c) ==
    \/ Write(Handler(c))
    \/ Lock(c) \/ Join(c) \/ Joined(c) \/ Start(c) \/ Relayed(c) \/ Leave(c) \/ LeaveDone(c)

ReaderStep(c) ==
    \/ Write(Reader(c))
    \/ LockInvite(c) \/ AddInvitee(c) \/ RemoveUser(c)
    \/ StopShare(c) \/ StopCrash(c) \/ StopDone(c)
    \/ Answer(c) \/ ReadFails(c)

Quiet ==
    /\ ~room
    /\ \A g \in Goroutine : pc[g] \in {"done", "off", "crashed"}
    /\ UNCHANGED vars

Next ==
    \/ \E c \in Client :
          \/ HandlerStep(c) \/ ReaderStep(c)
          \/ Arrive(c) \/ Relay(c) \/ StreamEnd(c)
          \/ SetPermissions(c) \/ RequestSharing(c) \/ StopCommand(c)
          \/ \E u \in Client : RemoveShare(c, u)
          \/ GuacdWriteFails(c) \/ Peer(c)
    \/ Quiet

(* A goroutine that can go on does so in the end.  It is strong fairness:   *)
(* Go's mutexes are handed to whoever waits long enough, and a client that  *)
(* reads again and again takes what is written to it.  A handler with a     *)
(* closed websocket finds out by its next write.  Nothing is assumed of     *)
(* the clients.                                                             *)
Fairness ==
    \A c \in Client :
       /\ SF_vars(HandlerStep(c))
       /\ SF_vars(ReaderStep(c))
       /\ WF_vars(sock[c] = "closed" /\ StreamEnd(c))

Spec == Init /\ [][Next]_vars
FairSpec == Spec /\ Fairness

-----------------------------------------------------------------------------
(* In the middle of something, with others possibly waiting for it. *)
Busy(g) == pc[g] \notin {"idle", "off", "stream", "read", "done", "crashed"}

(* The mutex a goroutine waits for is held by another one. *)
WaitsFor(g, holder) ==
    \/ pc[g] \in {"lockJoin", "lockLeave", "share"} /\ lock = holder
    \/ /\ \/ pc[g] \in {"join", "leave", "invite"} /\ room
          \/ pc[g] = "stop"
          \/ Sent(g, "notify")
       /\ roomLock = holder
    \/ to[g] # None /\ mux[to[g]] = holder /\ holder # g

(* The package mutex, the room's and the ones of the websockets are held    *)
(* together, by different goroutines in different calls, and no order of    *)
(* the calls makes goroutines wait for each other in a circle.              *)
NoCircle ==
    \A S \in SUBSET {g \in Goroutine : Busy(g)} :
       S # {} => \E g \in S : \A holder \in S : ~WaitsFor(g, holder)

ReadsAgain(c) == []<>(sock[c] # "stalled")
Crashed == \E g \in Goroutine : At(g, "crashed")

(* Liveness: guests that stopped reading for good hold up JoinRoom and      *)
(* LeaveRoom of one another, and with the package mutex every session of    *)
(* the gateway, only until the host sends stop-share: what was writing then *)
(* gets through, and the process goes on.                                   *)
StopShareFrees ==
    ReadsAgain(Host) =>
       \A c \in Client :
          (/\ lock = Handler(c)
           /\ pc[Handler(c)] \in {"joinList", "leaveList"}
           /\ At(Reader(Host), "stop")
           /\ Host \in users) ~> (lock # Handler(c) /\ ~Crashed)

(* Liveness: while clients read on and no stop-share ends the process, a    *)
(* handler whose websocket is closed, by its client or by remove-share,     *)
(* stop-share or closeRoom of somebody else, gets through JoinRoom and      *)
(* LeaveRoom to its deferred calls.                                         *)
ClosedHandlersFinish ==
    (\A d \in Client : ReadsAgain(d)) /\ []~Crashed =>
       \A c \in Client :
          (sock[c] = "closed" /\ ~At(Handler(c), "idle")) ~> At(Handler(c), "done")

(* Liveness, likewise: a room in which nobody is left with an open          *)
(* websocket is closed, unless someone joins it.                            *)
AbandonedRoomCloses ==
    (\A d \in Client : ReadsAgain(d)) /\ []~Crashed =>
       (room ~> (~room \/ \E c \in users : sock[c] # "closed"))
=============================================================================
