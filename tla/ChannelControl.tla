--------------------------- MODULE ChannelControl ---------------------------
(***************************************************************************)
(* Policy notifications: ChannelManagement of pkg/channel_control.go, the  *)
(* part of ServeHTTP of pkg/ws_server.go that registers a connection with  *)
(* it, the goroutine BroadCastToWs that serves the connection's channel,   *)
(* and connectToAstraea of cmd/guac/guac.go, the one goroutine that        *)
(* broadcasts.                                                             *)
(*                                                                         *)
(* BroadCast sends on the channels of a key one by one while it holds mu;  *)
(* a channel has room for one notification.  BroadCastToWs writes the      *)
(* policy to the websocket with no deadline: the write lasts while the     *)
(* client does not read, and fails when the websocket is closed.  The      *)
(* channel of a connection is named by the connection, a key is a user id  *)
(* or an app id.                                                           *)
(***************************************************************************)
EXTENDS Naturals, FiniteSets

CONSTANTS
    Conn,      \* websocket connections
    Key,       \* the keys of ChannelList
    userKey,   \* the userId of a connection
    appKey,    \* the appId of a connection
    Notified,  \* the keys astraea sends events for
    None       \* nobody, and no key

ASSUME KeyAssumption ==
    /\ userKey \in [Conn -> Key] /\ appKey \in [Conn -> Key]
    /\ \A c \in Conn : userKey[c] # appKey[c]
    /\ Notified \subseteq Key
    /\ None \notin Key

VARIABLES
    place,        \* where ServeHTTP stands: before or between the two Adds, ...
    ChannelList,  \* the connections whose channel is registered under a key
    mu,           \* whether BroadCast holds mu; Add and Remove hold it for one step
    event,        \* the key being broadcast, or None
    pending,      \* the channels this broadcast has still to send on
    buffer,       \* notifications in a channel
    closed,       \* closed channels
    server,       \* BroadCastToWs of a connection: writing, waiting for its channel, ...
    sock          \* a websocket: its client reads, does not read, or it is closed

vars == <<place, ChannelList, mu, event, pending, buffer, closed, server, sock>>

Capacity == 1     \* make(chan int, 1)

TypeOK ==
    /\ place \in [Conn -> {"start", "addApp", "serve", "remove", "gone"}]
    /\ ChannelList \in [Key -> SUBSET Conn]
    /\ mu \in BOOLEAN
    /\ event \in Key \cup {None}
    /\ pending \subseteq Conn
    /\ buffer \in [Conn -> 0..Capacity]
    /\ closed \subseteq Conn
    /\ server \in [Conn -> {"new", "writing", "waiting", "ended"}]
    /\ sock \in [Conn -> {"reads", "stalled", "closed"}]

Init ==
    /\ place = [c \in Conn |-> "start"]
    /\ ChannelList = [k \in Key |-> {}]
    /\ mu = FALSE
    /\ event = None
    /\ pending = {}
    /\ buffer = [c \in Conn |-> 0]
    /\ closed = {}
    /\ server = [c \in Conn |-> "new"]
    /\ sock = [c \in Conn |-> "reads"]

Move(c, from, to) ==
    /\ place[c] = from
    /\ place' = [place EXCEPT ![c] = to]

-----------------------------------------------------------------------------
(* Mutants: what a slip in the code would make of a definition below.       *)

AddApp_NotServed(c) ==
    /\ Move(c, "addApp", "serve")
    /\ ~mu
    /\ ChannelList' = [ChannelList EXCEPT ![appKey[c]] = @ \cup {c}]
    /\ UNCHANGED <<mu, event, pending, buffer, closed, server, sock>>

Remove_NoLock(c) ==
    /\ Move(c, "remove", "gone")
    /\ closed' = closed \cup {c}
    /\ ChannelList' = [k \in Key |-> IF k \in {appKey[c], userKey[c]}
                                     THEN ChannelList[k] \ {c} ELSE ChannelList[k]]
    /\ UNCHANGED <<mu, event, pending, buffer, server, sock>>

Remove_AppOnly(c) ==
    /\ ~mu
    /\ Move(c, "remove", "gone")
    /\ closed' = closed \cup {c}
    /\ ChannelList' = [ChannelList EXCEPT ![appKey[c]] = @ \ {c}]
    /\ UNCHANGED <<mu, event, pending, buffer, server, sock>>

Remove_NoClose(c) ==
    /\ ~mu
    /\ Move(c, "remove", "gone")
    /\ ChannelList' = [k \in Key |-> IF k \in {appKey[c], userKey[c]}
                                     THEN ChannelList[k] \ {c} ELSE ChannelList[k]]
    /\ UNCHANGED <<mu, event, pending, buffer, closed, server, sock>>

ServerEnd_NoDrain(c) ==
    /\ server[c] = "waiting"
    /\ c \in closed
    /\ server' = [server EXCEPT ![c] = "ended"]
    /\ UNCHANGED <<place, ChannelList, mu, event, pending, buffer, closed, sock>>

-----------------------------------------------------------------------------
(* ChannelManagement.Add *)
Add(k, c) ==
    /\ ~mu
    /\ ChannelList' = [ChannelList EXCEPT ![k] = @ \cup {c}]

(* ServeHTTP registers the connection under its user, ... *)
AddUser(c) ==
    /\ Move(c, "start", "addApp")
    /\ Add(userKey[c], c)
    /\ UNCHANGED <<mu, event, pending, buffer, closed, server, sock>>

(* BroadCastPolicy: the policy is written to the websocket, unless the user *)
(* has none.                                                                *)
BroadCastPolicy(c) == \E s \in {"writing", "waiting"} : server' = [server EXCEPT ![c] = s]

(* ... then under its app, and only then starts to serve the channel, with  *)
(* the policy as it is.                                                     *)
AddApp(c) ==
    /\ Move(c, "addApp", "serve")
    /\ Add(appKey[c], c)
    /\ BroadCastPolicy(c)
    /\ UNCHANGED <<mu, event, pending, buffer, closed, sock>>

(* guacd has ended the stream, or the websocket cannot be written: ServeHTTP *)
(* is on its way out.                                                       *)
Disconnect(c) ==
    /\ Move(c, "serve", "remove")
    /\ UNCHANGED <<ChannelList, mu, event, pending, buffer, closed, server, sock>>

(* ChannelManagement.Remove, the deferred call before OnDisconnect. *)
Remove(c) ==
    /\ ~mu
    /\ Move(c, "remove", "gone")
    /\ closed' = IF c \in ChannelList[appKey[c]] THEN closed \cup {c} ELSE closed
    /\ ChannelList' = [k \in Key |-> IF k \in {appKey[c], userKey[c]}
                                     THEN ChannelList[k] \ {c} ELSE ChannelList[k]]
    /\ UNCHANGED <<mu, event, pending, buffer, server, sock>>

(* conn.Close, the last deferred call. *)
CloseConn(c) ==
    /\ place[c] = "gone"
    /\ sock[c] # "closed"
    /\ sock' = [sock EXCEPT ![c] = "closed"]
    /\ UNCHANGED <<place, ChannelList, mu, event, pending, buffer, closed, server>>

(* BroadCast takes mu and starts on the list of the key. *)
BroadCast(k) ==
    /\ ~mu
    /\ mu' = TRUE
    /\ event' = k
    /\ pending' = ChannelList[k]
    /\ UNCHANGED <<place, ChannelList, buffer, closed, server, sock>>

(* One send: it waits while the channel is full. *)
Send(c) ==
    /\ c \in pending
    /\ buffer[c] < Capacity
    /\ buffer' = [buffer EXCEPT ![c] = @ + 1]
    /\ pending' = pending \ {c}
    /\ UNCHANGED <<place, ChannelList, mu, event, closed, server, sock>>

BroadCastEnd ==
    /\ mu
    /\ pending = {}
    /\ mu' = FALSE
    /\ event' = None
    /\ UNCHANGED <<place, ChannelList, pending, buffer, closed, server, sock>>

(* BroadCastToWs takes a notification and sends the policy again. *)
Refresh(c) ==
    /\ server[c] = "waiting"
    /\ buffer[c] > 0
    /\ buffer' = [buffer EXCEPT ![c] = @ - 1]
    /\ BroadCastPolicy(c)
    /\ UNCHANGED <<place, ChannelList, mu, event, pending, closed, sock>>

(* WrappedWebSocket.WriteMessage returns: the client has read, or the       *)
(* websocket is closed.                                                     *)
Written(c) ==
    /\ server[c] = "writing"
    /\ sock[c] # "stalled"
    /\ server' = [server EXCEPT ![c] = "waiting"]
    /\ UNCHANGED <<place, ChannelList, mu, event, pending, buffer, closed, sock>>

(* The range over a closed and drained channel ends. *)
ServerEnd(c) ==
    /\ server[c] = "waiting"
    /\ buffer[c] = 0
    /\ c \in closed
    /\ server' = [server EXCEPT ![c] = "ended"]
    /\ UNCHANGED <<place, ChannelList, mu, event, pending, buffer, closed, sock>>

(* A client stops reading, reads on, or goes away. *)
Peer(c) ==
    /\ place[c] # "start"
    /\ \/ sock[c] = "reads" /\ sock' = [sock EXCEPT ![c] = "stalled"]
       \/ sock[c] = "stalled" /\ sock' = [sock EXCEPT ![c] = "reads"]
       \/ sock[c] # "closed" /\ sock' = [sock EXCEPT ![c] = "closed"]
    /\ UNCHANGED <<place, ChannelList, mu, event, pending, buffer, closed, server>>

Next ==
    \/ \E c \in Conn :
          \/ AddUser(c) \/ AddApp(c) \/ Disconnect(c) \/ Remove(c) \/ CloseConn(c)
          \/ Send(c) \/ Refresh(c) \/ Written(c) \/ ServerEnd(c)
          \/ Peer(c)
    \/ \E k \in Notified : BroadCast(k)
    \/ BroadCastEnd

(* Goroutines are scheduled, and Go's mutex hands itself to a waiter that   *)
(* has waited for long: whoever needs mu gets it when it is released again  *)
(* and again.  A write gets through to a client that reads again and again; *)
(* that a client does is not assumed.                                       *)
Fairness ==
    /\ \A c \in Conn :
          /\ SF_vars(AddApp(c))
          /\ SF_vars(Remove(c))
          /\ WF_vars(CloseConn(c))
          /\ WF_vars(Send(c))
          /\ WF_vars(Refresh(c))
          /\ SF_vars(Written(c))
          /\ WF_vars(ServerEnd(c))
    /\ WF_vars(BroadCastEnd)

Spec == Init /\ [][Next]_vars
FairSpec == Spec /\ Fairness

-----------------------------------------------------------------------------
(* BroadCast never sends on a channel that Remove has closed, which would   *)
(* panic in connectToAstraea and end the process.                           *)
NoSendOnClosed == pending \cap closed = {}

(* A channel is listed under its user from the first Add to Remove and      *)
(* under its app from the second: no channel is left in ChannelList when    *)
(* its connection is gone, and every connection that is served is notified. *)
ListedWhileServed ==
    \A c \in Conn, k \in Key :
       c \in ChannelList[k] <=>
          \/ k = userKey[c] /\ place[c] \in {"addApp", "serve", "remove"}
          \/ k = appKey[c] /\ place[c] \in {"serve", "remove"}

ReadsAgain(c) == []<>(sock[c] # "stalled")

(* Liveness: a notification that reached a channel is served, also when the *)
(* connection goes away first, and also when the clients of all the other   *)
(* connections have stopped reading and BroadCast waits for one of them     *)
(* with mu: BroadCastToWs needs nothing but its channel and its client.     *)
NotificationServed ==
    \A c \in Conn : ReadsAgain(c) => (buffer[c] > 0 ~> buffer[c] = 0)

(* Liveness: the goroutine of a connection that is gone ends, whatever its  *)
(* client does: closing the websocket ends a write that hangs.              *)
ServerEnds == \A c \in Conn : place[c] = "gone" ~> server[c] = "ended"

(* Liveness, what ws_server.go 37 says of OnDisconnect ("called when the    *)
(* websocket disconnects"): a handler on its way out gets through Remove.   *)
(* It needs every client to read on: one that stops for good holds up its   *)
(* BroadCastToWs, then BroadCast, with mu, and so every Remove.             *)
DisconnectReported ==
    (\A c \in Conn : ReadsAgain(c)) =>
       \A c \in Conn : place[c] = "remove" ~> place[c] = "gone"
=============================================================================
