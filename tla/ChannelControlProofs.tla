------------------------ MODULE ChannelControlProofs ------------------------
(***************************************************************************)
(* Proofs about ChannelControl for every set of connections and keys.      *)
(***************************************************************************)
EXTENDS ChannelControl, TLAPS

USE DEF vars, Move

-----------------------------------------------------------------------------
(* The inductive invariant: a broadcast under way owns mu, so that no       *)
(* channel it has still to send on is closed, and only the channels of      *)
(* connections that are gone are closed.                                    *)
ChannelInv ==
    /\ TypeOK
    /\ ListedWhileServed
    /\ ~mu => pending = {}
    /\ \A c \in closed : place[c] = "gone"
    /\ \A c \in pending : place[c] # "gone"

(* It holds initially. *)
LEMMA ChannelInit == Init => ChannelInv
<1>1. Init => TypeOK
  <2>1. Init => mu \in BOOLEAN
    BY Zenon DEF Init
  <2>2. Init => /\ place \in [Conn -> {"start", "addApp", "serve", "remove", "gone"}]
                /\ ChannelList \in [Key -> SUBSET Conn]
                /\ event \in Key \cup {None}
                /\ pending \subseteq Conn
                /\ buffer \in [Conn -> 0..Capacity]
                /\ closed \subseteq Conn
                /\ server \in [Conn -> {"new", "writing", "waiting", "ended"}]
                /\ sock \in [Conn -> {"reads", "stalled", "closed"}]
    BY DEF Init, Capacity
  <2> QED
    BY <2>1, <2>2 DEF TypeOK
<1>2. Init => ListedWhileServed
  BY DEF Init, ListedWhileServed
<1> QED
  BY <1>1, <1>2 DEF Init, ChannelInv

(* The types are kept. *)
LEMMA ChannelTypes == TypeOK /\ [Next]_vars => TypeOK'
<1> SUFFICES ASSUME TypeOK, [Next]_vars PROVE TypeOK'
  OBVIOUS
<1> USE KeyAssumption DEF TypeOK, Capacity
<1>1. ASSUME NEW c \in Conn, AddUser(c) PROVE TypeOK'
  BY <1>1 DEF AddUser, Add
<1>2. ASSUME NEW c \in Conn, AddApp(c) PROVE TypeOK'
  BY <1>2 DEF AddApp, Add, BroadCastPolicy
<1>3. ASSUME NEW c \in Conn, Disconnect(c) PROVE TypeOK'
  BY <1>3 DEF Disconnect
<1>4. ASSUME NEW c \in Conn, Remove(c) PROVE TypeOK'
  BY <1>4 DEF Remove
<1>5. ASSUME NEW c \in Conn, Send(c) PROVE TypeOK'
  BY <1>5 DEF Send
<1>6. ASSUME NEW c \in Conn, Refresh(c) PROVE TypeOK'
  BY <1>6 DEF Refresh, BroadCastPolicy
<1>7. ASSUME NEW c \in Conn, ServerEnd(c) PROVE TypeOK'
  BY <1>7 DEF ServerEnd
<1>8. ASSUME NEW k \in Notified, BroadCast(k) PROVE TypeOK'
  BY <1>8 DEF BroadCast
<1>9. CASE BroadCastEnd
  BY <1>9 DEF BroadCastEnd
<1>10. ASSUME NEW c \in Conn, Written(c) PROVE TypeOK'
  BY <1>10 DEF Written
<1>11. ASSUME NEW c \in Conn, CloseConn(c) PROVE TypeOK'
  BY <1>11 DEF CloseConn
<1>12. ASSUME NEW c \in Conn, Peer(c) PROVE TypeOK'
  BY <1>12 DEF Peer
<1>13. CASE UNCHANGED vars
  BY <1>13
<1> QED
  BY <1>1, <1>2, <1>3, <1>4, <1>5, <1>6, <1>7, <1>8, <1>9, <1>10, <1>11, <1>12, <1>13
     DEF Next

(* Every step keeps it. *)
LEMMA ChannelStep == ChannelInv /\ [Next]_vars => ChannelInv'
<1> SUFFICES ASSUME ChannelInv, [Next]_vars PROVE ChannelInv'
  OBVIOUS
<1>0. TypeOK'
  BY ChannelTypes DEF ChannelInv
<1> DEFINE Rest == /\ ListedWhileServed
                   /\ ~mu => pending = {}
                   /\ \A c \in closed : place[c] = "gone"
                   /\ \A c \in pending : place[c] # "gone"
<1> USE KeyAssumption DEF ChannelInv, TypeOK, ListedWhileServed
<1>1. ASSUME NEW c \in Conn, AddUser(c) PROVE Rest'
  BY <1>1 DEF AddUser, Add
<1>2. ASSUME NEW c \in Conn, AddApp(c) PROVE Rest'
  BY <1>2 DEF AddApp, Add, BroadCastPolicy
<1>3. ASSUME NEW c \in Conn, Disconnect(c) PROVE Rest'
  BY <1>3 DEF Disconnect
<1>4. ASSUME NEW c \in Conn, Remove(c) PROVE Rest'
  BY <1>4 DEF Remove
<1>5. ASSUME NEW c \in Conn, Send(c) PROVE Rest'
  BY <1>5 DEF Send
<1>6. ASSUME NEW c \in Conn, Refresh(c) PROVE Rest'
  BY <1>6 DEF Refresh, BroadCastPolicy
<1>7. ASSUME NEW c \in Conn, ServerEnd(c) PROVE Rest'
  BY <1>7 DEF ServerEnd
<1>8. ASSUME NEW k \in Notified, BroadCast(k) PROVE Rest'
  BY <1>8 DEF BroadCast
<1>9. CASE BroadCastEnd
  BY <1>9 DEF BroadCastEnd
<1>10. ASSUME NEW c \in Conn, Written(c) PROVE Rest'
  BY <1>10 DEF Written
<1>11. ASSUME NEW c \in Conn, CloseConn(c) PROVE Rest'
  BY <1>11 DEF CloseConn
<1>12. ASSUME NEW c \in Conn, Peer(c) PROVE Rest'
  BY <1>12 DEF Peer
<1>13. CASE UNCHANGED vars
  BY <1>13
<1> QED
  BY <1>0, <1>1, <1>2, <1>3, <1>4, <1>5, <1>6, <1>7, <1>8, <1>9, <1>10, <1>11, <1>12, <1>13
     DEF Next

(* The channels keep the invariant in every execution. *)
THEOREM ChannelCorrect == Spec => []ChannelInv
  BY ChannelInit, ChannelStep, PTL DEF Spec

(* connectToAstraea never sends on a closed channel. *)
THEOREM NeverSendsOnClosed == Spec => []NoSendOnClosed
<1>1. ChannelInv => NoSendOnClosed
  BY DEF ChannelInv, NoSendOnClosed
<1> QED
  BY <1>1, ChannelCorrect, PTL

(* ChannelList holds the channels of the connections that are served, and   *)
(* of nobody else.                                                          *)
THEOREM ListsTheServed == Spec => []ListedWhileServed
  BY ChannelCorrect, PTL DEF ChannelInv
=============================================================================
