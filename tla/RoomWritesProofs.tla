-------------------------- MODULE RoomWritesProofs --------------------------
(***************************************************************************)
(* No circle of goroutines waiting for each other's mutexes, for any set   *)
(* of clients, rights and commands.                                        *)
(*                                                                         *)
(* The mutexes have an order, the package mutex before the room's before   *)
(* those of the websockets, and who holds one waits only for later ones.   *)
(* This needs to be known of every holder, whatever it is doing: HeldInv.  *)
(***************************************************************************)
EXTENDS RoomWrites, TLAPS

(* The places from which a goroutine writes to websockets. *)
Writing ==
    {"joinList", "permission", "relay", "leaveList", "notify", "list", "stopList", "answer"}

(* A handler that has not started its reader. *)
Early == {"idle", "lockJoin", "join", "joinList", "permission"}

(* Where the holder of a mutex is, and what is left to write elsewhere. *)
HeldInv ==
    /\ \A g \in Goroutine :
          lock = g => pc[g] \in {"invite", "join", "joinList", "leave", "leaveList"}
    /\ \A g \in Goroutine : roomLock = g => pc[g] = "stopList"
    /\ \A g \in Goroutine, c \in Client : mux[c] = g => to[g] = c
    /\ \A g \in Goroutine : pc[g] \notin Writing => to[g] = None /\ todo[g] = {}
    /\ \A c \in Client : pc[Handler(c)] \in Early => pc[Reader(c)] = "off"

WritesInv == TypeOK /\ HeldInv

-----------------------------------------------------------------------------
(* Handlers and readers are goroutines, and all different. *)
LEMMA GoroutineFacts ==
    /\ None \notin Goroutine /\ None \notin Client
    /\ \A c \in Client : Handler(c) \in Goroutine /\ Reader(c) \in Goroutine
    /\ \A c, d \in Client : Handler(c) # Reader(d)
    /\ \A c, d \in Client : Handler(c) = Handler(d) => c = d
    /\ \A c, d \in Client : Reader(c) = Reader(d) => c = d
    /\ \A g \in Goroutine : \E c \in Client : g = Handler(c) \/ g = Reader(c)
  BY ClientAssumption DEF Goroutine, Handler, Reader

(* The invariant holds at the start. *)
LEMMA WritesInit == Init => WritesInv
<1> SUFFICES ASSUME Init PROVE WritesInv
  OBVIOUS
<1>1. \A c \in Client : pc[Handler(c)] = (IF c \in Present THEN "stream" ELSE "idle")
                     /\ pc[Reader(c)] = (IF c \in Present THEN "read" ELSE "off")
  BY GoroutineFacts DEF Init, Handler, Reader
<1>2. TypeOK
  <2>1. pc \in [Goroutine -> Place]
    BY DEF Init, Place
  <2> QED
    BY <2>1, ClientAssumption DEF Init, TypeOK
<1>3. HeldInv
  BY <1>1, GoroutineFacts DEF Init, HeldInv, Early
<1> QED
  BY <1>2, <1>3 DEF WritesInv

(* Every step keeps the types ... *)
LEMMA TypeStep ==
    ASSUME TypeOK, [Next]_vars
    PROVE  TypeOK'
<1> USE ClientAssumption, GoroutineFacts DEF TypeOK, Place, At
<1>1. ASSUME NEW g \in Goroutine, NEW c \in Client, Visit(g, c) PROVE TypeOK'
  <2>1. hasAdmin' \in BOOLEAN
    BY <1>1, Zenon DEF Visit
  <2>2. CASE UNCHANGED <<to, mux>>
    BY <1>1, <2>1, <2>2 DEF Visit, Left, roomVars
  <2>3. CASE /\ to' = [to EXCEPT ![g] = c]
             /\ mux' = [mux EXCEPT ![c] = IF @ = None THEN g ELSE @]
    BY <1>1, <2>1, <2>3 DEF Visit, Left, roomVars
  <2> QED
    BY <1>1, <2>2, <2>3, Zenon DEF Visit
<1>2. ASSUME NEW g \in Goroutine, LockMux(g) PROVE TypeOK'
  BY <1>2 DEF LockMux, roomVars, writeVars
<1>3. ASSUME NEW g \in Goroutine, Written(g) PROVE TypeOK'
  BY <1>3 DEF Written, roomVars
<1>4. ASSUME NEW c \in Client, Arrive(c) PROVE TypeOK'
  BY <1>4 DEF Arrive, Move, roomVars
<1>5. ASSUME NEW c \in Client, Lock(c) PROVE TypeOK'
  BY <1>5 DEF Lock, Move, roomVars
<1>6. ASSUME NEW c \in Client, Join(c) PROVE TypeOK'
  <2>1. CASE room
    <3>1. users' = users \cup {c}
      BY <1>6, <2>1 DEF Join
    <3>2. todo' \in [Goroutine -> SUBSET Client]
      BY <1>6, <2>1, <3>1 DEF Join
    <3> QED
      BY <1>6, <2>1, <3>1, <3>2 DEF Join
  <2>2. CASE ~room
    <3>1. /\ lock' = None /\ Send(Handler(c), {}, "done") /\ Close({c})
          /\ UNCHANGED <<roomVars, roomLock, mux, victim, hasAdmin>>
      BY <1>6, <2>2 DEF Join, Return, roomVars
    <3>2. sock' \in [Client -> {"reads", "stalled", "closed"}]
      BY <3>1 DEF Close
    <3> QED
      BY <3>1, <3>2 DEF Send, roomVars
  <2> QED
    BY <2>1, <2>2
<1>7. ASSUME NEW c \in Client, Joined(c) PROVE TypeOK'
  BY <1>7 DEF Joined, Sent, Left, Send, roomVars
<1>8. ASSUME NEW c \in Client, Start(c) PROVE TypeOK'
  BY <1>8 DEF Start, Sent, Left, roomVars
<1>9. ASSUME NEW c \in Client, Relay(c) PROVE TypeOK'
  BY <1>9 DEF Relay, Send, roomVars
<1>10. ASSUME NEW c \in Client, Relayed(c) PROVE TypeOK'
  BY <1>10 DEF Relayed, Sent, Left, Move, roomVars
<1>11. ASSUME NEW c \in Client, StreamEnd(c) PROVE TypeOK'
  BY <1>11 DEF StreamEnd, Move, roomVars
<1>12. ASSUME NEW c \in Client, Leave(c) PROVE TypeOK'
  <2>1. CASE room
    <3>1. /\ users' = users \ {c}
          /\ Send(Handler(c), users', "leaveList")
          /\ UNCHANGED <<room, invitees, lock, roomLock, mux, sock, victim, hasAdmin>>
      BY <1>12, <2>1 DEF Leave
    <3> QED
      BY <3>1 DEF Send
  <2>2. CASE ~room
    <3>1. /\ lock' = None /\ Send(Handler(c), {}, "done") /\ Close({c})
          /\ UNCHANGED <<roomVars, roomLock, mux, victim, hasAdmin>>
      BY <1>12, <2>2 DEF Leave, Return, roomVars
    <3>2. sock' \in [Client -> {"reads", "stalled", "closed"}]
      BY <3>1 DEF Close
    <3> QED
      BY <3>1, <3>2 DEF Send, roomVars
  <2> QED
    BY <2>1, <2>2
<1>13. ASSUME NEW c \in Client, LeaveDone(c) PROVE TypeOK'
  BY <1>13 DEF LeaveDone, Sent, Left, Send, Return, Close
<1>14. ASSUME NEW c \in Client, SetPermissions(c) PROVE TypeOK'
  <2>1. \E S \in SUBSET Client : Send(Reader(c), S, "list")
    BY <1>14 DEF SetPermissions
  <2> QED
    BY <1>14, <2>1 DEF SetPermissions, Send, roomVars
<1>15. ASSUME NEW c \in Client, RequestSharing(c) PROVE TypeOK'
  BY <1>15 DEF RequestSharing, Takes, Move, roomVars
<1>16. ASSUME NEW c \in Client, AddInvitee(c) PROVE TypeOK'
  <2>1. invitees' \subseteq Client
    BY <1>16 DEF AddInvitee
  <2>2. \E S \in SUBSET Client : Send(Reader(c), S, "list")
    BY <1>16 DEF AddInvitee
  <2> QED
    BY <1>16, <2>1, <2>2 DEF AddInvitee, Send
<1>17. ASSUME NEW c \in Client, RemoveUser(c) PROVE TypeOK'
  BY <1>17 DEF RemoveUser, Sent, Left, Send, Close
<1>18. ASSUME NEW c \in Client, StopCommand(c) PROVE TypeOK'
  BY <1>18 DEF StopCommand, Takes, Move, roomVars
<1>19. ASSUME NEW c \in Client, StopShare(c) PROVE TypeOK'
  BY <1>19 DEF StopShare, Send, Close
<1>20. ASSUME NEW c \in Client, NEW u \in Client, RemoveShare(c, u) PROVE TypeOK'
  BY <1>20 DEF RemoveShare, Takes, Send, roomVars
<1>21. ASSUME NEW c \in Client, StopCrash(c) PROVE TypeOK'
  BY <1>21 DEF StopCrash, Close
<1>22. ASSUME NEW c \in Client, StopDone(c) PROVE TypeOK'
  BY <1>22 DEF StopDone, Sent, Left, Send, roomVars
<1>23. ASSUME NEW c \in Client, Answer(c) PROVE TypeOK'
  <2>1. CASE Send(Reader(c), {c}, "answer")
    BY <1>23, <2>1 DEF Answer, Send, roomVars
  <2>2. CASE Move(Reader(c), "read")
    BY <1>23, <2>2 DEF Answer, Move, roomVars
  <2> QED
    BY <1>23, <2>1, <2>2 DEF Answer
<1>24. ASSUME NEW c \in Client, ReadFails(c) PROVE TypeOK'
  BY <1>24 DEF ReadFails, Move, roomVars
<1>25. ASSUME NEW c \in Client, Peer(c) PROVE TypeOK'
  <2>1. sock' \in [Client -> {"reads", "stalled", "closed"}]
    BY <1>25 DEF Peer
  <2> QED
    BY <1>25, <2>1 DEF Peer, roomVars, writeVars
<1>27. ASSUME NEW c \in Client, LockInvite(c) PROVE TypeOK'
  BY <1>27 DEF LockInvite, Move, roomVars
<1>28. ASSUME NEW c \in Client, GuacdWriteFails(c) PROVE TypeOK'
  BY <1>28 DEF GuacdWriteFails, Move, roomVars
<1>26. CASE UNCHANGED vars
  BY <1>26 DEF vars, roomVars, writeVars
<1> QED
  BY <1>1, <1>2, <1>3, <1>4, <1>5, <1>6, <1>7, <1>8, <1>9, <1>10, <1>11, <1>12,
     <1>13, <1>14, <1>15, <1>16, <1>17, <1>18, <1>19, <1>20, <1>21, <1>22, <1>23,
     <1>24, <1>25, <1>26, <1>27, <1>28,
     GoroutineFacts DEF Next, HandlerStep, ReaderStep, Write, Quiet

(* ... and the places of the holders. *)
LEMMA HeldStep ==
    ASSUME TypeOK, HeldInv, [Next]_vars
    PROVE  HeldInv'
<1> USE GoroutineFacts DEF TypeOK, HeldInv, Writing, Early, At
<1>1. ASSUME NEW g \in Goroutine, NEW c \in Client, Visit(g, c) PROVE HeldInv'
  BY <1>1 DEF Visit, Left, roomVars
<1>2. ASSUME NEW g \in Goroutine, LockMux(g) PROVE HeldInv'
  BY <1>2 DEF LockMux, roomVars, writeVars
<1>3. ASSUME NEW g \in Goroutine, Written(g) PROVE HeldInv'
  BY <1>3 DEF Written, roomVars
<1>4. ASSUME NEW c \in Client, Arrive(c) PROVE HeldInv'
  BY <1>4 DEF Arrive, Move, roomVars
<1>5. ASSUME NEW c \in Client, Lock(c) PROVE HeldInv'
  BY <1>5 DEF Lock, Move, roomVars
<1>6. ASSUME NEW c \in Client, Join(c) PROVE HeldInv'
  <2>1. CASE room
    <3>1. /\ pc[Handler(c)] = "join"
          /\ pc' = [pc EXCEPT ![Handler(c)] = "joinList"]
          /\ UNCHANGED <<lock, roomLock, mux, to>>
      BY <1>6, <2>1 DEF Join
    <3>2. \A g \in Goroutine : g # Handler(c) /\ pc[g] # "list" => todo'[g] = todo[g]
      BY <1>6, <2>1 DEF Join
    <3>3. pc[Reader(c)] = "off"
      BY <3>1
    <3>4. \A g \in Goroutine : pc'[g] = IF g = Handler(c) THEN "joinList" ELSE pc[g]
      BY <3>1
    <3>5. \A g \in Goroutine : pc'[g] \notin Writing => to'[g] = None /\ todo'[g] = {}
      BY <3>1, <3>2, <3>4
    <3> QED
      BY <3>1, <3>3, <3>4, <3>5
  <2>2. CASE ~room
    <3>1. /\ pc[Handler(c)] = "join"
          /\ lock' = None /\ Send(Handler(c), {}, "done")
          /\ UNCHANGED <<roomLock, mux>>
      BY <1>6, <2>2 DEF Join, Return
    <3> QED
      BY <3>1 DEF Send
  <2> QED
    BY <2>1, <2>2
<1>7. ASSUME NEW c \in Client, Joined(c) PROVE HeldInv'
  BY <1>7 DEF Joined, Sent, Left, Send, roomVars
<1>8. ASSUME NEW c \in Client, Start(c) PROVE HeldInv'
  BY <1>8 DEF Start, Sent, Left, roomVars
<1>9. ASSUME NEW c \in Client, Relay(c) PROVE HeldInv'
  BY <1>9 DEF Relay, Send, roomVars
<1>10. ASSUME NEW c \in Client, Relayed(c) PROVE HeldInv'
  BY <1>10 DEF Relayed, Sent, Left, Move, roomVars
<1>11. ASSUME NEW c \in Client, StreamEnd(c) PROVE HeldInv'
  BY <1>11 DEF StreamEnd, Move, roomVars
<1>12. ASSUME NEW c \in Client, Leave(c) PROVE HeldInv'
  <2>1. CASE room
    <3>1. /\ pc[Handler(c)] = "leave"
          /\ Send(Handler(c), users', "leaveList")
          /\ UNCHANGED <<lock, roomLock, mux>>
      BY <1>12, <2>1 DEF Leave
    <3> QED
      BY <3>1 DEF Send
  <2>2. CASE ~room
    <3>1. /\ pc[Handler(c)] = "leave"
          /\ lock' = None /\ Send(Handler(c), {}, "done")
          /\ UNCHANGED <<roomLock, mux>>
      BY <1>12, <2>2 DEF Leave, Return
    <3> QED
      BY <3>1 DEF Send
  <2> QED
    BY <2>1, <2>2
<1>13. ASSUME NEW c \in Client, LeaveDone(c) PROVE HeldInv'
  BY <1>13 DEF LeaveDone, Sent, Left, Send, Return, Close
<1>14. ASSUME NEW c \in Client, SetPermissions(c) PROVE HeldInv'
  BY <1>14 DEF SetPermissions, Takes, Send, roomVars
<1>15. ASSUME NEW c \in Client, RequestSharing(c) PROVE HeldInv'
  BY <1>15 DEF RequestSharing, Takes, Move, roomVars
<1>16. ASSUME NEW c \in Client, AddInvitee(c) PROVE HeldInv'
  BY <1>16 DEF AddInvitee, Send
<1>17. ASSUME NEW c \in Client, RemoveUser(c) PROVE HeldInv'
  BY <1>17 DEF RemoveUser, Sent, Left, Send, Close
<1>18. ASSUME NEW c \in Client, StopCommand(c) PROVE HeldInv'
  BY <1>18 DEF StopCommand, Takes, Move, roomVars
<1>19. ASSUME NEW c \in Client, StopShare(c) PROVE HeldInv'
  BY <1>19 DEF StopShare, Send, Close
<1>20. ASSUME NEW c \in Client, NEW u \in Client, RemoveShare(c, u) PROVE HeldInv'
  BY <1>20 DEF RemoveShare, Takes, Send, roomVars
<1>21. ASSUME NEW c \in Client, StopCrash(c) PROVE HeldInv'
  BY <1>21 DEF StopCrash, Close
<1>22. ASSUME NEW c \in Client, StopDone(c) PROVE HeldInv'
  BY <1>22 DEF StopDone, Sent, Left, Send, roomVars
<1>23. ASSUME NEW c \in Client, Answer(c) PROVE HeldInv'
  BY <1>23 DEF Answer, Sent, Left, Send, Move, roomVars
<1>24. ASSUME NEW c \in Client, ReadFails(c) PROVE HeldInv'
  BY <1>24 DEF ReadFails, Move, roomVars
<1>25. ASSUME NEW c \in Client, Peer(c) PROVE HeldInv'
  BY <1>25 DEF Peer, roomVars, writeVars
<1>27. ASSUME NEW c \in Client, LockInvite(c) PROVE HeldInv'
  BY <1>27 DEF LockInvite, Move, roomVars
<1>28. ASSUME NEW c \in Client, GuacdWriteFails(c) PROVE HeldInv'
  BY <1>28 DEF GuacdWriteFails, Move, roomVars
<1>26. CASE UNCHANGED vars
  BY <1>26 DEF vars, roomVars, writeVars
<1> QED
  BY <1>1, <1>2, <1>3, <1>4, <1>5, <1>6, <1>7, <1>8, <1>9, <1>10, <1>11, <1>12,
     <1>13, <1>14, <1>15, <1>16, <1>17, <1>18, <1>19, <1>20, <1>21, <1>22, <1>23,
     <1>24, <1>25, <1>26, <1>27, <1>28,
     GoroutineFacts DEF Next, HandlerStep, ReaderStep, Write, Quiet

(* The mutexes of a room are held as their order asks, whatever is called   *)
(* by whom and whichever clients stop reading.                              *)
THEOREM WritesCorrect == Spec => []WritesInv
<1>1. WritesInv /\ [Next]_vars => WritesInv'
  BY TypeStep, HeldStep DEF WritesInv
<1> QED
  BY <1>1, WritesInit, PTL DEF Spec

(* Every variable of RoomWrites keeps its type. *)
THEOREM WritesTypeCorrect == Spec => []TypeOK
<1>1. WritesInv => TypeOK
  BY DEF WritesInv
<1> QED
  BY <1>1, WritesCorrect, PTL

-----------------------------------------------------------------------------
(* Who holds the package mutex waits for the room's or for a websocket's,   *)
(* who holds the room's waits for a websocket's, and who holds that waits   *)
(* for no mutex.                                                            *)
LEMMA HoldersWait ==
    ASSUME WritesInv, NEW g \in Goroutine, NEW k \in Goroutine
    PROVE  /\ lock = g /\ WaitsFor(g, k) => roomLock = k \/ \E c \in Client : mux[c] = k
           /\ roomLock = g /\ WaitsFor(g, k) => \E c \in Client : mux[c] = k
           /\ (\E c \in Client : mux[c] = g) => ~WaitsFor(g, k)
<1> USE GoroutineFacts DEF WritesInv, TypeOK, HeldInv, Writing
<1>1. to[g] # None => to[g] \in Client
  OBVIOUS
<1>2. lock = g /\ WaitsFor(g, k) => roomLock = k \/ \E c \in Client : mux[c] = k
  BY <1>1 DEF WaitsFor, Sent, At
<1>3. roomLock = g /\ WaitsFor(g, k) => \E c \in Client : mux[c] = k
  BY <1>1 DEF WaitsFor, Sent, At
<1>4. (\E c \in Client : mux[c] = g) => ~WaitsFor(g, k)
  BY <1>1 DEF WaitsFor, Sent, At
<1> QED
  BY <1>2, <1>3, <1>4

(* No goroutines wait for each other in a circle: along a chain of waiting  *)
(* goroutines the mutexes only get later in the order, and it ends.         *)
THEOREM NobodyDeadlocks == Spec => []NoCircle
<1>1. WritesInv => NoCircle
  <2> SUFFICES ASSUME WritesInv, NEW S \in SUBSET Goroutine, S # {},
                      \A g \in S : \E k \in S : WaitsFor(g, k)
               PROVE  FALSE
    BY DEF NoCircle
  <2>1. \A g, k \in Goroutine :
           WaitsFor(g, k) => lock = k \/ roomLock = k \/ \E c \in Client : mux[c] = k
    BY GoroutineFacts DEF WaitsFor, WritesInv, TypeOK
  <2>2. PICK g \in S, k \in S : WaitsFor(g, k)
    OBVIOUS
  <2>3. PICK k2 \in S : WaitsFor(k, k2)
    OBVIOUS
  <2>4. PICK k3 \in S : WaitsFor(k2, k3)
    OBVIOUS
  <2>5. \A k4 \in S : ~WaitsFor(k3, k4)
    <3>1. roomLock = k2 \/ \E c \in Client : mux[c] = k2
      BY <2>1, <2>2, <2>3, HoldersWait
    <3>2. \E c \in Client : mux[c] = k3
      BY <3>1, <2>4, HoldersWait
    <3> QED
      BY <3>2, HoldersWait
  <2> QED
    BY <2>5
<1> QED
  BY <1>1, WritesCorrect, PTL
=============================================================================
