-------------------------- MODULE HttpTunnelProofs --------------------------
(***************************************************************************)
(* Proofs about HttpTunnel, for any number of tunnels, any finite set of   *)
(* requests and any time-out.                                              *)
(***************************************************************************)
EXTENDS HttpTunnel, FiniteSetTheorems, TLAPS

USE DEF At, Move, Proceed, Start, End, mapVars, taskVars, tunnelVars, lockVars, requestVars

Reading == {"read", "blocked", "respond", "check", "finish"}
Failing == {"copy", "deregister", "close"}
Held == Reading \cup Failing \cup {"uncount"}

(* The requests a CountedLock counts: it counts a request from before it    *)
(* waits for the mutex until before it gives the mutex back.                *)
Counted(k, t) ==
    {r \in Request : kind[r] = k /\ tun[r] = t /\ pc[r] \in Held \cup {"acquire"}}

(* A request that is under way has a tunnel, and after Get a lock to take.  *)
RequestInv ==
    \A r \in Request :
       /\ tun[r] \in made \cup {None}
       /\ pc[r] \notin {"idle", "done"} => tun[r] \in made
       /\ pc[r] \notin {"idle", "done", "put"} => kind[r] \in Kind
       /\ pc[r] \in Reading => kind[r] = "read"

(* The task only lists tunnels that were made.                              *)
MadeInv == tunnelMap \subseteq made /\ closed \subseteq made /\ expired \subseteq made

(* The tunnel of a connect request is known to that request only.           *)
PutInv ==
    \A r \in Request :
       At(r, "put") =>
          /\ tun[r] \notin tunnelMap \cup closed \cup expired
          /\ \A s \in Request : s # r => tun[s] # tun[r]

(* A tunnel about to be closed is not registered, and nobody will register  *)
(* it again.                                                                *)
CloseInv == \A r \in Request : At(r, "close") => tun[r] \notin tunnelMap

(* What a mutex of a CountedLock and its count say.                         *)
HolderInv ==
    \A r \in Request : pc[r] \in Held \cup {"unlock"} => core[kind[r]][tun[r]] = r
CountInv == \A k \in Kind, t \in Tunnel : numLocks[k][t] = Cardinality(Counted(k, t))

(* The age of a tunnel between two runs of the time-out task. *)
AgeInv ==
    /\ task = "wait" => \A t \in tunnelMap : age[t] <= Timeout + phase
    /\ task = "sweep" => /\ phase = 0
                         /\ \A t \in tunnelMap : age[t] <= 2 * Timeout
                         /\ \A t \in tunnelMap \ expired : age[t] <= Timeout

HttpInv ==
    /\ TypeOK
    /\ RequestInv
    /\ MadeInv
    /\ PutInv
    /\ CloseInv
    /\ HolderInv
    /\ CountInv
    /\ AgeInv
    /\ HandOver
    /\ NoLostTunnel
    /\ ClosedRejected

-----------------------------------------------------------------------------
(* Every kind of step preserves every part of the invariant. *)

(* Who is counted is a finite set, and a count above one counts another     *)
(* request than a given one.                                                *)
LEMMA CountedFinite ==
    \A k, t : IsFiniteSet(Counted(k, t)) /\ Cardinality(Counted(k, t)) \in Nat
<1>1. \A k, t : Counted(k, t) \in SUBSET Request
  BY DEF Counted
<1> QED
  BY <1>1, RequestAssumption, FS_Subset, FS_CardinalityType

(* A counted request makes the count positive, ... *)
LEMMA CountedPositive ==
    ASSUME NEW k, NEW t, NEW r \in Counted(k, t)
    PROVE  Cardinality(Counted(k, t)) # 0
BY CountedFinite, FS_EmptySet

(* ... and a second one makes it more than one. *)
LEMMA CountedTwice ==
    ASSUME NEW k, NEW t, NEW r, Cardinality(Counted(k, t)) > 1
    PROVE  \E s \in Counted(k, t) : s # r
<1> SUFFICES ASSUME \A s \in Counted(k, t) : s = r
             PROVE  FALSE
  OBVIOUS
<1>1. Counted(k, t) \in SUBSET {r} /\ IsFiniteSet({r}) /\ Cardinality({r}) = 1
  BY FS_Singleton
<1>2. Cardinality(Counted(k, t)) <= 1
  BY <1>1, FS_Subset
<1> QED
  BY <1>2, CountedFinite

(* Every step keeps the types, ... *)
LEMMA TypeStepInv ==
    ASSUME TypeOK, RequestInv, MadeInv, CountInv, [Next]_vars
    PROVE  TypeOK'
<1> USE HttpNoneAssumption, TimeoutAssumption DEF TypeOK, RequestInv, MadeInv, Kind, Place
<1>1. ASSUME NEW r \in Request, Connect(r) PROVE TypeOK'
  BY <1>1 DEF Connect
<1>2. ASSUME NEW r \in Request, NEW k \in Kind, NEW t \in Tunnel, Get(r, k, t) PROVE TypeOK'
  BY <1>2 DEF Get
<1>3. ASSUME NEW r \in Request, Put(r) PROVE TypeOK'
  BY <1>3 DEF Put
<1>4. ASSUME NEW r \in Request, Access(r) PROVE TypeOK'
  BY <1>4 DEF Access
<1>5. ASSUME NEW r \in Request, Count(r) PROVE TypeOK'
  BY <1>5 DEF Count
<1>6. ASSUME NEW r \in Request, Acquire(r) PROVE TypeOK'
  BY <1>6 DEF Acquire
<1>7. ASSUME NEW r \in Request, ReadSome(r) PROVE TypeOK'
  BY <1>7 DEF ReadSome
<1>8. ASSUME NEW r \in Request, ReadSomeReturns(r) PROVE TypeOK'
  BY <1>8 DEF ReadSomeReturns
<1>9. ASSUME NEW r \in Request, Respond(r) PROVE TypeOK'
  BY <1>9 DEF Respond
<1>10. ASSUME NEW r \in Request, Check(r) PROVE TypeOK'
  BY <1>10 DEF Check, HasQueued
<1>11. ASSUME NEW r \in Request, Finish(r) PROVE TypeOK'
  BY <1>11 DEF Finish
<1>12. ASSUME NEW r \in Request, Copy(r) PROVE TypeOK'
  BY <1>12 DEF Copy
<1>13. ASSUME NEW r \in Request, Deregister(r) PROVE TypeOK'
  BY <1>13 DEF Deregister
<1>14. ASSUME NEW r \in Request, Close(r) PROVE TypeOK'
  BY <1>14 DEF Close
<1>15. ASSUME NEW r \in Request, Unlock(r) PROVE TypeOK'
  <2>1. CASE At(r, "uncount")
    <3>1. kind[r] \in Kind /\ tun[r] \in Tunnel
      BY <2>1 DEF RequestInv, MadeInv, TypeOK
    <3>2. r \in Counted(kind[r], tun[r])
      BY <2>1 DEF Counted, Held
    <3>3. numLocks[kind[r]][tun[r]] \in Nat \ {0}
      BY <3>1, <3>2, CountedPositive, CountedFinite DEF CountInv
    <3>4. numLocks' = [numLocks EXCEPT ![kind[r]][tun[r]] = numLocks[kind[r]][tun[r]] - 1]
      BY <1>15, <2>1 DEF Unlock
    <3>5. numLocks[kind[r]][tun[r]] - 1 \in Nat
      BY <3>3
    <3>6. [numLocks[kind[r]] EXCEPT ![tun[r]] = numLocks[kind[r]][tun[r]] - 1] \in [Tunnel -> Nat]
      BY <3>1, <3>5 DEF TypeOK
    <3>7. numLocks' \in [Kind -> [Tunnel -> Nat]]
      BY <3>1, <3>4, <3>6 DEF TypeOK
    <3> QED
      BY <1>15, <2>1, <3>7 DEF TypeOK, Unlock, Place
  <2>2. CASE At(r, "unlock")
    BY <1>15, <2>2 DEF TypeOK, RequestInv, MadeInv, Unlock, Place, Kind
  <2> QED
    BY <1>15, <2>1, <2>2 DEF Unlock
<1>16. CASE Tick
  BY <1>16 DEF Tick
<1>17. CASE Scan
  BY <1>17 DEF Scan
<1>18. CASE Sweep
  BY <1>18 DEF Sweep
<1>19. CASE UNCHANGED vars
  BY <1>19 DEF vars
<1> QED
  BY <1>1, <1>2, <1>3, <1>4, <1>5, <1>6, <1>7, <1>8, <1>9, <1>10, <1>11, <1>12, <1>13, <1>14,
     <1>15, <1>16, <1>17, <1>18, <1>19
  DEF Next, RequestStep, Clock

(* ... what is known of the requests at their places, ... *)
LEMMA RequestStepInv ==
    ASSUME TypeOK, RequestInv, MadeInv, [Next]_vars
    PROVE  RequestInv'
<1> USE HttpNoneAssumption DEF TypeOK, RequestInv, MadeInv, Kind, Reading, Failing, Held
<1>1. ASSUME NEW r \in Request, Connect(r) PROVE RequestInv'
  BY <1>1 DEF Connect
<1>2. ASSUME NEW r \in Request, NEW k \in Kind, NEW t \in Tunnel, Get(r, k, t) PROVE RequestInv'
  BY <1>2 DEF Get
<1>3. ASSUME NEW r \in Request, Put(r) PROVE RequestInv'
  BY <1>3 DEF Put
<1>4. ASSUME NEW r \in Request, Access(r) PROVE RequestInv'
  BY <1>4 DEF Access
<1>5. ASSUME NEW r \in Request, Count(r) PROVE RequestInv'
  BY <1>5 DEF Count
<1>6. ASSUME NEW r \in Request, Acquire(r) PROVE RequestInv'
  BY <1>6 DEF Acquire
<1>7. ASSUME NEW r \in Request, ReadSome(r) PROVE RequestInv'
  BY <1>7 DEF ReadSome
<1>8. ASSUME NEW r \in Request, ReadSomeReturns(r) PROVE RequestInv'
  BY <1>8 DEF ReadSomeReturns
<1>9. ASSUME NEW r \in Request, Respond(r) PROVE RequestInv'
  BY <1>9 DEF Respond
<1>10. ASSUME NEW r \in Request, Check(r) PROVE RequestInv'
  BY <1>10 DEF Check, HasQueued
<1>11. ASSUME NEW r \in Request, Finish(r) PROVE RequestInv'
  BY <1>11 DEF Finish
<1>12. ASSUME NEW r \in Request, Copy(r) PROVE RequestInv'
  BY <1>12 DEF Copy
<1>13. ASSUME NEW r \in Request, Deregister(r) PROVE RequestInv'
  BY <1>13 DEF Deregister
<1>14. ASSUME NEW r \in Request, Close(r) PROVE RequestInv'
  BY <1>14 DEF Close
<1>15. ASSUME NEW r \in Request, Unlock(r) PROVE RequestInv'
  BY <1>15 DEF Unlock
<1>16. CASE Tick
  BY <1>16 DEF Tick
<1>17. CASE Scan
  BY <1>17 DEF Scan
<1>18. CASE Sweep
  BY <1>18 DEF Sweep
<1>19. CASE UNCHANGED vars
  BY <1>19 DEF vars
<1> QED
  BY <1>1, <1>2, <1>3, <1>4, <1>5, <1>6, <1>7, <1>8, <1>9, <1>10, <1>11, <1>12, <1>13, <1>14,
     <1>15, <1>16, <1>17, <1>18, <1>19
  DEF Next, RequestStep, Clock

(* ... of the tunnels of connect requests and of the time-out task, ... *)
LEMMA MapStepInv ==
    ASSUME TypeOK, RequestInv, MadeInv, PutInv, CloseInv, [Next]_vars
    PROVE  (MadeInv /\ PutInv /\ CloseInv)'
<1> USE HttpNoneAssumption DEF TypeOK, RequestInv, MadeInv, PutInv, CloseInv
<1>1. ASSUME NEW r \in Request, Connect(r) PROVE (MadeInv /\ PutInv /\ CloseInv)'
  <2>1. MadeInv'
    BY <1>1 DEF Connect
  <2>2. PutInv'
    BY <1>1 DEF Connect
  <2>3. CloseInv'
    BY <1>1 DEF Connect
  <2> QED
    BY <2>1, <2>2, <2>3
<1>2. ASSUME NEW r \in Request, NEW k \in Kind, NEW t \in Tunnel, Get(r, k, t)
      PROVE (MadeInv /\ PutInv /\ CloseInv)'
  <2>1. MadeInv'
    BY <1>2 DEF Get
  <2>2. PutInv'
    BY <1>2 DEF Get
  <2>3. CloseInv'
    BY <1>2 DEF Get
  <2> QED
    BY <2>1, <2>2, <2>3
<1>3. ASSUME NEW r \in Request, Put(r) PROVE (MadeInv /\ PutInv /\ CloseInv)'
  BY <1>3 DEF Put
<1>4. ASSUME NEW r \in Request, Access(r) PROVE (MadeInv /\ PutInv /\ CloseInv)'
  BY <1>4 DEF Access
<1>5. ASSUME NEW r \in Request, Count(r) PROVE (MadeInv /\ PutInv /\ CloseInv)'
  BY <1>5 DEF Count
<1>6. ASSUME NEW r \in Request, Acquire(r) PROVE (MadeInv /\ PutInv /\ CloseInv)'
  BY <1>6 DEF Acquire
<1>7. ASSUME NEW r \in Request, ReadSome(r) PROVE (MadeInv /\ PutInv /\ CloseInv)'
  BY <1>7 DEF ReadSome
<1>8. ASSUME NEW r \in Request, ReadSomeReturns(r) PROVE (MadeInv /\ PutInv /\ CloseInv)'
  BY <1>8 DEF ReadSomeReturns
<1>9. ASSUME NEW r \in Request, Respond(r) PROVE (MadeInv /\ PutInv /\ CloseInv)'
  BY <1>9 DEF Respond
<1>10. ASSUME NEW r \in Request, Check(r) PROVE (MadeInv /\ PutInv /\ CloseInv)'
  BY <1>10 DEF Check, HasQueued
<1>11. ASSUME NEW r \in Request, Finish(r) PROVE (MadeInv /\ PutInv /\ CloseInv)'
  BY <1>11 DEF Finish
<1>12. ASSUME NEW r \in Request, Copy(r) PROVE (MadeInv /\ PutInv /\ CloseInv)'
  BY <1>12 DEF Copy
<1>13. ASSUME NEW r \in Request, Deregister(r) PROVE (MadeInv /\ PutInv /\ CloseInv)'
  BY <1>13 DEF Deregister
<1>14. ASSUME NEW r \in Request, Close(r) PROVE (MadeInv /\ PutInv /\ CloseInv)'
  BY <1>14 DEF Close
<1>15. ASSUME NEW r \in Request, Unlock(r) PROVE (MadeInv /\ PutInv /\ CloseInv)'
  BY <1>15 DEF Unlock
<1>16. CASE Tick
  BY <1>16 DEF Tick
<1>17. CASE Scan
  BY <1>17 DEF Scan
<1>18. CASE Sweep
  BY <1>18 DEF Sweep
<1>19. CASE UNCHANGED vars
  BY <1>19 DEF vars
<1> QED
  BY <1>1, <1>2, <1>3, <1>4, <1>5, <1>6, <1>7, <1>8, <1>9, <1>10, <1>11, <1>12, <1>13, <1>14,
     <1>15, <1>16, <1>17, <1>18, <1>19
  DEF Next, RequestStep, Clock

(* ... that no tunnel is lost and that closed ones are not registered, ... *)
LEMMA ClosingStepInv ==
    ASSUME TypeOK, RequestInv, MadeInv, PutInv, CloseInv, NoLostTunnel, ClosedRejected, [Next]_vars
    PROVE  (NoLostTunnel /\ ClosedRejected)'
<1> USE DEF TypeOK, RequestInv, MadeInv, PutInv, CloseInv, NoLostTunnel, ClosedRejected
<1>1. ASSUME NEW r \in Request, Connect(r) PROVE (NoLostTunnel /\ ClosedRejected)'
  BY <1>1 DEF Connect
<1>2. ASSUME NEW r \in Request, NEW k \in Kind, NEW t \in Tunnel, Get(r, k, t)
      PROVE (NoLostTunnel /\ ClosedRejected)'
  BY <1>2 DEF Get
<1>3. ASSUME NEW r \in Request, Put(r) PROVE (NoLostTunnel /\ ClosedRejected)'
  BY <1>3 DEF Put
<1>4. ASSUME NEW r \in Request, Access(r) PROVE (NoLostTunnel /\ ClosedRejected)'
  BY <1>4 DEF Access
<1>5. ASSUME NEW r \in Request, Count(r) PROVE (NoLostTunnel /\ ClosedRejected)'
  BY <1>5 DEF Count
<1>6. ASSUME NEW r \in Request, Acquire(r) PROVE (NoLostTunnel /\ ClosedRejected)'
  BY <1>6 DEF Acquire
<1>7. ASSUME NEW r \in Request, ReadSome(r) PROVE (NoLostTunnel /\ ClosedRejected)'
  BY <1>7 DEF ReadSome
<1>8. ASSUME NEW r \in Request, ReadSomeReturns(r) PROVE (NoLostTunnel /\ ClosedRejected)'
  BY <1>8 DEF ReadSomeReturns
<1>9. ASSUME NEW r \in Request, Respond(r) PROVE (NoLostTunnel /\ ClosedRejected)'
  BY <1>9 DEF Respond
<1>10. ASSUME NEW r \in Request, Check(r) PROVE (NoLostTunnel /\ ClosedRejected)'
  BY <1>10 DEF Check, HasQueued
<1>11. ASSUME NEW r \in Request, Finish(r) PROVE (NoLostTunnel /\ ClosedRejected)'
  BY <1>11 DEF Finish
<1>12. ASSUME NEW r \in Request, Copy(r) PROVE (NoLostTunnel /\ ClosedRejected)'
  BY <1>12 DEF Copy
<1>13. ASSUME NEW r \in Request, Deregister(r) PROVE (NoLostTunnel /\ ClosedRejected)'
  BY <1>13 DEF Deregister
<1>14. ASSUME NEW r \in Request, Close(r) PROVE (NoLostTunnel /\ ClosedRejected)'
  BY <1>14 DEF Close
<1>15. ASSUME NEW r \in Request, Unlock(r) PROVE (NoLostTunnel /\ ClosedRejected)'
  BY <1>15 DEF Unlock
<1>16. CASE Tick
  BY <1>16 DEF Tick
<1>17. CASE Scan
  BY <1>17 DEF Scan
<1>18. CASE Sweep
  BY <1>18 DEF Sweep
<1>19. CASE UNCHANGED vars
  BY <1>19 DEF vars
<1> QED
  BY <1>1, <1>2, <1>3, <1>4, <1>5, <1>6, <1>7, <1>8, <1>9, <1>10, <1>11, <1>12, <1>13, <1>14,
     <1>15, <1>16, <1>17, <1>18, <1>19
  DEF Next, RequestStep, Clock

(* ... of the holders of the mutexes, ... *)
LEMMA HolderStepInv ==
    ASSUME TypeOK, RequestInv, HolderInv, [Next]_vars
    PROVE  HolderInv'
<1> USE HttpNoneAssumption DEF TypeOK, RequestInv, HolderInv, Kind, Reading, Failing, Held
<1>1. ASSUME NEW r \in Request, Connect(r) PROVE HolderInv'
  BY <1>1 DEF Connect
<1>2. ASSUME NEW r \in Request, NEW k \in Kind, NEW t \in Tunnel, Get(r, k, t) PROVE HolderInv'
  BY <1>2 DEF Get
<1>3. ASSUME NEW r \in Request, Put(r) PROVE HolderInv'
  BY <1>3 DEF Put
<1>4. ASSUME NEW r \in Request, Access(r) PROVE HolderInv'
  BY <1>4 DEF Access
<1>5. ASSUME NEW r \in Request, Count(r) PROVE HolderInv'
  BY <1>5 DEF Count
<1>6. ASSUME NEW r \in Request, Acquire(r) PROVE HolderInv'
  BY <1>6 DEF Acquire
<1>7. ASSUME NEW r \in Request, ReadSome(r) PROVE HolderInv'
  BY <1>7 DEF ReadSome
<1>8. ASSUME NEW r \in Request, ReadSomeReturns(r) PROVE HolderInv'
  BY <1>8 DEF ReadSomeReturns
<1>9. ASSUME NEW r \in Request, Respond(r) PROVE HolderInv'
  BY <1>9 DEF Respond
<1>10. ASSUME NEW r \in Request, Check(r) PROVE HolderInv'
  BY <1>10 DEF Check, HasQueued
<1>11. ASSUME NEW r \in Request, Finish(r) PROVE HolderInv'
  BY <1>11 DEF Finish
<1>12. ASSUME NEW r \in Request, Copy(r) PROVE HolderInv'
  BY <1>12 DEF Copy
<1>13. ASSUME NEW r \in Request, Deregister(r) PROVE HolderInv'
  BY <1>13 DEF Deregister
<1>14. ASSUME NEW r \in Request, Close(r) PROVE HolderInv'
  BY <1>14 DEF Close
<1>15. ASSUME NEW r \in Request, Unlock(r) PROVE HolderInv'
  BY <1>15 DEF Unlock
<1>16. CASE Tick
  BY <1>16 DEF Tick
<1>17. CASE Scan
  BY <1>17 DEF Scan
<1>18. CASE Sweep
  BY <1>18 DEF Sweep
<1>19. CASE UNCHANGED vars
  BY <1>19 DEF vars
<1> QED
  BY <1>1, <1>2, <1>3, <1>4, <1>5, <1>6, <1>7, <1>8, <1>9, <1>10, <1>11, <1>12, <1>13, <1>14,
     <1>15, <1>16, <1>17, <1>18, <1>19
  DEF Next, RequestStep, Clock

(* ... of the ages, ... *)
LEMMA AgeStepInv ==
    ASSUME TypeOK, RequestInv, AgeInv, [Next]_vars
    PROVE  AgeInv'
<1> USE TimeoutAssumption DEF TypeOK, RequestInv, AgeInv
<1>1. ASSUME NEW r \in Request, Connect(r) PROVE AgeInv'
  BY <1>1 DEF Connect
<1>2. ASSUME NEW r \in Request, NEW k \in Kind, NEW t \in Tunnel, Get(r, k, t) PROVE AgeInv'
  BY <1>2 DEF Get
<1>3. ASSUME NEW r \in Request, Put(r) PROVE AgeInv'
  BY <1>3 DEF Put
<1>4. ASSUME NEW r \in Request, Access(r) PROVE AgeInv'
  BY <1>4 DEF Access
<1>5. ASSUME NEW r \in Request, Count(r) PROVE AgeInv'
  BY <1>5 DEF Count
<1>6. ASSUME NEW r \in Request, Acquire(r) PROVE AgeInv'
  BY <1>6 DEF Acquire
<1>7. ASSUME NEW r \in Request, ReadSome(r) PROVE AgeInv'
  BY <1>7 DEF ReadSome
<1>8. ASSUME NEW r \in Request, ReadSomeReturns(r) PROVE AgeInv'
  BY <1>8 DEF ReadSomeReturns
<1>9. ASSUME NEW r \in Request, Respond(r) PROVE AgeInv'
  BY <1>9 DEF Respond
<1>10. ASSUME NEW r \in Request, Check(r) PROVE AgeInv'
  BY <1>10 DEF Check, HasQueued
<1>11. ASSUME NEW r \in Request, Finish(r) PROVE AgeInv'
  BY <1>11 DEF Finish
<1>12. ASSUME NEW r \in Request, Copy(r) PROVE AgeInv'
  BY <1>12 DEF Copy
<1>13. ASSUME NEW r \in Request, Deregister(r) PROVE AgeInv'
  BY <1>13 DEF Deregister
<1>14. ASSUME NEW r \in Request, Close(r) PROVE AgeInv'
  BY <1>14 DEF Close
<1>15. ASSUME NEW r \in Request, Unlock(r) PROVE AgeInv'
  BY <1>15 DEF Unlock
<1>16. CASE Tick
  BY <1>16 DEF Tick
<1>17. CASE Scan
  BY <1>17 DEF Scan
<1>18. CASE Sweep
  BY <1>18 DEF Sweep
<1>19. CASE UNCHANGED vars
  BY <1>19 DEF vars
<1> QED
  BY <1>1, <1>2, <1>3, <1>4, <1>5, <1>6, <1>7, <1>8, <1>9, <1>10, <1>11, <1>12, <1>13, <1>14,
     <1>15, <1>16, <1>17, <1>18, <1>19
  DEF Next, RequestStep, Clock

(* ... and of the counts. *)
LEMMA CountStepInv ==
    ASSUME TypeOK, RequestInv, MadeInv, CountInv, [Next]_vars
    PROVE  CountInv'
<1>1. ASSUME NEW r \in Request, Connect(r) PROVE CountInv'
  <2>1. \A k, t : Counted(k, t)' = Counted(k, t)
    BY <1>1 DEF TypeOK, RequestInv, Counted, Reading, Failing, Held, Connect
  <2> QED
    BY <1>1, <2>1 DEF CountInv, Connect
<1>2. ASSUME NEW r \in Request, NEW k \in Kind, NEW t \in Tunnel, Get(r, k, t) PROVE CountInv'
  <2>1. \A m, u : Counted(m, u)' = Counted(m, u)
    BY <1>2 DEF TypeOK, RequestInv, Counted, Reading, Failing, Held, Get
  <2> QED
    BY <1>2, <2>1 DEF CountInv, Get
<1>3. ASSUME NEW r \in Request, Put(r) PROVE CountInv'
  <2>1. \A k, t : Counted(k, t)' = Counted(k, t)
    BY <1>3 DEF TypeOK, RequestInv, Counted, Reading, Failing, Held, Put
  <2> QED
    BY <1>3, <2>1 DEF CountInv, Put
<1>4. ASSUME NEW r \in Request, Access(r) PROVE CountInv'
  <2>1. \A k, t : Counted(k, t)' = Counted(k, t)
    BY <1>4 DEF TypeOK, RequestInv, Counted, Reading, Failing, Held, Access
  <2> QED
    BY <1>4, <2>1 DEF CountInv, Access
<1>5. ASSUME NEW r \in Request, Count(r) PROVE CountInv'
  <2>1. kind[r] \in Kind /\ tun[r] \in Tunnel
    BY <1>5 DEF Count, RequestInv, MadeInv, TypeOK
  <2>2. \A k, t : Counted(k, t)' = IF k = kind[r] /\ t = tun[r]
                                    THEN Counted(k, t) \cup {r} ELSE Counted(k, t)
    BY <1>5 DEF TypeOK, Counted, Count, Reading, Failing, Held
  <2>3. r \notin Counted(kind[r], tun[r])
    BY <1>5 DEF Counted, Count, Reading, Failing, Held
  <2>4. \A k \in Kind, t \in Tunnel :
           numLocks'[k][t] = IF k = kind[r] /\ t = tun[r] THEN numLocks[k][t] + 1
                                                           ELSE numLocks[k][t]
    BY <1>5, <2>1 DEF TypeOK, Count
  <2> QED
    BY <2>2, <2>3, <2>4, CountedFinite, FS_AddElement DEF CountInv
<1>6. ASSUME NEW r \in Request, Acquire(r) PROVE CountInv'
  <2>1. \A k, t : Counted(k, t)' = Counted(k, t)
    BY <1>6 DEF TypeOK, RequestInv, Counted, Reading, Failing, Held, Acquire, Kind
  <2> QED
    BY <1>6, <2>1 DEF CountInv, Acquire, Kind
<1>7. ASSUME NEW r \in Request, ReadSome(r) PROVE CountInv'
  <2>1. \A k, t : Counted(k, t)' = Counted(k, t)
    BY <1>7 DEF TypeOK, RequestInv, Counted, Reading, Failing, Held, ReadSome
  <2> QED
    BY <1>7, <2>1 DEF CountInv, ReadSome
<1>8. ASSUME NEW r \in Request, ReadSomeReturns(r) PROVE CountInv'
  <2>1. \A k, t : Counted(k, t)' = Counted(k, t)
    BY <1>8 DEF TypeOK, RequestInv, Counted, Reading, Failing, Held, ReadSomeReturns
  <2> QED
    BY <1>8, <2>1 DEF CountInv, ReadSomeReturns
<1>9. ASSUME NEW r \in Request, Respond(r) PROVE CountInv'
  <2>1. \A k, t : Counted(k, t)' = Counted(k, t)
    BY <1>9 DEF TypeOK, RequestInv, Counted, Reading, Failing, Held, Respond
  <2> QED
    BY <1>9, <2>1 DEF CountInv, Respond
<1>10. ASSUME NEW r \in Request, Check(r) PROVE CountInv'
  <2>1. \A k, t : Counted(k, t)' = Counted(k, t)
    BY <1>10 DEF TypeOK, RequestInv, Counted, Reading, Failing, Held, Check
  <2> QED
    BY <1>10, <2>1 DEF CountInv, Check
<1>11. ASSUME NEW r \in Request, Finish(r) PROVE CountInv'
  <2>1. \A k, t : Counted(k, t)' = Counted(k, t)
    BY <1>11 DEF TypeOK, RequestInv, Counted, Reading, Failing, Held, Finish
  <2> QED
    BY <1>11, <2>1 DEF CountInv, Finish
<1>12. ASSUME NEW r \in Request, Copy(r) PROVE CountInv'
  <2>1. \A k, t : Counted(k, t)' = Counted(k, t)
    BY <1>12 DEF TypeOK, RequestInv, Counted, Reading, Failing, Held, Copy
  <2> QED
    BY <1>12, <2>1 DEF CountInv, Copy
<1>13. ASSUME NEW r \in Request, Deregister(r) PROVE CountInv'
  <2>1. \A k, t : Counted(k, t)' = Counted(k, t)
    BY <1>13 DEF TypeOK, RequestInv, Counted, Reading, Failing, Held, Deregister
  <2> QED
    BY <1>13, <2>1 DEF CountInv, Deregister
<1>14. ASSUME NEW r \in Request, Close(r) PROVE CountInv'
  <2>1. \A k, t : Counted(k, t)' = Counted(k, t)
    BY <1>14 DEF TypeOK, RequestInv, Counted, Reading, Failing, Held, Close
  <2> QED
    BY <1>14, <2>1 DEF CountInv, Close
<1>15. ASSUME NEW r \in Request, Unlock(r) PROVE CountInv'
  <2>1. CASE At(r, "uncount")
    <3>1. kind[r] \in Kind /\ tun[r] \in Tunnel
      BY <2>1 DEF RequestInv, MadeInv, TypeOK
    <3>2. \A k, t : Counted(k, t)' = IF k = kind[r] /\ t = tun[r]
                                      THEN Counted(k, t) \ {r} ELSE Counted(k, t)
      BY <1>15, <2>1 DEF TypeOK, Counted, Unlock, Reading, Failing, Held
    <3>3. r \in Counted(kind[r], tun[r])
      BY <2>1 DEF Counted, Held
    <3>4. \A k \in Kind, t \in Tunnel :
             numLocks'[k][t] = IF k = kind[r] /\ t = tun[r] THEN numLocks[k][t] - 1
                                                             ELSE numLocks[k][t]
      BY <1>15, <2>1, <3>1 DEF TypeOK, Unlock
    <3> QED
      BY <3>2, <3>3, <3>4, CountedFinite, FS_RemoveElement DEF CountInv
  <2>2. CASE At(r, "unlock")
    <3>1. \A k, t : Counted(k, t)' = Counted(k, t)
      BY <1>15, <2>2 DEF TypeOK, Counted, Unlock, Reading, Failing, Held
    <3> QED
      BY <1>15, <2>2, <3>1 DEF CountInv, Unlock
  <2> QED
    BY <1>15, <2>1, <2>2 DEF Unlock
<1>16. CASE Tick
  <2>1. \A k, t : Counted(k, t)' = Counted(k, t)
    BY <1>16 DEF TypeOK, RequestInv, Counted, Reading, Failing, Held, Tick
  <2> QED
    BY <1>16, <2>1 DEF CountInv, Tick
<1>17. CASE Scan
  <2>1. \A k, t : Counted(k, t)' = Counted(k, t)
    BY <1>17 DEF TypeOK, RequestInv, Counted, Reading, Failing, Held, Scan
  <2> QED
    BY <1>17, <2>1 DEF CountInv, Scan
<1>18. CASE Sweep
  <2>1. \A k, t : Counted(k, t)' = Counted(k, t)
    BY <1>18 DEF TypeOK, RequestInv, Counted, Reading, Failing, Held, Sweep
  <2> QED
    BY <1>18, <2>1 DEF CountInv, Sweep
<1>19. CASE UNCHANGED vars
  <2>1. \A k, t : Counted(k, t)' = Counted(k, t)
    BY <1>19 DEF TypeOK, RequestInv, Counted, Reading, Failing, Held, vars
  <2> QED
    BY <1>19, <2>1 DEF CountInv, vars
<1> QED
  BY <1>1, <1>2, <1>3, <1>4, <1>5, <1>6, <1>7, <1>8, <1>9, <1>10, <1>11, <1>12, <1>13, <1>14,
     <1>15, <1>16, <1>17, <1>18, <1>19
  DEF Next, RequestStep, Clock

(* A step of a request that neither waits for a lock nor gives way keeps    *)
(* what HandOver says of the others.                                        *)
LEMMA HandOverKept ==
    ASSUME HandOver, NEW r \in Request, ~At(r, "acquire"), ~At(r, "finish")',
           \A s \in Request \ {r} : pc'[s] = pc[s] /\ kind'[s] = kind[s] /\ tun'[s] = tun[s]
    PROVE  HandOver'
<1> SUFFICES ASSUME NEW q \in Request, At(q, "finish")'
             PROVE  \E s \in Request : (At(s, "acquire") /\ kind[s] = "read" /\ tun[s] = tun[q])'
  BY DEF HandOver
<1>1. q # r /\ At(q, "finish") /\ tun'[q] = tun[q]
  OBVIOUS
<1>2. PICK s \in Request : At(s, "acquire") /\ kind[s] = "read" /\ tun[s] = tun[q]
  BY <1>1 DEF HandOver
<1> QED
  BY <1>1, <1>2

(* What HasQueued tells the holder of the reader: somebody waits.           *)
LEMMA QueuedWaits ==
    ASSUME TypeOK, RequestInv, MadeInv, HolderInv, CountInv,
           NEW r \in Request, At(r, "check"), HasQueued(tun[r])
    PROVE  \E s \in Request : At(s, "acquire") /\ kind[s] = "read" /\ tun[s] = tun[r]
<1>1. tun[r] \in Tunnel /\ kind[r] = "read" /\ core["read"][tun[r]] = r
  BY DEF RequestInv, MadeInv, TypeOK, HolderInv, Reading, Held
<1>2. Cardinality(Counted("read", tun[r])) > 1
  BY <1>1 DEF HasQueued, CountInv, Kind
<1>3. \E s \in Counted("read", tun[r]) : s # r
  BY <1>2, CountedTwice
<1> QED
  BY <1>1, <1>3 DEF Counted, HolderInv

(* Hence a read response gives way only to a request that waits. *)
LEMMA HandOverStep ==
    ASSUME TypeOK, RequestInv, MadeInv, HolderInv, CountInv, HandOver, [Next]_vars
    PROVE  HandOver'
<1> USE HttpNoneAssumption DEF TypeOK, RequestInv, HolderInv, HandOver, At, Reading, Failing, Held
<1>1. ASSUME NEW r \in Request, Connect(r) PROVE HandOver'
  <2>1. /\ ~At(r, "acquire") /\ ~At(r, "finish")'
        /\ \A s \in Request \ {r} : pc'[s] = pc[s] /\ kind'[s] = kind[s] /\ tun'[s] = tun[s]
    BY <1>1 DEF TypeOK, Connect
  <2> QED
    BY <2>1, HandOverKept
<1>2. ASSUME NEW r \in Request, NEW k \in Kind, NEW t \in Tunnel, Get(r, k, t) PROVE HandOver'
  <2>1. /\ ~At(r, "acquire") /\ ~At(r, "finish")'
        /\ \A s \in Request \ {r} : pc'[s] = pc[s] /\ kind'[s] = kind[s] /\ tun'[s] = tun[s]
    BY <1>2 DEF TypeOK, Get
  <2> QED
    BY <2>1, HandOverKept
<1>3. ASSUME NEW r \in Request, Put(r) PROVE HandOver'
  BY <1>3 DEF Put
<1>4. ASSUME NEW r \in Request, Access(r) PROVE HandOver'
  BY <1>4 DEF Access
<1>5. ASSUME NEW r \in Request, Count(r) PROVE HandOver'
  BY <1>5 DEF Count
<1>6. ASSUME NEW r \in Request, Acquire(r) PROVE HandOver'
  BY <1>6 DEF Acquire
<1>7. ASSUME NEW r \in Request, ReadSome(r) PROVE HandOver'
  BY <1>7 DEF ReadSome
<1>8. ASSUME NEW r \in Request, ReadSomeReturns(r) PROVE HandOver'
  BY <1>8 DEF ReadSomeReturns
<1>9. ASSUME NEW r \in Request, Respond(r) PROVE HandOver'
  BY <1>9 DEF Respond
<1>10. ASSUME NEW r \in Request, Check(r) PROVE HandOver'
  <2>1. CASE HasQueued(tun[r])
    <3>1. PICK s \in Request : At(s, "acquire") /\ kind[s] = "read" /\ tun[s] = tun[r]
      BY <1>10, <2>1, QueuedWaits DEF Check
    <3> QED
      BY <1>10, <3>1 DEF Check
  <2>2. CASE ~HasQueued(tun[r])
    BY <1>10, <2>2 DEF Check
  <2> QED
    BY <2>1, <2>2
<1>11. ASSUME NEW r \in Request, Finish(r) PROVE HandOver'
  BY <1>11 DEF Finish
<1>12. ASSUME NEW r \in Request, Copy(r) PROVE HandOver'
  <2>1. /\ ~At(r, "acquire") /\ ~At(r, "finish")'
        /\ \A s \in Request \ {r} : pc'[s] = pc[s] /\ kind'[s] = kind[s] /\ tun'[s] = tun[s]
    BY <1>12 DEF TypeOK, Copy
  <2> QED
    BY <2>1, HandOverKept
<1>13. ASSUME NEW r \in Request, Deregister(r) PROVE HandOver'
  BY <1>13 DEF Deregister
<1>14. ASSUME NEW r \in Request, Close(r) PROVE HandOver'
  BY <1>14 DEF Close
<1>15. ASSUME NEW r \in Request, Unlock(r) PROVE HandOver'
  <2>1. /\ ~At(r, "acquire") /\ ~At(r, "finish")'
        /\ \A s \in Request \ {r} : pc'[s] = pc[s] /\ kind'[s] = kind[s] /\ tun'[s] = tun[s]
    BY <1>15 DEF TypeOK, Unlock
  <2> QED
    BY <2>1, HandOverKept
<1>16. CASE Tick
  BY <1>16 DEF Tick
<1>17. CASE Scan
  BY <1>17 DEF Scan
<1>18. CASE Sweep
  BY <1>18 DEF Sweep
<1>19. CASE UNCHANGED vars
  BY <1>19 DEF vars
<1> QED
  BY <1>1, <1>2, <1>3, <1>4, <1>5, <1>6, <1>7, <1>8, <1>9, <1>10, <1>11, <1>12, <1>13, <1>14,
     <1>15, <1>16, <1>17, <1>18, <1>19
  DEF Next, RequestStep, Clock

-----------------------------------------------------------------------------
(* The invariant holds at the start ... *)
LEMMA HttpInit == Init => HttpInv
<1> SUFFICES ASSUME Init PROVE HttpInv
  OBVIOUS
<1>1. TypeOK
  BY TimeoutAssumption DEF Init, TypeOK, Kind, Place
<1>2. RequestInv /\ MadeInv /\ PutInv /\ CloseInv /\ HolderInv
  BY DEF Init, RequestInv, MadeInv, PutInv, CloseInv, HolderInv, Reading, Failing, Held
<1>3. \A k, t : Counted(k, t) = {}
  BY DEF Init, Counted, Reading, Failing, Held
<1>4. CountInv
  BY <1>3, FS_EmptySet DEF Init, CountInv
<1>5. AgeInv /\ HandOver /\ NoLostTunnel /\ ClosedRejected
  BY DEF Init, AgeInv, HandOver, NoLostTunnel, ClosedRejected
<1> QED
  BY <1>1, <1>2, <1>4, <1>5 DEF HttpInv

(* ... and every step keeps it. *)
LEMMA HttpNext == HttpInv /\ [Next]_vars => HttpInv'
BY TypeStepInv, RequestStepInv, MapStepInv, ClosingStepInv, HolderStepInv,
   CountStepInv, AgeStepInv, HandOverStep DEF HttpInv

(* The inductive invariant of the HTTP tunnel holds in every reachable      *)
(* state: what requests, the time-out task, the map and the counted locks   *)
(* may rely on.                                                             *)
THEOREM HttpCorrect == Spec => []HttpInv
<1>1. Init => HttpInv
  BY HttpInit
<1>2. HttpInv /\ [Next]_vars => HttpInv'
  BY HttpNext
<1> QED
  BY <1>1, <1>2, PTL DEF Spec

(* Every reachable state is well typed; a count never falls below zero.     *)
THEOREM HttpTypeCorrect == Spec => []TypeOK
<1>1. HttpInv => TypeOK
  BY DEF HttpInv
<1> QED
  BY <1>1, HttpCorrect, PTL

(* A read response gives way only to a request that waits for the reader:   *)
(* the order of CountedLock.Unlock, the count before the mutex, makes the   *)
(* count exact for whoever holds the mutex.                                 *)
THEOREM HandsOver == Spec => []HandOver
<1>1. HttpInv => HandOver
  BY DEF HttpInv
<1> QED
  BY <1>1, HttpCorrect, PTL

(* No connection to guacd is lost by a failing request or by the time-out   *)
(* task.                                                                    *)
THEOREM LosesNoTunnel == Spec => []NoLostTunnel
<1>1. HttpInv => NoLostTunnel
  BY DEF HttpInv
<1> QED
  BY <1>1, HttpCorrect, PTL

(* A closed tunnel is not registered: deregisterTunnel and the task take it *)
(* out of the map first, and Put never brings one back.                     *)
THEOREM RejectsClosed == Spec => []ClosedRejected
<1>1. HttpInv => ClosedRejected
  BY DEF HttpInv
<1> QED
  BY <1>1, HttpCorrect, PTL

(* The upper bound of tunnel_map.go 46 on the age of a registered tunnel,   *)
(* for every time-out.                                                      *)
THEOREM ExpiryBounded == Spec => []ExpiresInTime
<1>1. HttpInv => ExpiresInTime
  <2> SUFFICES ASSUME HttpInv, NEW t \in tunnelMap PROVE age[t] <= 2 * Timeout
    BY DEF ExpiresInTime
  <2>1. age[t] \in Nat /\ phase \in 0..Timeout /\ task \in {"wait", "sweep"}
    BY DEF HttpInv, TypeOK
  <2> QED
    BY <2>1, TimeoutAssumption DEF HttpInv, AgeInv
<1> QED
  BY <1>1, HttpCorrect, PTL
=============================================================================
