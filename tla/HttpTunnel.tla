----------------------------- MODULE HttpTunnel -----------------------------
(***************************************************************************)
(* The HTTP tunnel: the requests of pkg/server.go, the map of tunnels with *)
(* its time-out task (pkg/tunnel_map.go), the tunnel (pkg/tunnel.go) and   *)
(* the counted lock of its reader and of its writer (pkg/counted_lock.go). *)
(*                                                                         *)
(* A request is a member of Request and is served by a goroutine of its    *)
(* own; pc[r] is where it stands.  A section under the mutex of the map is *)
(* one step.  Time is counted in units of which TunnelTimeout is Timeout;  *)
(* the time-out task is taken to be prompt: time stands still while it has *)
(* a tick to handle, which takes milliseconds against TunnelTimeout's 15   *)
(* seconds.                                                                *)
(***************************************************************************)
EXTENDS Integers, FiniteSets

CONSTANTS
    Tunnel,     \* tunnels, by uuid
    Request,    \* HTTP requests
    Timeout,    \* TunnelTimeout in units of time
    None        \* no tunnel, no request

ASSUME HttpNoneAssumption == None \notin Tunnel \cup Request
ASSUME RequestAssumption == IsFiniteSet(Request)
ASSUME TimeoutAssumption == Timeout \in Nat \ {0}

VARIABLES
    tunnelMap,  \* TunnelMap.tunnelMap: the registered tunnels
    age,        \* time since LastAccessedTunnel.lastAccessedTime
    phase,      \* time since the ticker fired
    task,       \* the time-out task: waiting for the ticker, or about to remove
    expired,    \* its list removeIDs
    made,       \* the tunnels connect has returned
    closed,     \* the tunnels whose connection to guacd is closed
    numLocks,   \* CountedLock.numLocks, of the reader and of the writer
    core        \* CountedLock.core: the request that holds it
VARIABLES
    pc,         \* the place of the goroutine of a request
    kind,       \* what a request asks for
    tun         \* the tunnel it asks for

mapVars == <<tunnelMap, age>>
taskVars == <<phase, task, expired>>
tunnelVars == <<made, closed>>
lockVars == <<numLocks, core>>
requestVars == <<pc, kind, tun>>
vars == <<mapVars, taskVars, tunnelVars, lockVars, requestVars>>

Kind == {"read", "write"}

Place == {"idle", "put", "access", "count", "acquire", "read", "blocked", "respond",
          "check", "finish", "copy", "deregister", "close", "uncount", "unlock", "done"}

TypeOK ==
    /\ tunnelMap \subseteq Tunnel
    /\ age \in [Tunnel -> Nat]
    /\ phase \in 0..Timeout
    /\ task \in {"wait", "sweep"}
    /\ expired \subseteq Tunnel
    /\ made \subseteq Tunnel
    /\ closed \subseteq Tunnel
    /\ numLocks \in [Kind -> [Tunnel -> Nat]]
    /\ core \in [Kind -> [Tunnel -> Request \cup {None}]]
    /\ pc \in [Request -> Place]
    /\ kind \in [Request -> Kind \cup {"connect"}]
    /\ tun \in [Request -> Tunnel \cup {None}]

Init ==
    /\ tunnelMap = {}
    /\ age = [t \in Tunnel |-> 0]
    /\ phase = 0
    /\ task = "wait"
    /\ expired = {}
    /\ made = {}
    /\ closed = {}
    /\ numLocks = [k \in Kind |-> [t \in Tunnel |-> 0]]
    /\ core = [k \in Kind |-> [t \in Tunnel |-> None]]
    /\ pc = [r \in Request |-> "idle"]
    /\ kind = [r \in Request |-> "connect"]
    /\ tun = [r \in Request |-> None]

At(r, place) == pc[r] = place
Move(r, place) == pc' = [pc EXCEPT ![r] = place]

(* The request goes on. *)
Proceed(r, place) ==
    /\ Move(r, place)
    /\ UNCHANGED <<kind, tun>>

(* The request is answered, or dropped by net/http after a panic. *)
End(r) ==
    /\ Move(r, "done")
    /\ kind' = [kind EXCEPT ![r] = "connect"]
    /\ tun' = [tun EXCEPT ![r] = None]

(* A request comes in for a tunnel. *)
Start(r, k, t, place) ==
    /\ At(r, "idle")
    /\ Move(r, place)
    /\ kind' = [kind EXCEPT ![r] = k]
    /\ tun' = [tun EXCEPT ![r] = t]

-----------------------------------------------------------------------------
(* Mutants: what a slip in the code would make of a definition below.       *)

Unlock_CoreFirst(r) ==
    /\ \/ /\ At(r, "uncount")
          /\ Proceed(r, "unlock")
          /\ core' = [core EXCEPT ![kind[r]][tun[r]] = None]
          /\ UNCHANGED numLocks
       \/ /\ At(r, "unlock")
          /\ End(r)
          /\ numLocks' = [numLocks EXCEPT ![kind[r]][tun[r]] = @ - 1]
          /\ UNCHANGED core
    /\ UNCHANGED <<mapVars, taskVars, tunnelVars>>

Unlock_KeepsCore(r) ==
    /\ At(r, "uncount")
    /\ End(r)
    /\ numLocks' = [numLocks EXCEPT ![kind[r]][tun[r]] = @ - 1]
    /\ UNCHANGED <<mapVars, taskVars, tunnelVars, core>>

Deregister_Skipped(r) ==
    /\ At(r, "deregister")
    /\ Proceed(r, "close")
    /\ UNCHANGED <<mapVars, taskVars, tunnelVars, lockVars>>

Sweep_NoClose ==
    /\ task = "sweep"
    /\ tunnelMap' = tunnelMap \ expired
    /\ task' = "wait"
    /\ expired' = {}
    /\ UNCHANGED <<age, phase, tunnelVars, lockVars, requestVars>>

Scan_Doubled ==
    /\ task = "wait"
    /\ phase = Timeout
    /\ expired' = {t \in tunnelMap : age[t] > 2 * Timeout}
    /\ task' = "sweep"
    /\ phase' = 0
    /\ UNCHANGED <<mapVars, tunnelVars, lockVars, requestVars>>

-----------------------------------------------------------------------------
(* A connect request: the callback makes a tunnel, or fails. *)
Connect(r) ==
    /\ \/ \E t \in Tunnel \ made :
             Start(r, "connect", t, "put") /\ made' = made \cup {t}
       \/ At(r, "idle") /\ End(r) /\ UNCHANGED made
    /\ UNCHANGED <<mapVars, taskVars, closed, lockVars>>

(* TunnelMap.Put.  The tunnel stays when its uuid cannot be written. *)
Put(r) ==
    /\ At(r, "put")
    /\ tunnelMap' = tunnelMap \cup {tun[r]}
    /\ age' = [age EXCEPT ![tun[r]] = 0]
    /\ End(r)
    /\ UNCHANGED <<taskVars, tunnelVars, lockVars>>

(* A read or a write request: TunnelMap.Get looks the tunnel up, ... *)
Get(r, k, t) ==
    /\ t \in made
    /\ IF t \in tunnelMap
       THEN Start(r, k, t, "access")
       ELSE At(r, "idle") /\ End(r)
    /\ UNCHANGED <<mapVars, taskVars, tunnelVars, lockVars>>

(* ... and marks it as used, after it has released the map. *)
Access(r) ==
    /\ At(r, "access")
    /\ age' = [age EXCEPT ![tun[r]] = 0]
    /\ Proceed(r, "count")
    /\ UNCHANGED <<tunnelMap, taskVars, tunnelVars, lockVars>>

(* CountedLock.Lock: the count first, ... *)
Count(r) ==
    /\ At(r, "count")
    /\ numLocks' = [numLocks EXCEPT ![kind[r]][tun[r]] = @ + 1]
    /\ Proceed(r, "acquire")
    /\ UNCHANGED <<mapVars, taskVars, tunnelVars, core>>

(* ... then the mutex. *)
Acquire(r) ==
    /\ At(r, "acquire")
    /\ core[kind[r]][tun[r]] = None
    /\ core' = [core EXCEPT ![kind[r]][tun[r]] = r]
    /\ Proceed(r, IF kind[r] = "read" THEN "read" ELSE "copy")
    /\ UNCHANGED <<mapVars, taskVars, tunnelVars, numLocks>>

(* CountedLock.Unlock: the count first, then the mutex. *)
Unlock(r) ==
    /\ \/ /\ At(r, "uncount")
          /\ Proceed(r, "unlock")
          /\ numLocks' = [numLocks EXCEPT ![kind[r]][tun[r]] = @ - 1]
          /\ UNCHANGED core
       \/ /\ At(r, "unlock")
          /\ End(r)
          /\ core' = [core EXCEPT ![kind[r]][tun[r]] = None]
          /\ UNCHANGED numLocks
    /\ UNCHANGED <<mapVars, taskVars, tunnelVars>>

(* CountedLock.HasQueued *)
HasQueued(t) == numLocks["read"][t] > 1

(* ReadSome starts.  On a closed connection no deadline can be set; that    *)
(* error is not an ErrGuac and doRead panics on it once writeSome has       *)
(* deregistered and closed the tunnel.                                      *)
ReadSome(r) ==
    /\ At(r, "read")
    /\ Proceed(r, IF tun[r] \in closed THEN "deregister" ELSE "blocked")
    /\ UNCHANGED <<mapVars, taskVars, tunnelVars, lockVars>>

(* ReadSome returns an instruction, or an error: the connection was reset   *)
(* or closed, or guacd was silent for SocketTimeout, ended the stream or    *)
(* sent what cannot be parsed.  Or it panics on an element whose characters *)
(* end past the buffer: the deferred ReleaseReader runs, the tunnel is      *)
(* neither deregistered nor closed.                                         *)
ReadSomeReturns(r) ==
    /\ At(r, "blocked")
    /\ Proceed(r, "respond") \/ Proceed(r, "deregister") \/ Proceed(r, "uncount")
    /\ UNCHANGED <<mapVars, taskVars, tunnelVars, lockVars>>

(* writeSome passes the instruction on, when the client still takes it. *)
Respond(r) ==
    /\ At(r, "respond")
    /\ Proceed(r, "check") \/ Proceed(r, "deregister")
    /\ UNCHANGED <<mapVars, taskVars, tunnelVars, lockVars>>

(* It goes on reading until another read request waits for the reader. *)
Check(r) ==
    /\ At(r, "check")
    /\ Proceed(r, IF HasQueued(tun[r]) THEN "finish" ELSE "read")
    /\ UNCHANGED <<mapVars, taskVars, tunnelVars, lockVars>>

(* The end-of-instructions marker.  When it cannot be written doRead panics *)
(* on the error, and again the tunnel is neither deregistered nor closed.   *)
Finish(r) ==
    /\ At(r, "finish")
    /\ Proceed(r, "uncount")
    /\ UNCHANGED <<mapVars, taskVars, tunnelVars, lockVars>>

(* doWrite copies the body of the request to guacd. *)
Copy(r) ==
    /\ At(r, "copy")
    /\ Proceed(r, "uncount") \/ Proceed(r, "deregister")
    /\ UNCHANGED <<mapVars, taskVars, tunnelVars, lockVars>>

(* A request that failed takes its tunnel out of the map (TunnelMap.Remove) *)
Deregister(r) ==
    /\ At(r, "deregister")
    /\ tunnelMap' = tunnelMap \ {tun[r]}
    /\ Proceed(r, "close")
    /\ UNCHANGED <<age, taskVars, tunnelVars, lockVars>>

(* and closes it.  What Close returns takes the place of doWrite's error:   *)
(* nothing, or an error that is not an ErrGuac, on which ServeHTTP panics.  *)
Close(r) ==
    /\ At(r, "close")
    /\ closed' = closed \cup {tun[r]}
    /\ Proceed(r, "uncount")
    /\ UNCHANGED <<mapVars, taskVars, made, lockVars>>

-----------------------------------------------------------------------------
(* Time passes.  Only the age of a registered tunnel is ever read. *)
Tick ==
    /\ task = "wait"
    /\ phase < Timeout
    /\ phase' = phase + 1
    /\ age' = [t \in Tunnel |-> IF t \in tunnelMap THEN age[t] + 1 ELSE age[t]]
    /\ UNCHANGED <<tunnelMap, task, expired, tunnelVars, lockVars, requestVars>>

(* tunnelTimeoutTaskRun lists what has expired under the read lock, ... *)
Scan ==
    /\ task = "wait"
    /\ phase = Timeout
    /\ expired' = {t \in tunnelMap : age[t] > Timeout}
    /\ task' = "sweep"
    /\ phase' = 0
    /\ UNCHANGED <<mapVars, tunnelVars, lockVars, requestVars>>

(* ... and removes and closes what it listed under the write lock. *)
Sweep ==
    /\ task = "sweep"
    /\ tunnelMap' = tunnelMap \ expired
    /\ closed' = closed \cup expired
    /\ task' = "wait"
    /\ expired' = {}
    /\ UNCHANGED <<age, phase, made, lockVars, requestVars>>

RequestStep(r) ==
    \/ Put(r) \/ Access(r) \/ Count(r) \/ Acquire(r) \/ ReadSome(r)
    \/ ReadSomeReturns(r) \/ Respond(r) \/ Check(r) \/ Finish(r) \/ Copy(r)
    \/ Deregister(r) \/ Close(r) \/ Unlock(r)

Clock == Tick \/ Scan \/ Sweep

Next ==
    \/ \E r \in Request :
          \/ Connect(r)
          \/ \E k \in Kind, t \in Tunnel : Get(r, k, t)
          \/ RequestStep(r)
    \/ Clock

(* Goroutines are scheduled, the ticker fires, reads of guacd are bounded   *)
(* by SocketTimeout and reads and writes of the client by the ReadTimeout   *)
(* and WriteTimeout of the http.Server.                                     *)
Fairness == WF_vars(Clock) /\ \A r \in Request : WF_vars(RequestStep(r))

Spec == Init /\ [][Next]_vars
FairSpec == Spec /\ Fairness

-----------------------------------------------------------------------------
(* A read response ends early ("another guacd can take over") only when     *)
(* another read request really waits for the reader: the stream is never    *)
(* left without a reader on the word of a count.                            *)
HandOver ==
    \A r \in Request :
       At(r, "finish") =>
          \E s \in Request : At(s, "acquire") /\ kind[s] = "read" /\ tun[s] = tun[r]

(* No connection to guacd is lost: one that is open is registered, so that  *)
(* the time-out task will find it, or a request is about to register it or  *)
(* to close it, through every failure of a request or of its client.        *)
NoLostTunnel ==
    \A t \in made \ closed :
       t \in tunnelMap \/ \E r \in Request : tun[r] = t /\ pc[r] \in {"put", "close"}

(* What is closed is not registered: requests that come later are rejected  *)
(* (server.go, deregisterTunnel).                                           *)
ClosedRejected == closed \cap tunnelMap = {}

(* tunnel_map.go 46: a tunnel nobody uses is gone after twice TunnelTimeout *)
(* at the latest.                                                           *)
ExpiresInTime == \A t \in tunnelMap : age[t] <= 2 * Timeout

(* Liveness: every tunnel is closed in the end, although a read request may *)
(* last as long as guacd has something to say.                              *)
TunnelsClose == \A t \in Tunnel : t \in made ~> t \in closed

(* Liveness: every request is answered or dropped; none waits for ever for  *)
(* the lock of a reader or a writer that failed.                            *)
RequestsEnd == \A r \in Request : ~At(r, "idle") ~> At(r, "done")
=============================================================================
