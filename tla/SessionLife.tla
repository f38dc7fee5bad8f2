---------------------------- MODULE SessionLife ----------------------------
(***************************************************************************)
(* What the gateway promises of a session, without connections, mutexes,   *)
(* stores or commands: it is opened by its host, users come and go while   *)
(* it is open and only then, it is closed once and for all, and with that  *)
(* its recording is handed over.  A restart of the gateway forgets the     *)
(* sessions that are open.                                                 *)
(***************************************************************************)
EXTENDS Naturals

CONSTANTS Session, User

VARIABLES
    life,      \* "none", "open" or "closed"
    present,   \* the users in a session
    recorded   \* how often its recording was handed over

vars == <<life, present, recorded>>

Init ==
    /\ life = [s \in Session |-> "none"]
    /\ present = [s \in Session |-> {}]
    /\ recorded = [s \in Session |-> 0]

Open(s, u) ==
    /\ life[s] = "none"
    /\ life' = [life EXCEPT ![s] = "open"]
    /\ present' = [present EXCEPT ![s] = {u}]
    /\ UNCHANGED recorded

Enter(s, u) ==
    /\ life[s] = "open"
    /\ present' = [present EXCEPT ![s] = @ \cup {u}]
    /\ UNCHANGED <<life, recorded>>

Go(s, G) ==
    /\ life[s] = "open"
    /\ present' = [present EXCEPT ![s] = @ \ G]
    /\ UNCHANGED <<life, recorded>>

Close(s) ==
    /\ life[s] = "open"
    /\ life' = [life EXCEPT ![s] = "closed"]
    /\ present' = [present EXCEPT ![s] = {}]
    /\ recorded' = [recorded EXCEPT ![s] = @ + 1]

Restart ==
    /\ life' = [s \in Session |-> IF life[s] = "open" THEN "none" ELSE life[s]]
    /\ present' = [s \in Session |-> {}]
    /\ UNCHANGED recorded

Next ==
    \/ \E s \in Session :
          \/ \E u \in User : Open(s, u) \/ Enter(s, u)
          \/ \E G \in SUBSET User : Go(s, G)
          \/ Close(s)
    \/ Restart

Spec == Init /\ [][Next]_vars
=============================================================================
