----------------------------- MODULE MCWsServer -----------------------------
(***************************************************************************)
(* Instances of WsServer for TLC: who is behind each connection, and the   *)
(* symmetry that leaves.                                                   *)
(***************************************************************************)
EXTENDS WsServer, TLC

CONSTANTS u1, u2, u3, u4, c1, c2, c3

\* The host visits twice, a guest once.
HostTwice == (c1 :> u1) @@ (c2 :> u2) @@ (c3 :> u1)
HostTwiceSymmetry == Permutations({c1, c3})

\* A host visits once, a guest twice.
GuestTwice == (c1 :> u1) @@ (c2 :> u2) @@ (c3 :> u2)

\* The commands the connections send: all of them everything, or less; with a
\* guest who visits twice, the guest's commands come from one connection.
ShareOnly == [c \in Conn |-> {"share"}]
NoPermissions == [c \in Conn |-> {"share", "remove", "stop"}]
AllButSecondVisit ==
    [c \in Conn |-> IF c = c3 THEN {} ELSE {"share", "remove", "perm", "stop"}]

\* Every grant makes a co-host.
CoHosts == [u \in User |-> {{"admin"}}]

\* A guest is made co-host and the host viewer.
Inverted == [u \in User |-> IF u = u1 THEN {{"mouse"}} ELSE {{"admin"}}]
=============================================================================
