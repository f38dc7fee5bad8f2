---------------------------- MODULE MCRoomWrites ----------------------------
(***************************************************************************)
(* Instances of RoomWrites for TLC: a host with a guest, and with two.     *)
(***************************************************************************)
EXTENDS RoomWrites, TLC

CONSTANTS h, g1, g2

\* The host sends every command; everything befalls it, and its guest, for
\* whom guacd draws nothing (with that it takes twice as long).
Commands == (h :> {"share", "perm", "remove", "stop"}) @@ (g1 :> {})
Anything == (h :> Events) @@ (g1 :> {"stall", "go", "end"})

\* The host sends stop-share.  One guest is watching, the other one joins;
\* both leave, and either stops reading.
Stops == (h :> {"stop"}) @@ (g1 :> {}) @@ (g2 :> {})
Guests == (h :> {}) @@ (g1 :> {"stall", "end"}) @@ (g2 :> {"draw", "stall", "end"})
=============================================================================
