-------------------------- MODULE MCChannelControl --------------------------
(***************************************************************************)
(* Instances of ChannelControl for TLC: connections of two users to one    *)
(* application.                                                            *)
(***************************************************************************)
EXTENDS ChannelControl, TLC

CONSTANTS c1, c2, ann, bob, desktop

TwoUsers == (c1 :> ann) @@ (c2 :> bob)
TwoApps == (c1 :> desktop) @@ (c2 :> desktop)
=============================================================================
