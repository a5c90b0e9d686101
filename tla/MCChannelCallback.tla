-------------------------- MODULE MCChannelCallback --------------------------
(* ChannelCallback with two receivers, for TLC. *)
EXTENDS ChannelCallback

CONSTANTS r1, r2

MCReceivers == {r1, r2}
=============================================================================
