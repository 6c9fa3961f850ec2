-------------------------- MODULE MCChannelPublish --------------------------
(* Instances of ChannelPublish for TLC. *)
EXTENDS ChannelPublish, TLC

CONSTANTS w1, w2

Symmetry == Permutations({w1, w2})
=============================================================================
