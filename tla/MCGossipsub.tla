---------------------------- MODULE MCGossipsub ----------------------------
(* Gossipsub on two topics, one of them with a validator, for TLC. *)
EXTENDS Gossipsub

CONSTANTS checkedTopic, plainTopic
=============================================================================
