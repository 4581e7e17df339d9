---------------------------- MODULE MCMessageFlow ----------------------------
(* MessageFlow for TLC. *)
EXTENDS MessageFlow

\* A group whose members are named as SendGroup needs them: every node knows
\* itself by its SKALL ID and the others by their libp2p ID.
MCMembers == Name
==============================================================================
