------------------------------- MODULE MCDht -------------------------------
(* Dht for TLC: two nodes that know each other only through a third one; they *)
(* are interchangeable.                                                       *)
EXTENDS Dht, TLC

CONSTANTS hub, a, b

Star == {{hub, a}, {hub, b}}

Leaves == Permutations({a, b})
=============================================================================
