---------------------------- MODULE MCListeners ----------------------------
(* Small instances of Listeners for TLC. *)
EXTENDS Listeners, TLC

CONSTANTS a1, a2, a3, a4

OneId    == {0}
TwoIds   == {0, 1}
ThreeIds == {-1, 0, 1}
AllPairs == Addrs \X Ids

(* Broker 0 moves between a3 and a4; broker 1 is at a4, too, and shares    *)
(* its port with broker 0; one reply does not know the id of a3.           *)
MovingBroker == {<<a1, -1>>, <<a2, 0>>, <<a3, -1>>, <<a3, 0>>, <<a4, 0>>, <<a4, 1>>}

(* a1 is a bootstrap server with a listener on port 1, advertised as 7.    *)
NothingStatic == [a \in Addrs |-> NoConfig]
Bootstrap     == [a \in Addrs |->
  IF a = a1 THEN [port |-> 1, id |-> UnknownBrokerID, advertised |-> 7] ELSE NoConfig]

(* The template of advertised addresses names no port, or a fixed one.     *)
HostOnly    == [id \in Ids |-> NoPort]
HostAndPort == [id \in Ids |-> 8]

(* Two server names, one of them for the bootstrap server.                 *)
NoSni    == [n \in {} |-> NoAddr]
TwoNames == [n \in {"x", "y"} |-> IF n = "x" THEN a1 ELSE a2]

(* The callers are interchangeable.                                        *)
CallerSymmetry == Permutations(Callers)
=============================================================================
