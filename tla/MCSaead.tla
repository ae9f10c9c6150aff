------------------------------ MODULE MCSaead ------------------------------
(* Instances of Saead for TLC. *)
EXTENDS Saead

Server(t, v) == [initiator |-> "server", type |-> t, value |-> v]
\* Two sequential sessions and a random one of the server, with other algorithms and
\* block sizes, and headers of a server that answers in a session of the device.
MCHeaders ==
    {[sid |-> Server("sequential", 1), alg |-> "GCM", log |-> 9, pouch |-> 1],
     [sid |-> Server("sequential", 2), alg |-> "GCM", log |-> 9, pouch |-> 0],
     [sid |-> Server("random", 1), alg |-> "GCM", log |-> 9, pouch |-> 0],
     [sid |-> Server("random", 1), alg |-> "GCM", log |-> 9, pouch |-> 1],
     [sid |-> Server("random", 1), alg |-> "CHACHA20_POLY1305", log |-> 9, pouch |-> 1],
     [sid |-> Server("random", 1), alg |-> "GCM", log |-> 8, pouch |-> 1],
     [sid |-> [initiator |-> "device", type |-> "sequential", value |-> 1],
      alg |-> "GCM", log |-> 9, pouch |-> 1],
     [sid |-> [initiator |-> "device", type |-> "random", value |-> 1],
      alg |-> "GCM", log |-> 9, pouch |-> 1]}
=============================================================================
