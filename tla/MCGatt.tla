------------------------------- MODULE MCGatt -------------------------------
(* Instances of Gatt for TLC. *)
EXTENDS Gatt

\* Without a server certificate the serial is empty and the info is shorter.
MCSize == [c \in Values |->
              [v \in Versions |-> IF c = "device_cert" THEN 3
                                  ELSE IF c = "info" THEN IF v = 0 THEN 1 ELSE 2
                                  ELSE IF v = 0 THEN 0 ELSE 2]]
=============================================================================
