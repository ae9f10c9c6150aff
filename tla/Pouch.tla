------------------------------- MODULE Pouch -------------------------------
(***************************************************************************)
(* What the uplink promises the transport: a session carries one pouch, a  *)
(* sequence of buffers that only grows, and only until it is sealed.  The  *)
(* transport gets the buffers in order, and the session ends by itself     *)
(* only when the pouch is sealed and every buffer of it was sent.          *)
(***************************************************************************)
EXTENDS Naturals, Sequences

CONSTANT MayAbort  \* whether a session may be given up before its end

VARIABLES phase,  \* "none", "open", "sealed" or "ended"
          pouch,  \* the buffers of the session's pouch
          sent    \* those that were sent

pouchVars == <<phase, pouch, sent>>

Init == phase = "none" /\ pouch = <<>> /\ sent = <<>>

\* A pouch that was closed before its session began is sealed from the start.
Begin == /\ phase = "none"
         /\ phase' \in {"open", "sealed"}
         /\ pouch' = <<>> /\ sent' = <<>>

Commit == /\ phase = "open"
          /\ Len(pouch') = Len(pouch) + 1
          /\ SubSeq(pouch', 1, Len(pouch)) = pouch
          /\ UNCHANGED <<phase, sent>>

Seal == /\ phase = "open"
        /\ phase' = "sealed"
        /\ UNCHANGED <<pouch, sent>>

Send == /\ phase \in {"open", "sealed"}
        /\ Len(sent) < Len(pouch)
        /\ sent' = Append(sent, pouch[Len(sent) + 1])
        /\ UNCHANGED <<phase, pouch>>

End == /\ phase = "sealed"
       /\ sent = pouch
       /\ phase' = "ended"
       /\ UNCHANGED <<pouch, sent>>

\* The session is over; what was not sent is dropped.
Finish == /\ phase \in {"open", "sealed", "ended"}
          /\ phase # "ended" => MayAbort
          /\ phase' = "none"
          /\ pouch' = sent
          /\ UNCHANGED sent

Next == Begin \/ Commit \/ Seal \/ Send \/ End \/ Finish

Spec == Init /\ [][Next]_pouchVars
=============================================================================
