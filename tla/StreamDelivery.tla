---------------------------- MODULE StreamDelivery ----------------------------
(***************************************************************************)
(* What the NACK demo promises about each packet of the stream, without    *)
(* sequence numbers, timers, requests or a network: a packet is sent once, *)
(* may be found missing when a later one arrives, and ends up received or  *)
(* dropped.  A packet that was received is never missing again, a packet   *)
(* that was dropped is never looked for again, and only the arrival of a   *)
(* newer packet makes a packet missing.                                    *)
(***************************************************************************)
EXTENDS Integers

CONSTANT Packets   \* the numbers of the packets, an interval

VARIABLE status    \* what has become of each packet

Statuses == {"unsent", "sent", "missing", "got", "dropped"}

Init == status = [n \in Packets |-> "unsent"]

\* Packets are sent in order.
Send(n) ==
  /\ status[n] = "unsent"
  /\ \A k \in Packets : k < n => status[k] # "unsent"
  /\ status' = [status EXCEPT ![n] = "sent"]

\* A packet older than one received arrives, late or sent again.
ArriveOld(n) ==
  /\ status[n] \in {"missing", "dropped"}
  /\ status' = [status EXCEPT ![n] = "got"]

\* A packet newer than all received arrives: of those it overtakes, the ones
\* found missing before are still missing or dropped, the others become so.
ArriveNew(n) ==
  /\ status[n] = "sent"
  /\ status' \in [Packets -> Statuses]
  /\ status'[n] = "got"
  /\ \A k \in Packets \ {n} :
       IF k < n /\ status[k] \in {"sent", "missing"}
         THEN status'[k] \in {"missing", "dropped"}
         ELSE status'[k] = status[k]

\* The receiver has asked often enough.
GiveUp ==
  /\ status' \in [Packets -> Statuses]
  /\ \A k \in Packets :
       \/ status'[k] = status[k]
       \/ status[k] = "missing" /\ status'[k] = "dropped"

Next == (\E n \in Packets : Send(n) \/ ArriveOld(n) \/ ArriveNew(n)) \/ GiveUp

Spec == Init /\ [][Next]_status
=============================================================================
