--------------------------- MODULE MCFecTransport ---------------------------
(***************************************************************************)
(* FECGenerator between two ends, with two raw and two redundant blocks in *)
(* a group; in other behaviours the transport that uses it, and in others  *)
(* the monitor of the bandwidth that such tests run under.                 *)
(***************************************************************************)
EXTENDS FecTransport, BandwidthMonitor

\* The streams of the run are those that StreamAccounted is proved of.
ASSUME ShortAssumption == ShortStreams

VARIABLE part    \* what is checked in a behaviour

MCInit ==
  /\ part \in {"generator", "transport", "monitor"}
  /\ MonitorInit
  /\ delivered = EmptyBag /\ net = <<>> /\ faults = 0
  /\ IF part # "transport"
       THEN /\ Init
            /\ firstGroup = 0 /\ decoder = dec /\ wire = {} /\ given = {} /\ abandoned = {}
            /\ nack = [started |-> FALSE, lastSeq |-> 0, list |-> <<>>]
       ELSE /\ TransportInit
            /\ inOrder = FALSE
            /\ dec = [group |-> 0, marks |-> {}, count |-> 0, raw |-> 0, input |-> [j \in Indices |-> Garbage]]

MCNext ==
  \/ /\ part = "generator" /\ Next
     /\ UNCHANGED <<part, transportVars, monitorVars>>
  \/ /\ part = "transport" /\ TransportNext
     /\ UNCHANGED <<part, dec, delivered, net, faults, inOrder, monitorVars>>
  \/ /\ part = "monitor" /\ MonitorNext
     /\ UNCHANGED <<part, vars, transportVars>>

MCSpec == MCInit /\ [][MCNext]_<<part, vars, transportVars, monitorVars>>
=============================================================================
