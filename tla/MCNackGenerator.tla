--------------------------- MODULE MCNackGenerator ---------------------------
(***************************************************************************)
(* NackGenerator on a number space of 8: MaxNackPackets < MaxPacketAge <   *)
(* half of it, as in the code, and two to four requests for a loss.  The   *)
(* generator is either alone, called with any packets and any round trip   *)
(* time, or its transport measures that time.                              *)
(***************************************************************************)
EXTENDS NackTransport

VARIABLE alone

transportVars == <<senderVars, probeVars, count_timer, net, faults, expired, got>>

MCInit == TransportInit /\ alone \in BOOLEAN
MCNext ==
  /\ UNCHANGED alone
  /\ \/ alone /\ Next /\ UNCHANGED transportVars
     \/ ~alone /\ TransportNext
MCSpec == MCInit /\ [][MCNext]_<<vars, alone>>
MCFairSpec == MCSpec /\ WF_genVars(Elapse) /\ WF_genVars(GetNackBatch(rtt) /\ UNCHANGED rtt)
=============================================================================
