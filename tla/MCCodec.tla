------------------------------- MODULE MCCodec -------------------------------
(***************************************************************************)
(* The three codes of the repository over GF(8), each with the longest     *)
(* codewords that this field has or with several groups; a behaviour uses  *)
(* one of them.                                                            *)
(***************************************************************************)
EXTENDS VandermondeCodec, ReedSolomon, FecLib

\* A codeword of full length, and a shortened one.
MCMessages == {<<{1}, {0, 2}, {0, 1, 2}>>, <<{0}>>}

\* One group, and two.
OneGroup == <<{0}, {1, 2}, {0, 2}>>
TwoGroups == OneGroup \o <<{0, 1, 2}, {1}, {0, 1}>>

NoLib == sender.i = 0 /\ network = {}

CodecInit == Init /\ codeword = NoCodeword /\ LibInit

CodecNext ==
  \/ codeword = NoCodeword /\ NoLib /\ Next /\ UNCHANGED <<codeword, libVars>>
  \/ phase = "none" /\ NoLib /\ ReedSolomonNext /\ UNCHANGED <<codecVars, libVars>>
  \/ phase = "none" /\ codeword = NoCodeword /\ LibNext /\ UNCHANGED <<codecVars, codeword>>

CodecSpec == CodecInit /\ [][CodecNext]_<<codecVars, codeword, libVars>> /\ WF_codecVars(Decoding)
=============================================================================
