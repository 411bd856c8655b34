-------------------------- MODULE MCFlexfecTransport --------------------------
(***************************************************************************)
(* FEC groups of a few packets, about the wrap-around of the numbers; and, *)
(* in a mode in which nothing is sent, the buffers that packets are kept   *)
(* in and the statistics of the rate of FEC.                               *)
(***************************************************************************)
EXTENDS FlexfecTransport, CopyOnWriteBuffer, RateStatistics

\* A high rate, that makes MinMediaPackets count, and a low one over two frames.
ParamsOf ==
  {[rate |-> 170, frames |-> 2, maskType |-> "random"],
   [rate |-> 80, frames |-> 3, maskType |-> "bursty"]}

\* The media numbers wrap around, and with RED the FEC numbers among them.
StartsOf == {[media |-> 30, fec |-> 20]}

Mode(red, oneSsrc, rtc85, eager, whole, maxIds) ==
  [red |-> red, oneSsrc |-> oneSsrc, rtc85 |-> rtc85, eager |-> eager, whole |-> whole,
   maxIds |-> maxIds, maxCopies |-> IF maxIds > 4 THEN 0 ELSE 1, anew |-> 2]

Idle == Mode(FALSE, TRUE, FALSE, FALSE, FALSE, 0)

\* FlexFEC over one SSRC, ULPFEC over RED; of M85 the decoder alone over two
\* SSRCs, and the receivers of both kinds.
Callers == {Idle, Mode(FALSE, TRUE, FALSE, FALSE, FALSE, 5), Mode(FALSE, TRUE, FALSE, FALSE, FALSE, 4),
            Mode(TRUE, TRUE, FALSE, FALSE, FALSE, 3), Mode(FALSE, FALSE, TRUE, TRUE, FALSE, 4),
            Mode(FALSE, FALSE, TRUE, TRUE, TRUE, 3), Mode(TRUE, TRUE, TRUE, FALSE, TRUE, 2)}

\* test.cpp, and the receiver of M85.
Driver == {Mode(FALSE, TRUE, FALSE, TRUE, FALSE, 4)}
Receiver85 == {Mode(FALSE, FALSE, TRUE, TRUE, TRUE, 4)}

ChunksOf == {<<>>, <<1, 2>>}

MCInit == Init /\ (mode = Idle => gen.min = 1) /\ BufferInit /\ RateInit
MCNext ==
  \/ Next /\ UNCHANGED <<bufferVars, rateVars>>
  \/ mode = Idle /\ samples = <<>> /\ stats = Reset /\ BufferNext /\ UNCHANGED <<vars, rateVars>>
  \/ mode = Idle /\ uses = 0 /\ RateNext /\ UNCHANGED <<vars, bufferVars>>
MCSpec == MCInit /\ [][MCNext]_<<vars, bufferVars, rateVars>>
=============================================================================
