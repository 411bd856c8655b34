-------------------------------- MODULE MCWire --------------------------------
(***************************************************************************)
(* Four types of extensions in packets of 48 bytes, and inputs for the     *)
(* algorithms of WireFormats; a behaviour has one or the other.            *)
(***************************************************************************)
EXTENDS WireFormats, RtpPackets

MCTypes == {"AudioLevel", "AbsoluteSendTime", "Mid", "VideoTiming"}

MapOf(mixed, audio, time, mid, timing) ==
  [mixed |-> mixed, ids |-> [type \in MCTypes |-> CASE type = "AudioLevel" -> audio
                                                    [] type = "AbsoluteSendTime" -> time
                                                    [] type = "Mid" -> mid
                                                    [] type = "VideoTiming" -> timing]]
FirstMap == MapOf(FALSE, 1, 2, 3, 4)
MCMaps == {FirstMap, MapOf(TRUE, 0, 2, 1, 15)}

Fixed(first) == <<first, 224>> \o [i \in 1 .. 10 |-> i]
MCWires ==
  { \* two extensions with a padding byte between them
    Fixed(144) \o <<190, 222, 0, 2, 16, 133, 0, 34, 1, 2, 3, 0>> \o <<11, 12>>,
    \* an id twice, and an id that ends the list
    Fixed(145) \o <<0, 0, 0, 9>> \o <<190, 222, 0, 2, 16, 133, 16, 5, 240, 1, 2, 3>>,
    \* a profile that is not known, and padding
    Fixed(176) \o <<18, 52, 0, 1, 16, 133, 0, 0>> \o <<11, 0, 0, 3>>,
    \* two-byte headers, one of an empty extension
    Fixed(144) \o <<16, 0, 0, 2, 1, 0, 2, 3, 1, 2, 3, 0>>,
    \* padding alone, of no length
    Fixed(160) \o <<0>> }

MCValues ==
  [type \in MCTypes |->
     CASE type = "AudioLevel" -> {[voice |-> TRUE, level |-> 5]}
       [] type = "AbsoluteSendTime" -> {66051, 66052}
       [] type = "Mid" -> {[i \in 1 .. n |-> 97] : n \in {2, 16, 17}}
       [] type = "VideoTiming" -> {[flags |-> 1, deltas |-> [i \in 1 .. 6 |-> 256 + i]]}]

Init == sample = NoSample /\ PacketInit
Next ==
  \/ sample = NoSample /\ PacketNext /\ UNCHANGED sample
  \/ packet = Cleared(FirstMap) /\ calls = 0 /\ Sampling /\ UNCHANGED packetVars
Spec == Init /\ [][Next]_<<sample, packetVars>>
=============================================================================
