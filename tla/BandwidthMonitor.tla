-------------------------- MODULE BandwidthMonitor --------------------------
(***************************************************************************)
(* linux-tc-simulator/SinBandwidth: main goes along a sine curve, one      *)
(* column of a picture at a time, and the goroutine NetCat counts the bits *)
(* of the packets it captures.  Monitor, which main calls for every        *)
(* column, marks how many came since it last did, and starts over.  Both   *)
(* use upStreamDataSize under locker.  The calls of tc that would shape    *)
(* the traffic are commented out, all but the last.                        *)
(***************************************************************************)
EXTENDS Integers, Sequences

CONSTANTS
  Columns,       \* cycle * bandwidthReduce, 1200 columns
  Window,        \* the time after which Monitor marks a point, 4000 ms
  Sleeps,        \* times that a sleep of 300 ms takes
  PacketSizes,   \* bits of a captured packet
  Height,        \* the highest mark that is in the picture
  MaxCaptured    \* bound: packets captured

ASSUME MonitorAssumption ==
  /\ Columns \in Nat /\ Window \in Nat /\ Height \in Nat /\ MaxCaptured \in Nat
  /\ Sleeps \subseteq Nat \ {0} /\ PacketSizes \subseteq Nat

VARIABLES
  clock,               \* milliseconds, never 0
  locker,              \* who holds it: "free", "net" or "main"
  upStreamDataSize,
  preTime,             \* when the window began; 0 if none has
  netCat,              \* NetCat: its place in the code, the packet, and the value it read
  mainLoop,            \* main: its place in the code and its column
  points,              \* the marks: column, size, when the window began and ended,
                       \* and (history) the bits captured by then
  captured             \* history: the packets that were counted and their bits

monitorVars == <<clock, locker, upStreamDataSize, preTime, netCat, mainLoop, points, captured>>

MonitorInit ==
  /\ clock = 1 /\ locker = "free" /\ upStreamDataSize = 0 /\ preTime = 0
  /\ netCat = [at |-> "opening", size |-> 0, read |-> 0]
  /\ mainLoop = [at |-> "sleep", x |-> 0]
  /\ points = <<>> /\ captured = [packets |-> 0, bits |-> 0]

Running == mainLoop.at \notin {"saved", "dead"}

-----------------------------------------------------------------------------
(* The goroutine.                                                          *)

\* Without a device, an address or a handle, log.Fatal or panic end the whole
\* program, before the picture is saved.
OpenDevice ==
  /\ Running /\ netCat.at = "opening"
  /\ \/ netCat' = [netCat EXCEPT !.at = "capture"] /\ UNCHANGED mainLoop
     \/ netCat' = [netCat EXCEPT !.at = "gone"] /\ mainLoop' = [mainLoop EXCEPT !.at = "dead"]
  /\ UNCHANGED <<clock, locker, upStreamDataSize, preTime, points, captured>>

\* Mutant: the capture does not wait for the lock.
MutantNoLock(who) == UNCHANGED locker

Lock(who) == locker = "free" /\ locker' = who
Unlock == locker' = "free"

CapturePacket ==
  /\ Running /\ netCat.at = "capture" /\ captured.packets < MaxCaptured
  /\ \E size \in PacketSizes : netCat' = [netCat EXCEPT !.at = "locked", !.size = size]
  /\ Lock("net")
  /\ UNCHANGED <<clock, upStreamDataSize, preTime, mainLoop, points, captured>>

\* upStreamDataSize += size is a read and a write.
ReadSize ==
  /\ Running /\ netCat.at = "locked"
  /\ netCat' = [netCat EXCEPT !.at = "read", !.read = upStreamDataSize]
  /\ UNCHANGED <<clock, locker, upStreamDataSize, preTime, mainLoop, points, captured>>

WriteSize ==
  /\ Running /\ netCat.at = "read"
  /\ upStreamDataSize' = netCat.read + netCat.size
  /\ captured' = [packets |-> captured.packets + 1, bits |-> captured.bits + netCat.size]
  /\ netCat' = [netCat EXCEPT !.at = "capture"]
  /\ Unlock
  /\ UNCHANGED <<clock, preTime, mainLoop, points>>

-----------------------------------------------------------------------------
(* main.                                                                   *)

\* A column: the sleep, and the point of the curve.
NextColumn ==
  /\ mainLoop.at = "sleep" /\ mainLoop.x < Columns
  /\ \E t \in Sleeps : clock' = clock + t
  /\ mainLoop' = [mainLoop EXCEPT !.at = "monitor"]
  /\ UNCHANGED <<locker, upStreamDataSize, preTime, netCat, points, captured>>

\* Monitor takes the lock; now was read before.
EnterMonitor ==
  /\ mainLoop.at = "monitor"
  /\ Lock("main")
  /\ mainLoop' = [mainLoop EXCEPT !.at = "marking"]
  /\ UNCHANGED <<clock, upStreamDataSize, preTime, netCat, points, captured>>

Due == preTime # 0 /\ clock - preTime > Window

\* The mark is not seen if it lies outside the picture.
MarkPoint ==
  /\ mainLoop.at = "marking"
  /\ points' = IF Due THEN Append(points, [x |-> mainLoop.x, size |-> upStreamDataSize,
                                           from |-> preTime, to |-> clock,
                                           seen |-> upStreamDataSize <= Height,
                                           before |-> captured.bits])
               ELSE points
  /\ mainLoop' = [mainLoop EXCEPT !.at = "resetting"]
  /\ UNCHANGED <<clock, locker, upStreamDataSize, preTime, netCat, captured>>

\* A window begins with the first call after the last one ended.
LeaveMonitor ==
  /\ mainLoop.at = "resetting"
  /\ upStreamDataSize' = IF Due THEN 0 ELSE upStreamDataSize
  /\ preTime' = IF preTime = 0 THEN clock ELSE IF Due THEN 0 ELSE preTime
  /\ mainLoop' = [at |-> "sleep", x |-> mainLoop.x + 1]
  /\ Unlock
  /\ UNCHANGED <<clock, netCat, points, captured>>

\* The picture is written and the program ends, or it cannot be created.
SavePicture ==
  /\ mainLoop.at = "sleep" /\ mainLoop.x = Columns
  /\ \E end \in {"saved", "dead"} : mainLoop' = [mainLoop EXCEPT !.at = end]
  /\ UNCHANGED <<clock, locker, upStreamDataSize, preTime, netCat, points, captured>>

MonitorNext ==
  \/ OpenDevice \/ CapturePacket \/ ReadSize \/ WriteSize
  \/ NextColumn \/ EnterMonitor \/ MarkPoint \/ LeaveMonitor \/ SavePicture

MonitorSpec == MonitorInit /\ [][MonitorNext]_monitorVars

-----------------------------------------------------------------------------
\* The bits captured before mark i, and before the last mark.
BitsBefore(i) == IF i = 0 THEN 0 ELSE points[i].before
Marked == BitsBefore(Len(points))

\* Every packet is in exactly one mark or still counted, also when it comes
\* while Monitor marks and resets: a mark has what was captured since the one
\* before it.  A mark stands for more than Window milliseconds, the windows
\* follow one another without overlapping, and no column has two marks.
\* (netCat.go:147 says one second; the rate is divided by four, and packets
\* between two windows are in the later one.)
MonitorExact ==
  /\ mainLoop.at # "resetting" => upStreamDataSize = captured.bits - Marked
  /\ \A i \in DOMAIN points : points[i].size = points[i].before - BitsBefore(i - 1)
  /\ \A i \in DOMAIN points : points[i].to - points[i].from > Window
  /\ \A i, j \in DOMAIN points : i < j => points[i].to < points[j].from /\ points[i].x < points[j].x
=============================================================================
