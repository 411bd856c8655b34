----------------------- MODULE BandwidthMonitorProofs -----------------------
(***************************************************************************)
(* The marks of BandwidthMonitor are exact, for every number of columns,   *)
(* every window and every schedule of main and NetCat: locker makes the    *)
(* read and the write of a count, and the mark and the reset, one step     *)
(* each for the other side.                                                *)
(***************************************************************************)
EXTENDS BandwidthMonitor, TLAPS

Point == [x : Nat, size : Nat, from : Nat, to : Nat, seen : BOOLEAN, before : Nat]
InMonitor == {"marking", "resetting"}

\* Types of the monitor's state.
MonitorTypeOK ==
  /\ clock \in Nat \ {0}
  /\ locker \in {"free", "net", "main"}
  /\ upStreamDataSize \in Nat
  /\ preTime \in Nat
  /\ netCat \in [at : {"opening", "capture", "gone", "locked", "read"}, size : Nat, read : Nat]
  /\ mainLoop \in [at : {"sleep", "monitor", "marking", "resetting", "saved", "dead"}, x : Nat]
  /\ points \in Seq(Point)
  /\ captured \in [packets : Nat, bits : Nat]

\* Who is between Lock and Unlock holds the lock.  (Not conversely: log.Fatal
\* in NetCat ends main wherever it is.)
LockHeld ==
  /\ netCat.at \in {"locked", "read"} => locker = "net"
  /\ mainLoop.at \in InMonitor => locker = "main"

\* What NetCat read is still there when it writes; nothing is counted before
\* the device is open.
CountKept ==
  /\ netCat.at = "read" => netCat.read = upStreamDataSize
  /\ netCat.at \in {"opening", "gone"} => captured.bits = 0 /\ upStreamDataSize = 0

\* A mark is set and the count is not yet reset.
JustMarked == mainLoop.at = "resetting" /\ Due

\* The count is what was captured since the last mark, and while a mark waits
\* for the reset, what that mark has.
CountExact ==
  IF JustMarked
    THEN /\ Len(points) > 0 /\ Marked = captured.bits
         /\ upStreamDataSize = points[Len(points)].size
    ELSE upStreamDataSize = captured.bits - Marked

\* The last mark is behind the window that is open, and behind the column at
\* which main is.
LastMark ==
  Len(points) > 0 /\ mainLoop.at \notin {"saved", "dead"} =>
    LET last == points[Len(points)]
    IN  IF JustMarked THEN last.to = clock /\ last.x = mainLoop.x
        ELSE /\ last.x < mainLoop.x
             /\ preTime # 0 => last.to < preTime
             /\ last.to <= clock
             /\ mainLoop.at # "sleep" => last.to < clock

\* The part of MonitorExact that is about the marks alone.
MarksExact ==
  /\ \A i \in DOMAIN points : points[i].size = points[i].before - BitsBefore(i - 1)
  /\ \A i \in DOMAIN points : points[i].to - points[i].from > Window
  /\ \A i, j \in DOMAIN points : i < j => points[i].to < points[j].from /\ points[i].x < points[j].x

MonitorIInv ==
  /\ MonitorTypeOK /\ LockHeld /\ CountKept /\ CountExact /\ LastMark /\ MarksExact
  /\ preTime <= clock

-----------------------------------------------------------------------------
(* The steps of NetCat and main.                                           *)

\* A program that starts satisfies the invariant.
LEMMA MonitorInitIInv == MonitorInit => MonitorIInv
  BY DEF MonitorInit, MonitorIInv, MonitorTypeOK, LockHeld, InMonitor, CountKept,
         CountExact, LastMark, MarksExact, JustMarked, Marked, BitsBefore, Point

\* A step that leaves the marks alone leaves what is said of them alone.
LEMMA SameMarks ==
  ASSUME UNCHANGED points
  PROVE  MarksExact <=> MarksExact'
  BY DEF MarksExact, BitsBefore

\* The marks are points, and the bits before the last one a number.
LEMMA MarkTypes ==
  ASSUME MonitorTypeOK
  PROVE  /\ Len(points) \in Nat
         /\ \A i \in DOMAIN points :
              /\ points[i].x \in Nat /\ points[i].size \in Nat /\ points[i].from \in Nat
              /\ points[i].to \in Nat /\ points[i].before \in Nat
         /\ Len(points) > 0 => Len(points) \in DOMAIN points
         /\ Marked \in Nat
<1>1. Len(points) \in Nat /\ DOMAIN points = 1 .. Len(points)
  BY DEF MonitorTypeOK
<1>2. \A i \in DOMAIN points : points[i] \in Point
  BY DEF MonitorTypeOK
<1>3. Len(points) > 0 => Len(points) \in DOMAIN points
  BY <1>1
<1> QED
  BY <1>1, <1>2, <1>3 DEF Point, Marked, BitsBefore

\* Opening the device: the program goes on, or ends where it is, and then
\* nothing was captured.
LEMMA OpenDeviceIInv == ASSUME MonitorIInv, OpenDevice PROVE MonitorIInv'
<1>1. MonitorTypeOK'
  BY DEF MonitorIInv, MonitorTypeOK, OpenDevice
<1>2. LockHeld' /\ CountKept'
  BY DEF MonitorIInv, MonitorTypeOK, OpenDevice, LockHeld, InMonitor, CountKept
<1>3. CountExact'
  BY DEF MonitorIInv, MonitorTypeOK, OpenDevice, CountExact, CountKept, JustMarked, Marked,
         BitsBefore, Due
<1>4. LastMark'
  BY DEF MonitorIInv, MonitorTypeOK, OpenDevice, LastMark, JustMarked, Due
<1> QED
  BY <1>1, <1>2, <1>3, <1>4, SameMarks DEF MonitorIInv, OpenDevice

\* A packet is captured under the lock.
LEMMA CapturePacketIInv == ASSUME MonitorIInv, CapturePacket PROVE MonitorIInv'
<1>1. MonitorTypeOK'
  BY MonitorAssumption DEF MonitorIInv, MonitorTypeOK, CapturePacket, Lock
<1>2. LockHeld' /\ CountKept'
  BY DEF MonitorIInv, MonitorTypeOK, CapturePacket, Lock, LockHeld, InMonitor, CountKept
<1>3. CountExact' /\ LastMark'
  BY DEF MonitorIInv, CapturePacket, CountExact, LastMark, JustMarked, Marked, BitsBefore, Due
<1> QED
  BY <1>1, <1>2, <1>3, SameMarks DEF MonitorIInv, CapturePacket

\* The count is read.
LEMMA ReadSizeIInv == ASSUME MonitorIInv, ReadSize PROVE MonitorIInv'
<1>1. MonitorTypeOK'
  BY DEF MonitorIInv, MonitorTypeOK, ReadSize
<1>2. LockHeld' /\ CountKept'
  BY DEF MonitorIInv, MonitorTypeOK, ReadSize, LockHeld, InMonitor, CountKept
<1>3. CountExact' /\ LastMark'
  BY DEF MonitorIInv, ReadSize, CountExact, LastMark, JustMarked, Marked, BitsBefore, Due
<1> QED
  BY <1>1, <1>2, <1>3, SameMarks DEF MonitorIInv, ReadSize

\* The count is written: NetCat holds the lock, so that main is not in Monitor
\* and the count is the one that was read.
LEMMA WriteSizeIInv == ASSUME MonitorIInv, WriteSize PROVE MonitorIInv'
<1>1. MonitorTypeOK'
  <2>1. /\ netCat.read + netCat.size \in Nat
        /\ captured.packets + 1 \in Nat /\ captured.bits + netCat.size \in Nat
    BY DEF MonitorIInv, MonitorTypeOK
  <2> QED
    BY <2>1 DEF MonitorIInv, MonitorTypeOK, WriteSize, Unlock
<1>2. mainLoop.at \notin InMonitor
  BY DEF MonitorIInv, MonitorTypeOK, WriteSize, LockHeld
<1>3. LockHeld' /\ CountKept'
  BY <1>2 DEF MonitorIInv, MonitorTypeOK, WriteSize, Unlock, LockHeld, CountKept
<1>4. CountExact'
  <2>1. ~JustMarked /\ ~JustMarked' /\ Marked' = Marked
    BY <1>2 DEF WriteSize, JustMarked, InMonitor, Marked, BitsBefore
  <2>2. Marked \in Nat
    BY MarkTypes DEF MonitorIInv
  <2> QED
    BY <2>1, <2>2 DEF MonitorIInv, MonitorTypeOK, WriteSize, CountExact, CountKept
<1>5. LastMark'
  BY DEF MonitorIInv, WriteSize, LastMark, JustMarked, Due
<1> QED
  BY <1>1, <1>3, <1>4, <1>5, SameMarks DEF MonitorIInv, WriteSize

\* main sleeps: the clock moves on.
LEMMA NextColumnIInv == ASSUME MonitorIInv, NextColumn PROVE MonitorIInv'
<1>1. PICK t \in Nat \ {0} : clock' = clock + t
  BY MonitorAssumption DEF NextColumn
<1>2. MonitorTypeOK' /\ preTime' <= clock'
  BY <1>1 DEF MonitorIInv, MonitorTypeOK, NextColumn
<1>3. LockHeld' /\ CountKept'
  BY DEF MonitorIInv, MonitorTypeOK, NextColumn, LockHeld, InMonitor, CountKept
<1>4. ~JustMarked /\ ~JustMarked'
  BY DEF MonitorIInv, MonitorTypeOK, NextColumn, JustMarked
<1>5. CountExact'
  BY <1>4 DEF MonitorIInv, NextColumn, CountExact, Marked, BitsBefore
<1>6. LastMark'
  BY <1>1, <1>4, MarkTypes DEF MonitorIInv, MonitorTypeOK, NextColumn, LastMark
<1> QED
  BY <1>2, <1>3, <1>5, <1>6, SameMarks DEF MonitorIInv, NextColumn

\* main enters Monitor.
LEMMA EnterMonitorIInv == ASSUME MonitorIInv, EnterMonitor PROVE MonitorIInv'
<1>1. MonitorTypeOK'
  BY DEF MonitorIInv, MonitorTypeOK, EnterMonitor, Lock
<1>2. LockHeld' /\ CountKept'
  BY DEF MonitorIInv, MonitorTypeOK, EnterMonitor, Lock, LockHeld, CountKept
<1>3. ~JustMarked /\ ~JustMarked'
  BY DEF MonitorIInv, MonitorTypeOK, EnterMonitor, JustMarked
<1>4. CountExact'
  BY <1>3 DEF MonitorIInv, EnterMonitor, CountExact, Marked, BitsBefore
<1>5. LastMark'
  BY <1>3 DEF MonitorIInv, MonitorTypeOK, EnterMonitor, LastMark
<1> QED
  BY <1>1, <1>2, <1>4, <1>5, SameMarks DEF MonitorIInv, EnterMonitor

\* A mark is set: it has what was captured since the one before, and its window
\* begins after that one ended.
LEMMA MarkPointIInv == ASSUME MonitorIInv, MarkPoint PROVE MonitorIInv'
<1> DEFINE n == Len(points)
           p == [x |-> mainLoop.x, size |-> upStreamDataSize, from |-> preTime, to |-> clock,
                 seen |-> upStreamDataSize <= Height, before |-> captured.bits]
<1>1. /\ MonitorTypeOK /\ n \in Nat /\ p \in Point
      /\ ~JustMarked /\ (JustMarked' <=> Due) /\ mainLoop.x' = mainLoop.x
  BY MonitorAssumption DEF MonitorIInv, MonitorTypeOK, MarkPoint, JustMarked, Due, Point
<1>2. LockHeld' /\ CountKept'
  BY DEF MonitorIInv, MonitorTypeOK, MarkPoint, LockHeld, InMonitor, CountKept
<1>3. CASE ~Due
  <2>1. points' = points
    BY <1>3 DEF MarkPoint
  <2>2. MonitorTypeOK'
    BY <2>1 DEF MonitorIInv, MonitorTypeOK, MarkPoint
  <2>3. CountExact' /\ LastMark'
    BY <1>1, <1>3, <2>1
    DEF MonitorIInv, MonitorTypeOK, MarkPoint, CountExact, LastMark, Marked, BitsBefore
  <2> QED
    BY <1>2, <2>1, <2>2, <2>3, SameMarks DEF MonitorIInv, MarkPoint
<1>4. CASE Due
  <2>1. points' = Append(points, p)
    BY <1>4 DEF MarkPoint
  <2>2. /\ points' \in Seq(Point) /\ Len(points') = n + 1 /\ points'[n + 1] = p
        /\ \A i \in 1 .. n : points'[i] = points[i]
    BY <1>1, <2>1 DEF MonitorTypeOK
  <2>3. MonitorTypeOK'
    BY <2>2 DEF MonitorIInv, MonitorTypeOK, MarkPoint
  <2>4. CountExact' /\ LastMark'
    BY <1>1, <1>4, <2>2
    DEF MonitorIInv, MonitorTypeOK, MarkPoint, CountExact, LastMark, Marked, BitsBefore
  <2>5. upStreamDataSize = captured.bits - BitsBefore(n)
    BY <1>1 DEF MonitorIInv, CountExact, Marked
  <2>6. n > 0 => points[n].to < preTime /\ points[n].x < mainLoop.x
    BY <1>1, <1>4 DEF MonitorIInv, MarkPoint, LastMark, Due
  <2>7. clock - preTime > Window
    BY <1>4 DEF Due
  <2>8. DOMAIN points = 1 .. n /\ DOMAIN points' = 1 .. n + 1
    BY <1>1, <2>2 DEF MonitorTypeOK
  <2> HIDE DEF n
  <2>9. \A i \in 1 .. n + 1 : BitsBefore(i - 1)' = BitsBefore(i - 1)
    BY <1>1, <2>2 DEF BitsBefore
  <2>10. ASSUME NEW i \in 1 .. n + 1
         PROVE  /\ points'[i].size = points'[i].before - BitsBefore(i - 1)'
                /\ points'[i].to - points'[i].from > Window
    <3>1. CASE i = n + 1
      <4>1. i - 1 = n
        BY <1>1, <3>1
      <4> QED
        BY <2>2, <2>5, <2>7, <2>9, <3>1, <4>1
    <3>2. CASE i # n + 1
      <4>1. i \in 1 .. n
        BY <1>1, <3>2
      <4> QED
        BY <2>2, <2>8, <2>9, <4>1 DEF MonitorIInv, MarksExact
    <3> QED
      BY <3>1, <3>2
  <2>11. ASSUME NEW i \in 1 .. n + 1, NEW j \in 1 .. n + 1, i < j
         PROVE  points'[i].to < points'[j].from /\ points'[i].x < points'[j].x
    <3>1. i \in 1 .. n
      BY <1>1, <2>11
    <3>2. CASE j # n + 1
      <4>1. j \in 1 .. n
        BY <1>1, <3>2
      <4> QED
        BY <2>2, <2>8, <2>11, <3>1, <4>1 DEF MonitorIInv, MarksExact
    <3>3. CASE j = n + 1
      <4>1. i = n \/ (points[i].to < points[n].from /\ points[i].x < points[n].x)
        BY <1>1, <2>8, <3>1 DEF MonitorIInv, MarksExact
      <4>2. points[n].to - points[n].from > Window
        BY <1>1, <2>8, <3>1 DEF MonitorIInv, MarksExact
      <4>3. n \in 1 .. n /\ n > 0
        BY <1>1, <3>1
      <4>4. /\ points[i].to \in Nat /\ points[i].x \in Nat /\ points[n].to \in Nat
            /\ points[n].from \in Nat /\ points[n].x \in Nat /\ preTime \in Nat
            /\ mainLoop.x \in Nat
        BY <1>1, <2>8, <3>1, <4>3, MarkTypes DEF MonitorTypeOK
      <4>5. points'[i] = points[i] /\ points'[j].from = preTime /\ points'[j].x = mainLoop.x
        BY <2>2, <3>1, <3>3
      <4> QED
        BY <2>6, <4>1, <4>2, <4>3, <4>4, <4>5, MonitorAssumption
    <3> QED
      BY <3>2, <3>3
  <2> QED
    BY <1>2, <2>3, <2>4, <2>8, <2>10, <2>11 DEF MonitorIInv, MarkPoint, MarksExact
<1> QED
  BY <1>3, <1>4

\* main leaves Monitor: the count starts over if a mark was set.
LEMMA LeaveMonitorIInv == ASSUME MonitorIInv, LeaveMonitor PROVE MonitorIInv'
<1>1. MonitorTypeOK'
  BY DEF MonitorIInv, MonitorTypeOK, LeaveMonitor, Unlock
<1>2. netCat.at \notin {"locked", "read"}
  BY DEF MonitorIInv, MonitorTypeOK, LeaveMonitor, LockHeld, InMonitor
<1>3. LockHeld' /\ CountKept'
  BY <1>2 DEF MonitorIInv, MonitorTypeOK, LeaveMonitor, Unlock, LockHeld, InMonitor, CountKept
<1>4. ~JustMarked' /\ (JustMarked <=> Due) /\ mainLoop'.at = "sleep" /\ mainLoop'.x = mainLoop.x + 1
  BY DEF LeaveMonitor, JustMarked
<1>5. CountExact'
  <2>1. Marked' = Marked /\ Marked \in Nat
    BY MarkTypes DEF MonitorIInv, LeaveMonitor, Marked, BitsBefore
  <2> QED
    BY <1>4, <2>1 DEF MonitorIInv, MonitorTypeOK, LeaveMonitor, CountExact
<1>6. LastMark'
  <2>1. preTime = 0 => ~Due
    BY DEF Due
  <2>2. Len(points) \in Nat /\ (Len(points) > 0 => points[Len(points)].to \in Nat /\ points[Len(points)].x \in Nat)
    BY MarkTypes DEF MonitorIInv
  <2>3. points' = points /\ clock' = clock /\ mainLoop.at = "resetting" /\ mainLoop.x \in Nat
    BY DEF LeaveMonitor, MonitorIInv, MonitorTypeOK
  <2> QED
    BY <1>4, <2>1, <2>2, <2>3 DEF MonitorIInv, MonitorTypeOK, LeaveMonitor, LastMark
<1> QED
  BY <1>1, <1>3, <1>5, <1>6, SameMarks DEF MonitorIInv, MonitorTypeOK, LeaveMonitor

\* The program ends.
LEMMA SavePictureIInv == ASSUME MonitorIInv, SavePicture PROVE MonitorIInv'
<1>1. MonitorTypeOK'
  BY DEF MonitorIInv, MonitorTypeOK, SavePicture
<1>2. LockHeld' /\ CountKept'
  BY DEF MonitorIInv, MonitorTypeOK, SavePicture, LockHeld, InMonitor, CountKept
<1>3. CountExact' /\ LastMark'
  BY DEF MonitorIInv, MonitorTypeOK, SavePicture, CountExact, LastMark, JustMarked, Marked, BitsBefore
<1> QED
  BY <1>1, <1>2, <1>3, SameMarks DEF MonitorIInv, SavePicture

\* Every step of the two threads keeps the invariant.
LEMMA MonitorStepIInv == MonitorIInv /\ [MonitorNext]_monitorVars => MonitorIInv'
<1>1. CASE UNCHANGED monitorVars
  BY <1>1, SameMarks
  DEF monitorVars, MonitorIInv, MonitorTypeOK, LockHeld, CountKept, CountExact, LastMark,
      JustMarked, Marked, BitsBefore, Due
<1> QED
  BY <1>1, OpenDeviceIInv, CapturePacketIInv, ReadSizeIInv, WriteSizeIInv, NextColumnIInv,
     EnterMonitorIInv, MarkPointIInv, LeaveMonitorIInv, SavePictureIInv DEF MonitorNext

-----------------------------------------------------------------------------
\* Whatever the order in which main and NetCat run, every packet that NetCat
\* counted is in exactly one mark or in upStreamDataSize, and the windows of
\* the marks do not overlap.
THEOREM MonitorCountsExactly == MonitorSpec => []MonitorExact
<1>1. MonitorIInv => MonitorExact
  BY DEF MonitorIInv, MonitorExact, CountExact, JustMarked, MarksExact
<1> QED
  BY <1>1, MonitorInitIInv, MonitorStepIInv, PTL DEF MonitorSpec

=============================================================================
