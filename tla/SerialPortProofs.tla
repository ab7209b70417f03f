-------------------------- MODULE SerialPortProofs --------------------------
(***************************************************************************)
(* Proofs about SerialPort, for any size of the buffer and any number of   *)
(* bytes.  The inductive invariant says what each thread knows of the      *)
(* other from the events and from running, what the buffer holds between   *)
(* its two ends, and what the event of the data tells.  The last part says *)
(* why no call waits for good.                                             *)
(***************************************************************************)
EXTENDS SerialPort, TLAPS

\* Where the threads are, from the events and the mark of the block.
Threads ==
    /\ window = "closed" <=> thread = "none"
    /\ window # "closed" => (startEvent <=> thread # "created")
    /\ window \notin {"closed", "opening"} => thread # "created"
    /\ running <=> thread \in AtWork
    /\ thread \in {"ending", "ended"} => stopEvent
    /\ window \notin {"closed", "closing"} => ~stopEvent
    /\ window = "closing" => stopEvent /\ thread \in AtWork \cup {"ended"}

\* The cell k places behind the next one to be taken.
Slot(k) == IF bufferOut + k < FIFOSize THEN bufferOut + k ELSE bufferOut + k - FIFOSize

\* The byte that the thread holds, read and not yet in the buffer.
InHand == IF thread \in {"forwarding", "forwardingLate"} THEN 1 ELSE 0

\* The buffer holds the bytes between the last one taken and the last one read.
Buffered ==
    /\ bufferIn = Slot(bytesInBuffer)
    /\ \A k \in 0 .. bytesInBuffer - 1 : fifo[Slot(k)] = taken + 1 + k
    /\ fetched = taken + bytesInBuffer + InHand
    /\ fetched <= sent

\* A set event and a window about to take find a byte.
Told ==
    /\ dataEvent => bytesInBuffer > 0
    /\ window = "taking" => bytesInBuffer > 0
    /\ EventTellsData

IInv == TypeOK /\ Threads /\ Buffered /\ Told /\ OnlyUnmarkedOrphans
-----------------------------------------------------------------------------
LEMMA InitIInv == Init => IInv
<1> SUFFICES ASSUME Init PROVE IInv
  OBVIOUS
<1>1. TypeOK
  <2>1. 0 \in Byte /\ 0 \in Cell /\ 0 \in 0 .. FIFOSize
    BY SerialPortAssumption DEF Byte, Cell
  <2> QED  BY <2>1 DEF Init, TypeOK
<1>2. Buffered
  BY SerialPortAssumption DEF Init, Buffered, Slot, InHand
<1>3. Threads /\ Told /\ OnlyUnmarkedOrphans
  BY DEF Init, Threads, Told, EventTellsData, OnlyUnmarkedOrphans, AtWork
<1> QED  BY <1>1, <1>2, <1>3 DEF IInv

\* A step that leaves the buffer alone keeps what it holds, when the byte that
\* the thread holds is counted.
LEMMA BufferedKept ==
    ASSUME Buffered, UNCHANGED <<buffer, taken>>,
           fetched' = taken + bytesInBuffer + InHand', fetched' <= sent'
    PROVE  Buffered'
<1>1. \A k : Slot(k)' = Slot(k)
  BY DEF Slot, buffer
<1> QED  BY <1>1 DEF Buffered, buffer

\* The steps of the window that leave the buffer alone.
LEMMA WindowMoves ==
    ASSUME IInv, Opened \/ ReadChar \/ DataReceived \/ TimeOut
    PROVE  IInv'
<1>1. /\ UNCHANGED <<device, threadVars, events, dataEvent, buffer, taken, history>>
      /\ \/ window = "opening" /\ window' = "open" /\ startEvent
         \/ window \in {"open", "waiting"} /\ window' \in {"open", "waiting", "taking"}
      /\ window' = "taking" => bytesInBuffer # 0
      /\ window' = "waiting" => bytesInBuffer = 0
  BY DEF Opened, ReadChar, DataReceived, TimeOut
<1>2. Buffered'
  <2>1. UNCHANGED <<fetched, sent, InHand>>
    BY <1>1 DEF device, threadVars, InHand
  <2> QED  BY <1>1, <2>1, BufferedKept DEF IInv, Buffered
<1>3. TypeOK' /\ OnlyUnmarkedOrphans'
  BY <1>1 DEF IInv, TypeOK, OnlyUnmarkedOrphans, InCall, device, threadVars, events, buffer,
              history
<1>4. Threads'
  BY <1>1 DEF IInv, Threads, threadVars, events
<1>5. Told'
  BY <1>1, SerialPortAssumption DEF IInv, TypeOK, Told, EventTellsData, buffer
<1> QED  BY <1>2, <1>3, <1>4, <1>5 DEF IInv

LEMMA PortOpenStep == ASSUME IInv, PortOpen PROVE IInv'
<1>1. TypeOK' /\ OnlyUnmarkedOrphans'
  <2>1. 0 \in Byte /\ 0 \in Cell /\ 0 \in 0 .. FIFOSize
    BY SerialPortAssumption DEF Byte, Cell
  <2> QED  BY <2>1 DEF PortOpen, IInv, TypeOK, OnlyUnmarkedOrphans, InCall, history
<1>2. Buffered'
  BY SerialPortAssumption DEF PortOpen, Buffered, Slot, InHand
<1>3. Threads' /\ Told'
  BY DEF PortOpen, Threads, Told, EventTellsData, AtWork
<1> QED  BY <1>1, <1>2, <1>3 DEF IInv

LEMMA PortCloseStep == ASSUME IInv, PortClose \/ Closed PROVE IInv'
<1>1. /\ UNCHANGED <<device, fetched, startEvent, dataEvent, buffer, taken, fault>>
      /\ window \in {"open", "closing"}
      /\ \/ /\ running /\ window' = "closing" /\ stopEvent' = TRUE
            /\ UNCHANGED <<thread, running, orphans>>
         \/ /\ ~running /\ ReleaseHandle /\ stopEvent' = stopEvent
  BY DEF PortClose, Closed, IInv, Threads, events, AtWork
<1>2. Buffered'
  <2>1. UNCHANGED <<fetched, sent, InHand>>
    BY <1>1 DEF device, ReleaseHandle, IInv, Threads, InHand, AtWork
  <2> QED  BY <1>1, <2>1, BufferedKept DEF IInv, Buffered
<1>3. thread \in {"started", "ended"} \cup AtWork
  BY <1>1 DEF IInv, TypeOK, Threads
<1>4. OnlyUnmarkedOrphans'
  BY <1>1, <1>3 DEF ReleaseHandle, IInv, OnlyUnmarkedOrphans, Threads
<1>5. TypeOK'
  BY <1>1, <1>4
  DEF ReleaseHandle, IInv, TypeOK, OnlyUnmarkedOrphans, InCall, device, buffer
<1>6. Threads' /\ Told'
  BY <1>1, <1>3
  DEF ReleaseHandle, IInv, Threads, Told, EventTellsData, AtWork, buffer
<1> QED  BY <1>2, <1>4, <1>5, <1>6 DEF IInv

\* What a window that has seen a byte takes is the one after the last.
LEMMA NextTaken == ASSUME IInv, window = "taking" PROVE fifo[bufferOut] = taken + 1
<1>1. bytesInBuffer > 0 /\ bytesInBuffer \in Nat
  BY SerialPortAssumption DEF IInv, TypeOK, Told
<1>2. Slot(0) = bufferOut
  BY SerialPortAssumption DEF Slot, IInv, TypeOK, Cell
<1>3. fifo[Slot(0)] = taken + 1 + 0
  BY <1>1 DEF IInv, Buffered
<1> QED  BY <1>2, <1>3 DEF IInv, TypeOK, Byte

LEMMA TakeStep == ASSUME IInv, Take PROVE IInv'
<1>1. taken' = taken + 1 /\ bytesInBuffer > 0
  BY NextTaken DEF Take, IInv, Told
<1>2. TypeOK' /\ Threads' /\ Told' /\ OnlyUnmarkedOrphans'
  <2>1. taken' <= sent
    BY <1>1, SerialPortAssumption DEF IInv, TypeOK, Buffered, InHand, Byte
  <2>2. taken' \in Byte /\ bufferOut' \in Cell /\ bytesInBuffer' \in 0 .. FIFOSize
    BY <1>1, <2>1, SerialPortAssumption
    DEF Take, Following, IInv, TypeOK, Byte, Cell
  <2>3. TypeOK' /\ OnlyUnmarkedOrphans'
    BY <2>2
    DEF Take, IInv, TypeOK, OnlyUnmarkedOrphans, device, events, threadVars, history
  <2> QED
    BY <2>3 DEF Take, IInv, Threads, Told, EventTellsData, events, threadVars
<1>3. ASSUME NEW k \in Nat, k < FIFOSize PROVE Slot(k)' = Slot(k + 1)
  BY <1>3, SerialPortAssumption DEF Take, Following, Slot, IInv, TypeOK, Cell
<1>4. bytesInBuffer' = bytesInBuffer - 1 /\ bytesInBuffer' \in Nat /\ bytesInBuffer' < FIFOSize
  BY <1>1, SerialPortAssumption DEF Take, IInv, TypeOK
<1>5. bufferIn' = Slot(bytesInBuffer)'
  <2>1. Slot(bytesInBuffer)' = Slot(bytesInBuffer' + 1)
    BY <1>3, <1>4 DEF Slot
  <2> QED  BY <2>1, <1>4, SerialPortAssumption DEF Take, IInv, Buffered, TypeOK
<1>6. ASSUME NEW k \in 0 .. bytesInBuffer' - 1 PROVE fifo'[Slot(k)'] = taken' + 1 + k
  <2>1. k \in Nat /\ k < FIFOSize /\ k + 1 \in 0 .. bytesInBuffer - 1
    BY <1>4, SerialPortAssumption DEF IInv, TypeOK
  <2>2. fifo[Slot(k + 1)] = taken + 1 + (k + 1)
    BY <2>1 DEF IInv, Buffered
  <2>3. fifo' = fifo /\ Slot(k)' = Slot(k + 1)
    BY <1>3, <2>1 DEF Take
  <2> QED  BY <1>1, <2>1, <2>2, <2>3 DEF IInv, TypeOK, Byte
<1>7. fetched' = taken' + bytesInBuffer' + InHand' /\ fetched' <= sent'
  BY <1>1, <1>4, SerialPortAssumption
  DEF Take, IInv, TypeOK, Buffered, InHand, Byte, device, threadVars
<1> QED  BY <1>2, <1>5, <1>6, <1>7 DEF IInv, Buffered
-----------------------------------------------------------------------------
(* The thread.                                                             *)

LEMMA StartSteps == ASSUME IInv, Start \/ MarkRunning \/ EndThread PROVE IInv'
<1>1. /\ UNCHANGED <<device, window, fetched, stopEvent, dataEvent, buffer, taken, history>>
      /\ \/ thread = "created" /\ thread' = "started" /\ startEvent' /\ UNCHANGED running
         \/ thread = "started" /\ thread' = "reading" /\ running' /\ UNCHANGED startEvent
         \/ thread = "ending" /\ thread' = "ended" /\ ~running' /\ UNCHANGED startEvent
      /\ running' \in BOOLEAN /\ startEvent' \in BOOLEAN
  BY DEF Start, MarkRunning, EndThread, GoTo, IInv, TypeOK, events
<1>2. Buffered'
  <2>1. UNCHANGED <<fetched, sent, InHand>>
    BY <1>1 DEF device, InHand
  <2> QED  BY <1>1, <2>1, BufferedKept DEF IInv, Buffered
<1>3. TypeOK' /\ OnlyUnmarkedOrphans'
  BY <1>1 DEF IInv, TypeOK, OnlyUnmarkedOrphans, AtWork, device, buffer, history
<1>4. Threads' /\ Told'
  BY <1>1 DEF IInv, Threads, Told, EventTellsData, AtWork, buffer
<1> QED  BY <1>2, <1>3, <1>4 DEF IInv

LEMMA ReadFileStep == ASSUME IInv, ReadFile PROVE IInv'
<1>1. /\ UNCHANGED <<device, window, running, events, dataEvent, buffer, taken, history>>
      /\ thread \in {"reading"} /\ thread' \in {"forwarding", "pending", "checking"}
      /\ thread' = "ending" => stopEvent
      /\ \/ fetched' = fetched /\ thread' \notin {"forwarding", "forwardingLate"}
         \/ fetched < sent /\ fetched' = fetched + 1 /\ thread' \in {"forwarding", "forwardingLate"}
  BY DEF ReadFile, Fetch, GoTo, IInv, TypeOK
<1>2. Buffered' /\ fetched' <= sent
  BY <1>1, BufferedKept, SerialPortAssumption DEF IInv, TypeOK, Buffered, InHand, Byte, device
<1>3. fetched' \in Byte
  BY <1>1, <1>2, SerialPortAssumption DEF IInv, TypeOK, Byte
<1>4. TypeOK' /\ OnlyUnmarkedOrphans'
  BY <1>1, <1>3 DEF IInv, TypeOK, OnlyUnmarkedOrphans, AtWork, device, events, buffer, history
<1>5. Threads' /\ Told'
  BY <1>1 DEF IInv, Threads, Told, EventTellsData, AtWork, device, events, buffer
<1> QED  BY <1>2, <1>4, <1>5 DEF IInv

LEMMA PendingReadStep == ASSUME IInv, PendingRead PROVE IInv'
<1>1. /\ UNCHANGED <<device, window, running, events, dataEvent, buffer, taken, history>>
      /\ thread \in {"pending"} /\ thread' \in {"ending", "reading", "forwardingLate"}
      /\ thread' = "ending" => stopEvent
      /\ \/ fetched' = fetched /\ thread' \notin {"forwarding", "forwardingLate"}
         \/ fetched < sent /\ fetched' = fetched + 1 /\ thread' \in {"forwarding", "forwardingLate"}
  BY DEF PendingRead, Fetch, GoTo, IInv, TypeOK
<1>2. Buffered' /\ fetched' <= sent
  BY <1>1, BufferedKept, SerialPortAssumption DEF IInv, TypeOK, Buffered, InHand, Byte, device
<1>3. fetched' \in Byte
  BY <1>1, <1>2, SerialPortAssumption DEF IInv, TypeOK, Byte
<1>4. TypeOK' /\ OnlyUnmarkedOrphans'
  BY <1>1, <1>3 DEF IInv, TypeOK, OnlyUnmarkedOrphans, AtWork, device, events, buffer, history
<1>5. Threads' /\ Told'
  BY <1>1 DEF IInv, Threads, Told, EventTellsData, AtWork, device, events, buffer
<1> QED  BY <1>2, <1>4, <1>5 DEF IInv

LEMMA CheckStopStep == ASSUME IInv, CheckStop PROVE IInv'
<1>1. /\ UNCHANGED <<device, window, running, events, dataEvent, buffer, taken, history>>
      /\ thread \in {"checking"} /\ thread' \in {"ending", "reading"}
      /\ thread' = "ending" => stopEvent
      /\ \/ fetched' = fetched /\ thread' \notin {"forwarding", "forwardingLate"}
         \/ fetched < sent /\ fetched' = fetched + 1 /\ thread' \in {"forwarding", "forwardingLate"}
  BY DEF CheckStop, GoTo, IInv, TypeOK
<1>2. Buffered' /\ fetched' <= sent
  BY <1>1, BufferedKept, SerialPortAssumption DEF IInv, TypeOK, Buffered, InHand, Byte, device
<1>3. fetched' \in Byte
  BY <1>1, <1>2, SerialPortAssumption DEF IInv, TypeOK, Byte
<1>4. TypeOK' /\ OnlyUnmarkedOrphans'
  BY <1>1, <1>3 DEF IInv, TypeOK, OnlyUnmarkedOrphans, AtWork, device, events, buffer, history
<1>5. Threads' /\ Told'
  BY <1>1 DEF IInv, Threads, Told, EventTellsData, AtWork, device, events, buffer
<1> QED  BY <1>2, <1>4, <1>5 DEF IInv

LEMMA OrphanStep == ASSUME IInv, Orphan PROVE IInv'
  BY SerialPortAssumption
  DEF Orphan, IInv, TypeOK, Threads, Buffered, Slot, InHand, Told, EventTellsData,
      OnlyUnmarkedOrphans, device, buffer, events, threadVars

\* The cells of the bytes in the buffer are not the one after them.
LEMMA SlotFree ==
    ASSUME IInv, bytesInBuffer < FIFOSize, NEW k \in 0 .. bytesInBuffer - 1
    PROVE  Slot(k) \in Cell /\ Slot(k) # bufferIn
  BY SerialPortAssumption DEF Slot, Cell, IInv, TypeOK, Buffered

LEMMA ForwardStep == ASSUME IInv, Forward PROVE IInv'
<1>1. CASE bytesInBuffer < FIFOSize
  <2>1. /\ fifo' = [fifo EXCEPT ![bufferIn] = fetched]
        /\ bufferIn' = Following(bufferIn) /\ bufferOut' = bufferOut
        /\ bytesInBuffer' = bytesInBuffer + 1 /\ dataEvent' = TRUE
        /\ thread \in {"forwarding", "forwardingLate"} /\ thread' \in {"checking", "reading"}
        /\ UNCHANGED <<running, fetched, fault, device, window, events, taken, orphans>>
    BY <1>1 DEF Forward, GoTo
  <2>2. TypeOK' /\ Threads' /\ Told' /\ OnlyUnmarkedOrphans'
    BY <1>1, <2>1, SerialPortAssumption
    DEF Following, IInv, TypeOK, Threads, Told, EventTellsData, OnlyUnmarkedOrphans,
        Byte, Cell, InCall, AtWork, device, events
  <2>3. \A k : Slot(k)' = Slot(k)
    BY <2>1 DEF Slot
  <2>4. bufferIn' = Slot(bytesInBuffer + 1)
    BY <1>1, <2>1, SerialPortAssumption DEF Slot, Following, IInv, TypeOK, Buffered, Cell
  <2>5. fetched = taken + 1 + bytesInBuffer
    BY <2>1, SerialPortAssumption DEF IInv, TypeOK, Buffered, InHand, Byte
  <2>6. ASSUME NEW k \in 0 .. bytesInBuffer' - 1 PROVE fifo'[Slot(k)] = taken' + 1 + k
    <3>1. CASE k = bytesInBuffer
      BY <2>1, <2>5, <3>1 DEF IInv, TypeOK, Buffered
    <3>2. CASE k # bytesInBuffer
      <4>1. k \in 0 .. bytesInBuffer - 1
        BY <2>1, <3>2, SerialPortAssumption DEF IInv, TypeOK
      <4> QED  BY <1>1, <2>1, <4>1, SlotFree DEF IInv, TypeOK, Buffered
    <3> QED  BY <3>1, <3>2
  <2>7. fetched' = taken' + bytesInBuffer' + InHand' /\ fetched' <= sent'
    BY <2>1, <2>5, SerialPortAssumption DEF IInv, TypeOK, Buffered, InHand, Byte, device
  <2> QED  BY <2>1, <2>2, <2>3, <2>4, <2>6, <2>7 DEF IInv, Buffered
<1>2. CASE ~(bytesInBuffer < FIFOSize)
  BY <1>2 DEF Forward, IInv, TypeOK, Threads, Buffered, Slot, InHand, Told, EventTellsData,
              OnlyUnmarkedOrphans, device, buffer, events, threadVars
<1> QED  BY <1>1, <1>2
-----------------------------------------------------------------------------
(* The device.                                                             *)

LEMMA DeviceStep == ASSUME IInv, DeviceSends \/ Unplug \/ Plug PROVE IInv'
<1>1. /\ UNCHANGED <<window, threadVars, events, dataEvent, buffer, taken, history>>
      /\ attached' \in BOOLEAN
      /\ sent' = sent \/ (sent < MaxBytes /\ sent' = sent + 1)
  BY DEF DeviceSends, Unplug, Plug, IInv, TypeOK
<1>2. sent' \in Byte /\ sent <= sent'
  BY <1>1, SerialPortAssumption DEF IInv, TypeOK, Byte
<1>3. UNCHANGED <<fetched, InHand>>
  BY <1>1 DEF threadVars, InHand
<1>4. Buffered'
  BY <1>1, <1>2, <1>3, BufferedKept, SerialPortAssumption DEF IInv, TypeOK, Buffered, Byte
<1>5. TypeOK' /\ OnlyUnmarkedOrphans'
  BY <1>1, <1>2 DEF IInv, TypeOK, OnlyUnmarkedOrphans, threadVars, events, buffer, history
<1>6. Threads' /\ Told'
  BY <1>1 DEF IInv, Threads, Told, EventTellsData, threadVars, events, buffer
<1> QED  BY <1>4, <1>5, <1>6 DEF IInv

LEMMA Stutter == ASSUME IInv, UNCHANGED vars PROVE IInv'
  BY DEF vars, IInv, TypeOK, Threads, Buffered, Slot, InHand, Told, EventTellsData,
         OnlyUnmarkedOrphans, device, buffer, events, threadVars, history

LEMMA NextIInv == ASSUME IInv, [Next]_vars PROVE IInv'
<1>1. CASE Window
  BY <1>1, WindowMoves, TakeStep, PortCloseStep DEF Window
<1>2. CASE Calls
  BY <1>2, PortOpenStep, WindowMoves, PortCloseStep DEF Calls
<1>3. CASE Thread
  BY <1>3, StartSteps, ReadFileStep, PendingReadStep, ForwardStep, CheckStopStep,
     OrphanStep DEF Thread
<1>4. CASE Device
  BY <1>4, DeviceStep DEF Device
<1> QED  BY <1>1, <1>2, <1>3, <1>4, Stutter DEF Next

\* The inductive invariant of the port.
THEOREM SerialPortInvariance == Spec => []IInv
  BY InitIInv, NextIInv, PTL DEF Spec

\* The variables keep their types; no pointer of the buffer leaves it and the
\* count of bytes never wraps.
THEOREM SerialPortTypeCorrect == Spec => []TypeOK
<1>1. IInv => TypeOK  BY DEF IInv
<1> QED  BY SerialPortInvariance, <1>1, PTL

\* While the window waits, the event of the thread says whether there is a byte.
THEOREM SerialPortEventTellsData == Spec => []EventTellsData
<1>1. IInv => EventTellsData  BY DEF IInv, Told
<1> QED  BY SerialPortInvariance, <1>1, PTL

\* PortClose frees the block under no thread but one on its first two lines.
THEOREM SerialPortOrphans == Spec => []OnlyUnmarkedOrphans
<1>1. IInv => OnlyUnmarkedOrphans  BY DEF IInv
<1> QED  BY SerialPortInvariance, <1>1, PTL

\* The port is the queue: every byte once, in the order it was sent.
THEOREM SerialPortImplementsByteQueue == Spec => ImplementsByteQueue
<1>1. Init => Queue!Init
  BY DEF Init, Queue!Init
<1>2. ASSUME IInv, [Next]_vars PROVE [Queue!Next]_Queue!vars
  <2>1. CASE Take
    <3>1. taken < sent
      BY <1>2, <2>1, SerialPortAssumption
      DEF Take, IInv, TypeOK, Buffered, Told, InHand, Byte
    <3>2. taken' = taken + 1 /\ sent' = sent
      BY <1>2, <2>1, NextTaken DEF Take, device
    <3> QED  BY <3>1, <3>2 DEF Queue!Next, Queue!ReadChar
  <2>2. CASE PortOpen
    BY <2>2 DEF PortOpen, Queue!Next, Queue!Open
  <2>3. CASE DeviceSends
    BY <2>3 DEF DeviceSends, Queue!Next, Queue!Send
  <2>4. CASE Opened \/ DataReceived \/ TimeOut \/ Closed \/ ReadChar \/ PortClose
    BY <2>4 DEF Opened, DataReceived, TimeOut, Closed, ReadChar, PortClose, device, Queue!vars
  <2>5. CASE Thread
    BY <2>5 DEF Thread, Start, MarkRunning, ReadFile, PendingRead, Forward, CheckStop,
                EndThread, Orphan, device, Queue!vars
  <2>6. CASE Unplug \/ Plug
    BY <2>6 DEF Unplug, Plug, Queue!vars
  <2>7. CASE UNCHANGED vars
    BY <2>7 DEF vars, device, Queue!vars
  <2> QED
    BY <1>2, <2>1, <2>2, <2>3, <2>4, <2>5, <2>6, <2>7 DEF Next, Window, Calls, Device
<1> QED
  BY SerialPortInvariance, <1>1, <1>2, PTL DEF Spec, ImplementsByteQueue, Queue!Spec
-----------------------------------------------------------------------------
(***************************************************************************)
(* Why PortOpen and PortClose, which wait without a time-out, return.      *)
(* CallsReturn itself rests on the fairness of FairSpec and stays with     *)
(* TLC; here is the argument under it.                                     *)
(***************************************************************************)

\* What the window waits for has come, or the thread is on a step that leads
\* to it and that nothing bars.
CallCanGoOn ==
    /\ window = "opening" => startEvent \/ thread = "created"
    /\ window = "closing" => \/ thread = "ended"
                             \/ thread \in AtWork \ {"pending"}
                             \/ thread = "pending" /\ stopEvent

\* An upper bound of the steps that the thread makes before it ends, once told
\* to: with a byte in hand from the wait it goes once more round its loop.
ToEnd == CASE thread = "ended" -> 0
           [] thread = "ending" -> 1
           [] thread \in {"pending", "checking"} -> 2
           [] thread = "forwarding" -> 3
           [] thread = "reading" -> 4
           [] thread = "forwardingLate" -> 5
           [] OTHER -> 6

\* A step of the closing that the device does not make.
ClosingNearer ==
    window = "closing" /\ ~Device =>
        \/ fault' # "none"
        \/ window' = "closed"
        \/ window' = "closing" /\ ToEnd' \in Nat /\ ToEnd' < ToEnd

\* Neither PortOpen nor PortClose waits for a thread that waits in turn: not
\* even for one blocked in a read, since the stop event ends that wait too.
THEOREM SerialPortCallCanGoOn == Spec => []CallCanGoOn
<1>1. IInv => CallCanGoOn
  BY DEF IInv, Threads, CallCanGoOn, AtWork
<1> QED  BY SerialPortInvariance, <1>1, PTL

\* A thread told to stop comes nearer its end with every step, however many
\* bytes the device goes on sending: PortClose cannot be kept waiting.
THEOREM SerialPortClosingNearer == Spec => [][ClosingNearer]_vars
<1>1. ASSUME IInv, Next, window = "closing", ~Device
      PROVE  \/ fault' # "none"
             \/ window' = "closed"
             \/ window' = "closing" /\ ToEnd' \in Nat /\ ToEnd' < ToEnd
  <2>1. stopEvent /\ thread \in AtWork \cup {"ended"}
    BY <1>1 DEF IInv, Threads
  <2>2. CASE Window
    BY <1>1, <2>2 DEF Window, Opened, DataReceived, TimeOut, Take, Closed, ReleaseHandle
  <2>3. CASE Calls
    BY <1>1, <2>3 DEF Calls, PortOpen, ReadChar, PortClose
  <2>4. CASE Start \/ MarkRunning
    BY <2>1, <2>4 DEF Start, MarkRunning, AtWork
  <2>5. CASE ReadFile
    BY <1>1, <2>5 DEF ReadFile, Fetch, GoTo, ToEnd
  <2>6. CASE PendingRead
    BY <1>1, <2>1, <2>6 DEF PendingRead, GoTo, ToEnd
  <2>7. CASE Forward
    BY <1>1, <2>7 DEF Forward, GoTo, ToEnd
  <2>8. CASE CheckStop
    BY <1>1, <2>1, <2>8 DEF CheckStop, GoTo, ToEnd
  <2>9. CASE EndThread
    BY <1>1, <2>9 DEF EndThread, ToEnd
  <2>10. CASE Orphan
    BY <2>10 DEF Orphan
  <2> QED
    BY <1>1, <2>2, <2>3, <2>4, <2>5, <2>6, <2>7, <2>8, <2>9, <2>10 DEF Next, Thread
<1>2. IInv /\ [Next]_vars => [ClosingNearer]_vars
  BY <1>1 DEF ClosingNearer
<1> QED  BY SerialPortInvariance, <1>2, PTL DEF Spec
=============================================================================
