---------------------------- MODULE SerialPort ------------------------------
(***************************************************************************)
(* CSerialPort (src/TASelect/SerialLibTAScope/SerialPort.cpp): the serial  *)
(* port of a TA-Scope.  A thread of the port reads the bytes one by one    *)
(* and puts them in a circular buffer; the window thread takes them out,   *)
(* and waits for an event when there are none.  Both share a block of      *)
(* memory, SERIALCOM_HANDLE, that closing the port frees.                  *)
(*                                                                         *)
(* A byte is its number since the port was opened.  A critical section     *)
(* only holds memory accesses, so that each is one step.  orphans is not   *)
(* in the code: where the threads were whose block was freed.              *)
(*                                                                         *)
(* A definition placed just before another one that it resembles is that   *)
(* one with a mistake in it; no action uses it.                            *)
(***************************************************************************)
EXTENDS Naturals

CONSTANTS FIFOSize,     \* _SERIALCOM_FIFOBUFFER: 4103 in the code
          MaxBytes      \* bound on the bytes sent while the port is open

ASSUME SerialPortAssumption == FIFOSize \in Nat \ {0} /\ MaxBytes \in Nat

VARIABLES
    attached,   \* the device is there
    sent,       \* bytes it has sent since the opening
    fetched,    \* the byte that ReadFile handed out last
    window,     \* where the window thread is
    thread,     \* where the thread of the port is
    running,    \* fRunning
    startEvent, stopEvent, dataEvent,           \* the events of the block
    fifo, bufferIn, bufferOut, bytesInBuffer,   \* the circular buffer
    taken,      \* the byte that ReadBuffer handed out last
    orphans, fault

device == <<attached, sent>>
buffer == <<fifo, bufferIn, bufferOut, bytesInBuffer>>
events == <<startEvent, stopEvent>>
threadVars == <<thread, running, fetched>>
history == <<orphans, fault>>
vars == <<device, window, threadVars, events, dataEvent, buffer, taken, history>>

Byte == 0 .. MaxBytes
Cell == 0 .. FIFOSize - 1
InCall == {"opening", "waiting", "taking", "closing"}
AtWork == {"reading", "pending", "forwarding", "forwardingLate", "checking", "ending"}

TypeOK ==
    /\ attached \in BOOLEAN /\ sent \in Byte /\ fetched \in Byte /\ taken \in Byte
    /\ window \in {"closed", "open"} \cup InCall
    /\ thread \in {"none", "created", "started", "ended"} \cup AtWork
    /\ running \in BOOLEAN /\ startEvent \in BOOLEAN /\ stopEvent \in BOOLEAN
    /\ dataEvent \in BOOLEAN
    /\ fifo \in [Cell -> Byte] /\ bufferIn \in Cell /\ bufferOut \in Cell
    /\ bytesInBuffer \in 0 .. FIFOSize
    /\ orphans \subseteq {"created", "started", "ended"} \cup AtWork
    /\ fault \in {"none", "breakpoint", "freedBlock"}

Init ==
    /\ attached = TRUE /\ sent = 0 /\ fetched = 0 /\ taken = 0
    /\ window = "closed" /\ thread = "none" /\ running = FALSE
    /\ startEvent = FALSE /\ stopEvent = FALSE /\ dataEvent = FALSE
    /\ fifo = [c \in Cell |-> 0]
    /\ bufferIn = 0 /\ bufferOut = 0 /\ bytesInBuffer = 0
    /\ orphans = {} /\ fault = "none"
-----------------------------------------------------------------------------
(* The window thread.                                                      *)

\* PortOpen with _StartThread: the port is purged, and the window waits for
\* the thread.  An opening that fails leaves no thread and no block, which is
\* what closed stands for.
PortOpen ==
    /\ window = "closed" /\ attached
    /\ window' = "opening" /\ thread' = "created" /\ running' = FALSE
    /\ startEvent' = FALSE /\ stopEvent' = FALSE /\ dataEvent' = FALSE
    /\ fifo' = [c \in Cell |-> 0]
    /\ bufferIn' = 0 /\ bufferOut' = 0 /\ bytesInBuffer' = 0
    /\ sent' = 0 /\ fetched' = 0 /\ taken' = 0
    /\ UNCHANGED <<attached, history>>

Opened ==
    /\ window = "opening" /\ startEvent
    /\ window' = "open"
    /\ UNCHANGED <<device, threadVars, events, dataEvent, buffer, taken, history>>

\* ReadBuffer for one byte, up to the wait; the count is read outside the
\* critical section.
ReadChar ==
    /\ window = "open"
    /\ window' = IF bytesInBuffer = 0 THEN "waiting" ELSE "taking"
    /\ UNCHANGED <<device, threadVars, events, dataEvent, buffer, taken, history>>

DataReceived ==
    /\ window = "waiting" /\ dataEvent
    /\ window' = IF bytesInBuffer = 0 THEN "open" ELSE "taking"
    /\ UNCHANGED <<device, threadVars, events, dataEvent, buffer, taken, history>>

\* After m_dwRxTimeOut.
TimeOut ==
    /\ window = "waiting" /\ ~dataEvent
    /\ window' = "open"
    /\ UNCHANGED <<device, threadVars, events, dataEvent, buffer, taken, history>>

\* The cell after c, up to pbBufferLimit.  The mistaken one has the limit one
\* cell too low.
FollowingShort(c) == IF c + 2 >= FIFOSize THEN 0 ELSE c + 1
Following(c) == IF c + 1 = FIFOSize THEN 0 ELSE c + 1

\* The critical section of ReadBuffer.  The mistaken one does not reset the
\* event when it takes the last byte.
TakeKeepingEvent ==
    /\ window = "taking"
    /\ taken' = fifo[bufferOut]
    /\ bufferOut' = Following(bufferOut) /\ bytesInBuffer' = bytesInBuffer - 1
    /\ window' = "open"
    /\ UNCHANGED <<device, threadVars, events, dataEvent, fifo, bufferIn, history>>
Take ==
    /\ window = "taking"
    /\ taken' = fifo[bufferOut]
    /\ bufferOut' = Following(bufferOut) /\ bytesInBuffer' = bytesInBuffer - 1
    /\ dataEvent' = FALSE
    /\ window' = "open"
    /\ UNCHANGED <<device, threadVars, events, fifo, bufferIn, history>>

\* _ReleaseHandle frees the block, whatever the thread is at.
ReleaseHandle ==
    /\ orphans' = IF thread \in {"none", "ended"} THEN orphans ELSE orphans \cup {thread}
    /\ thread' = "none" /\ running' = FALSE
    /\ window' = "closed"

\* PortClose waits only for a thread that has marked itself as running.  The
\* mistaken one signals the thread to stop and does not wait.
PortCloseAtOnce ==
    /\ window = "open"
    /\ ReleaseHandle /\ stopEvent' = running
    /\ UNCHANGED <<device, fetched, startEvent, dataEvent, buffer, taken, fault>>
PortClose ==
    /\ window = "open"
    /\ IF running
         THEN /\ window' = "closing" /\ stopEvent' = TRUE
              /\ UNCHANGED <<thread, running, orphans>>
         ELSE ReleaseHandle /\ UNCHANGED stopEvent
    /\ UNCHANGED <<device, fetched, startEvent, dataEvent, buffer, taken, fault>>

Closed ==
    /\ window = "closing" /\ thread = "ended"
    /\ ReleaseHandle
    /\ UNCHANGED <<device, fetched, events, dataEvent, buffer, taken, fault>>

Window == fault = "none" /\
    (Opened \/ DataReceived \/ TimeOut \/ Take \/ Closed)
Calls == fault = "none" /\ (PortOpen \/ ReadChar \/ PortClose)
-----------------------------------------------------------------------------
(* The thread, _ThreadProc.                                                *)

GoTo(step) == thread' = step /\ UNCHANGED <<running, fetched>>

Start ==
    /\ thread = "created"
    /\ startEvent' = TRUE /\ GoTo("started")
    /\ UNCHANGED <<device, window, stopEvent, dataEvent, buffer, taken, history>>

MarkRunning ==
    /\ thread = "started"
    /\ running' = TRUE /\ thread' = "reading"
    /\ UNCHANGED <<device, window, fetched, events, dataEvent, buffer, taken, history>>

Fetch(step) ==
    /\ attached /\ fetched < sent
    /\ fetched' = fetched + 1 /\ thread' = step
    /\ UNCHANGED running

\* A success without a byte, or an error when the device is gone, leads to the
\* test of the stop event as well.
ReadFile ==
    /\ thread = "reading"
    /\ \/ Fetch("forwarding")
       \/ attached /\ GoTo("pending")
       \/ GoTo("checking")
    /\ UNCHANGED <<device, window, events, dataEvent, buffer, taken, history>>

\* The wait for the byte, or for the stop event, which comes first.  The
\* mistaken one waits for the byte alone.
PendingReadBlind ==
    /\ thread = "pending"
    /\ \/ Fetch("forwardingLate")
       \/ ~attached /\ GoTo("reading")
    /\ UNCHANGED <<device, window, events, dataEvent, buffer, taken, history>>
PendingRead ==
    /\ thread = "pending"
    /\ \/ stopEvent /\ GoTo("ending")
       \/ ~stopEvent /\ Fetch("forwardingLate")
       \/ ~stopEvent /\ ~attached /\ GoTo("reading")
    /\ UNCHANGED <<device, window, events, dataEvent, buffer, taken, history>>

\* _DataReceivedHandler.
Forward ==
    /\ thread \in {"forwarding", "forwardingLate"}
    /\ IF bytesInBuffer < FIFOSize
         THEN /\ fifo' = [fifo EXCEPT ![bufferIn] = fetched]
              /\ bufferIn' = Following(bufferIn)
              /\ bytesInBuffer' = bytesInBuffer + 1
              /\ dataEvent' = TRUE
              /\ GoTo(IF thread = "forwarding" THEN "checking" ELSE "reading")
              /\ UNCHANGED <<bufferOut, fault>>
         ELSE /\ fault' = "breakpoint"      \* DebugBreak
              /\ UNCHANGED <<threadVars, buffer, dataEvent>>
    /\ UNCHANGED <<device, window, events, taken, orphans>>

CheckStop ==
    /\ thread = "checking"
    /\ GoTo(IF stopEvent THEN "ending" ELSE "reading")
    /\ UNCHANGED <<device, window, events, dataEvent, buffer, taken, history>>

EndThread ==
    /\ thread = "ending"
    /\ running' = FALSE /\ thread' = "ended"
    /\ UNCHANGED <<device, window, fetched, events, dataEvent, buffer, taken, history>>

\* A thread goes on with a block that was freed.
Orphan ==
    /\ orphans # {}
    /\ fault' = "freedBlock"
    /\ UNCHANGED <<device, window, threadVars, events, dataEvent, buffer, taken, orphans>>

Thread == fault = "none" /\
    (Start \/ MarkRunning \/ ReadFile \/ PendingRead \/ Forward \/ CheckStop
        \/ EndThread \/ Orphan)
-----------------------------------------------------------------------------
(* The device.  A handle opened before the device left stays without it.   *)

DeviceSends ==
    /\ window # "closed" /\ attached /\ sent < MaxBytes
    /\ sent' = sent + 1
    /\ UNCHANGED <<attached, window, threadVars, events, dataEvent, buffer, taken, history>>

Unplug ==
    /\ attached /\ attached' = FALSE
    /\ UNCHANGED <<sent, window, threadVars, events, dataEvent, buffer, taken, history>>

Plug ==
    /\ ~attached /\ window = "closed"
    /\ attached' = TRUE
    /\ UNCHANGED <<sent, window, threadVars, events, dataEvent, buffer, taken, history>>

Device == fault = "none" /\ (DeviceSends \/ Unplug \/ Plug)

Next == Window \/ Calls \/ Thread \/ Device

Spec == Init /\ [][Next]_vars

\* Windows schedules both threads; a wait with a time-out ends.  Nobody need
\* call the port, and the device need not send.
FairSpec == Spec /\ WF_vars(Window) /\ WF_vars(Thread)
-----------------------------------------------------------------------------
\* What the port promises.  A program stopped at the breakpoint makes no step
\* that the queue does not make.
Queue == INSTANCE ByteQueue
ImplementsByteQueue == Queue!Spec

\* While ReadBuffer waits for the event, the event says whether the buffer
\* holds a byte: no byte is left to a time-out, and no wait ends for nothing.
EventTellsData == window = "waiting" => (dataEvent <=> bytesInBuffer > 0)

\* "Wait that thread is well finished" (PortClose): the only thread whose block
\* is freed under it is one that has said it started and not yet that it runs.
OnlyUnmarkedOrphans == orphans \subseteq {"started"}

\* A call of the port returns: PortOpen and PortClose, which wait for the
\* thread without a time-out, and ReadChar, unless the program breaks.
CallsReturn == window \in InCall ~> window \notin InCall \/ fault # "none"
=============================================================================
