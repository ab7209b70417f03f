------------------------------ MODULE DpSVisio ------------------------------
(***************************************************************************)
(* The window of the DpS-Visio firmware upgrade (DlgDpSVisio.cpp): what    *)
(* both upgrade dialogs share.  CDlgDpSVisio holds the communication       *)
(* object of the connected device, shows one dialog at a time and hears of *)
(* devices; a running dialog owns a worker thread that takes a turn every  *)
(* 300 ms until its stop event is set, a critical section, and the state   *)
(* m_eStateEngine that the turns, the window and the device events change. *)
(*                                                                         *)
(* The window thread and the worker interleave.  The window waits in two   *)
(* places, for the critical section and for the thread to stop; the worker *)
(* waits for the critical section, for the device, and, when it writes in  *)
(* a control of the dialog, for the window thread to take messages         *)
(* (SendMessage).  The two engines are HIDUpgrade and DFUUpgrade.          *)
(***************************************************************************)
EXTENDS Naturals, Sequences

CONSTANTS Device,       \* DpS-Visio units
          OldFirmware,  \* those whose firmware is below 3.0
          MaxChanges,   \* bound: how often a device is plugged or unplugged
          NULL

ASSUME DpSVisioAssumption ==
    /\ OldFirmware \subseteq Device /\ NULL \notin Device
    /\ NULL \notin [mode : {"HID", "DFU"}, dev : Device \cup {NULL}]
    /\ MaxChanges \in Nat

VARIABLES
    plugged,    \* how Windows sees each device
    news,       \* WM_DEVICECHANGE messages not handled yet
    changes,    \* plugs and unplugs so far
    comm,       \* m_pclDpSVisioCommunication: mode and device, or NULL
    dialog,     \* m_pCurrentDialog
    update,     \* the "Update" button is enabled
    cancel,     \* so is "Cancel"
    popup,      \* the dialog shown over the DFU dialog
    posted,     \* messages posted to the window or to the dialog, in order
    ui,         \* what the window thread is doing
    status,     \* m_rUpgradeStatus.m_fUpgradeStatus
    engine,     \* m_eStateEngine
    saved,      \* m_strHIDDeviceName
    msgs,       \* m_vecMsgToPrintInListBox is not empty
    stop,       \* m_pclStopThreadEvent is set
    worker,     \* what the thread is doing
    cs,         \* m_CriticalSection, when it is held beyond one step
    pcl,        \* the communication object the turn works with
    reply,      \* the answer the turn is reporting to the dialog
    counter,    \* m_uiUSBEventCounter
    left,       \* ullFileLeft, in packets
    refused,    \* history: a packet was counted as sent, not acknowledged
    programmed, \* history: the device was programmed, as far as it said
    fault       \* memory that is not there has been used: the program is gone

world == <<plugged, news, changes>>
buttons == <<update, cancel, popup>>
turn == <<worker, cs, pcl, reply>>
data == <<saved, counter, left, refused, programmed>>
vars == <<world, comm, dialog, buttons, posted, ui, status, engine, msgs, stop,
          turn, data, fault>>

Mode == {"HID", "DFU"}
RunningDialog == {"HIDRunning", "DFURunning"}
Running == dialog \in RunningDialog
Idle == <<"idle", "">>
Gone == <<"gone", "">>

\* A device that went before it was opened leaves an object without a name.
Comm == [mode : Mode, dev : Device \cup {NULL}]
DeviceName(c) == IF c.dev = NULL THEN NULL ELSE c
\* Before DpS-Visio version 3.0 there was only the DFU mode for the update.
OnlyDFU(c) == c.mode = "DFU" \/ c.dev \in OldFirmware \cup {NULL}

\* Messages for a dialog are void once it is gone, the others are for the window.
ToDialog == {"StopThread", "ShowUnplugPlug", "ShowInstallation", "FinishInstallation"}
ToWindow == {"ShowFinished", "ShowStatus", "ShowDFU", "Exit", "DisableCancel"}

\* The steps of the worker during which it may stay for more than a second.
Busy == {"talking", "reporting", "sending", "progress", "endless"}
\* What it does with the critical section held.
Inside == {"talking", "reporting", "freeing"}
-----------------------------------------------------------------------------
(* The devices.  DpS-Visio restarts by itself when it is told to change    *)
(* mode or to program; the user unplugs it whenever he likes.              *)

Change(d, m, message) ==
    /\ changes < MaxChanges /\ ui # Gone /\ changes' = changes + 1
    /\ plugged' = [plugged EXCEPT ![d] = m]
    /\ news' = news \o message
    /\ UNCHANGED <<comm, dialog, buttons, posted, ui, status, engine, msgs, stop,
                   turn, data, fault>>

Plug(d, m) ==
    plugged[d] = "none" /\ Change(d, m, <<[is |-> "arrival", mode |-> m, dev |-> d]>>)
Unplug(d) ==
    /\ plugged[d] # "none"
    /\ Change(d, "none", <<[is |-> "removal", mode |-> plugged[d], dev |-> d]>>)
\* Some versions of Windows do not tell that the device left the HID mode.
LeaveUnseen(d) == plugged[d] = "HID" /\ Change(d, "none", <<>>)
-----------------------------------------------------------------------------
(* Dialogs.                                                                *)

\* A device plugged before the window opens is found as if it arrived then.
Init ==
    /\ \/ plugged = [d \in Device |-> "none"] /\ news = <<>>
       \/ \E d \in Device, m \in Mode :
             /\ plugged = [x \in Device |-> IF x = d THEN m ELSE "none"]
             /\ news = <<[is |-> "arrival", mode |-> m, dev |-> d]>>
    /\ changes = 0
    /\ comm = NULL /\ dialog = "Status" /\ update = FALSE /\ cancel = TRUE
    /\ popup = "none" /\ posted = <<>> /\ ui = Idle /\ status = TRUE
    /\ engine = "None" /\ saved = NULL /\ msgs = FALSE /\ stop = FALSE
    /\ worker = "none" /\ cs = "free" /\ pcl = "none" /\ reply = "none"
    /\ counter = 0 /\ left = 0 /\ refused = FALSE /\ programmed = FALSE
    /\ fault = "none"

\* ShowDialog deletes the dialog it replaces, thread or no thread; first is
\* the state in which the engine of the new one starts.
NewDialog(d, first) ==
    /\ dialog' = d /\ engine' = first
    /\ msgs' = FALSE /\ stop' = FALSE /\ popup' = "none"
    /\ cs' = "free" /\ pcl' = "none" /\ reply' = "none"
    /\ IF d \in RunningDialog
       THEN /\ worker' = "waiting" /\ saved' = DeviceName(comm)
            /\ counter' = 0 /\ left' = 0 /\ refused' = FALSE /\ programmed' = FALSE
       ELSE worker' = "none" /\ UNCHANGED data

FreesThread == Running /\ worker # "stopped"
\* What the program does from there on is not described: it does nothing.
Fault(what) ==
    /\ fault' = what /\ ui' = Gone /\ worker' = "gone"
    /\ UNCHANGED <<world, comm, dialog, buttons, posted, status, engine, msgs, stop,
                   cs, pcl, reply, data>>

\* Nobody gets the messages for a dialog that is gone.  TypeOK has no "void": the
\* dialog that is replaced has had all of its messages.
DropDialogMessages(q) == [i \in DOMAIN q |-> IF q[i] \in ToWindow THEN q[i] ELSE "void"]

ShowStatus ==
    /\ NewDialog("Status", "None")
    /\ posted' = DropDialogMessages(Tail(posted))
    /\ update' = IF comm = NULL THEN update ELSE comm.mode = "HID"
    /\ UNCHANGED cancel
ShowFinished ==
    /\ NewDialog("Finished", "None")
    /\ posted' = DropDialogMessages(Tail(posted))
    /\ cancel' = TRUE /\ UNCHANGED update
ShowDFU ==
    /\ IF comm = NULL
       THEN NewDialog("None", "None") /\ posted' = Append(DropDialogMessages(Tail(posted)), "ShowStatus")
       ELSE NewDialog("DFURunning", "DFU_StartErase") /\ posted' = DropDialogMessages(Tail(posted))
    /\ UNCHANGED <<update, cancel>>

OnShowDialogToChange ==
    /\ ui = Idle /\ posted # <<>>
    /\ Head(posted) \in {"ShowStatus", "ShowFinished", "ShowDFU"}
    /\ IF FreesThread THEN Fault("freedDialog")
       ELSE /\ CASE Head(posted) = "ShowStatus" -> ShowStatus
                 [] Head(posted) = "ShowFinished" -> ShowFinished
                 [] OTHER -> ShowDFU
            /\ UNCHANGED <<world, comm, ui, status, fault>>

NewUpgrade == IF OnlyDFU(comm) THEN NewDialog("DFURunning", "HID_StartDFU_SendCmd")
                               ELSE NewDialog("HIDRunning", "StartFirmwareUploadSession")

\* The button stays enabled when the device goes.
OnBnClickedUpdate ==
    /\ ui = Idle /\ dialog = "Status" /\ update
    /\ IF comm = NULL THEN Fault("nullComm")
       ELSE /\ NewUpgrade
            /\ update' = FALSE
            /\ UNCHANGED <<world, comm, cancel, posted, ui, status, fault>>

\* For a device that has the available version, or that is in DFU mode.
OnBnClickedForceUpdate ==
    /\ ui = Idle /\ dialog = "Status" /\ comm # NULL
    /\ IF comm.mode = "HID" THEN NewUpgrade ELSE NewDialog("DFURunning", "DFU_StartErase")
    /\ UNCHANGED <<world, comm, update, cancel, posted, ui, status, fault>>
-----------------------------------------------------------------------------
(* Stopping the thread: the window waits a second for it, then goes on.    *)

Stop(then) ==
    /\ stop' = TRUE /\ ui' = <<"stopping", then>>
    /\ UNCHANGED <<world, comm, dialog, buttons, status, engine, msgs, turn, data, fault>>

OnBnClickedCancel ==
    /\ ui = Idle /\ cancel /\ dialog # "Closed"
    /\ Stop("exit") /\ UNCHANGED posted
OnExit ==
    /\ ui = Idle /\ posted # <<>> /\ Head(posted) = "Exit"
    /\ Stop("exit") /\ posted' = Tail(posted)
OnThreadFinished ==
    /\ ui = Idle /\ posted # <<>> /\ Head(posted) = "StopThread"
    /\ Stop("finish") /\ posted' = Tail(posted)

\* The wait without the stop it is for, and the wait that never gives up.
StoppedNoStop ==
    ui[1] = "stopping" /\ (~Running \/ ui[2] = "finish" \/ worker \in Busy \cup {"stopped"})
StoppedNoGiveUp == ui[1] = "stopping" /\ (~Running \/ worker = "stopped")
Stopped ==
    ui[1] = "stopping" /\ (~Running \/ worker = "stopped" \/ worker \in Busy)

AfterStop ==
    /\ Stopped
    /\ IF ui[2] = "exit" /\ FreesThread THEN Fault("freedDialog")
       ELSE /\ ui' = Idle
            /\ dialog' = IF ui[2] = "exit" THEN "Closed" ELSE dialog
            /\ posted' = CASE ui[2] = "exit" -> <<>>
                           [] ui[2] = "finish" -> Append(posted, "ShowFinished")
                           [] OTHER -> Append(posted, "Exit")
            /\ UNCHANGED <<world, comm, buttons, status, engine, msgs, stop, turn,
                           data, fault>>

\* The thread finds its stop event set.
EndThread ==
    /\ worker = "waiting" /\ stop /\ worker' = "stopped"
    /\ UNCHANGED <<world, comm, dialog, buttons, posted, ui, status, engine, msgs,
                   stop, cs, pcl, reply, data, fault>>
-----------------------------------------------------------------------------
(* Device events.  OnDeviceChange sets the communication object, then tells *)
(* the dialog; a running dialog needs its critical section for that.  On a  *)
(* removal the object goes last, outside the critical section.              *)

Opened(n) ==
    [mode |-> n.mode, dev |-> IF plugged[n.dev] = n.mode THEN n.dev ELSE NULL]

\* A second HID device is refused with a message box, a second DFU one ignored.
_Connect(n) ==
    /\ comm = NULL /\ comm' = Opened(n)
    /\ ui' = IF Running THEN <<"connected", n.mode>> ELSE Idle
    /\ update' = IF dialog = "Status" THEN n.mode = "HID" ELSE update
    \* The Status dialog offers to recover a device found in DFU mode.
    /\ \/ UNCHANGED posted
       \/ dialog = "Status" /\ n.mode = "DFU" /\ posted' = Append(posted, "ShowDFU")
    /\ UNCHANGED pcl

\* _Disconnect that frees the object, then tells the dialog.
_DisconnectFreeFirst(n) ==
    /\ comm = [mode |-> n.mode, dev |-> n.dev]
    /\ comm' = NULL
    /\ pcl' = IF pcl = "live" THEN "freed" ELSE pcl
    /\ ui' = IF Running THEN <<"disconnected", n.mode>> ELSE Idle
    /\ UNCHANGED <<update, posted>>
_Disconnect(n) ==
    /\ comm = [mode |-> n.mode, dev |-> n.dev]
    /\ IF Running THEN ui' = <<"disconnected", n.mode>> /\ UNCHANGED comm
                  ELSE comm' = NULL /\ UNCHANGED ui
    /\ UNCHANGED <<update, posted, pcl>>

OnDeviceChange ==
    /\ ui = Idle /\ dialog # "Closed" /\ news # <<>>
    /\ news' = Tail(news)
    /\ LET n == Head(news)
           concerned == IF n.is = "arrival" THEN comm = NULL
                        ELSE comm = [mode |-> n.mode, dev |-> n.dev]
       IN  IF ~concerned THEN UNCHANGED <<comm, ui, update, posted, pcl>>
           ELSE IF n.is = "arrival" THEN _Connect(n) ELSE _Disconnect(n)
    /\ UNCHANGED <<plugged, changes, dialog, cancel, popup, status, engine, msgs, stop,
                   worker, cs, reply, data, fault>>

\* delete m_pclDpSVisioCommunication, after the dialog was told.
DeleteComm ==
    /\ ui[1] = "deleting" /\ ui' = Idle
    /\ comm' = NULL
    /\ pcl' = IF pcl = "live" THEN "freed" ELSE pcl
    /\ UNCHANGED <<world, dialog, buttons, posted, status, engine, msgs, stop,
                   worker, cs, reply, data, fault>>

\* OnTimer prints the messages the worker left.
OnTimer ==
    /\ ui = Idle /\ Running /\ msgs
    /\ ui' = <<"timer", "">>
    /\ UNCHANGED <<world, comm, dialog, buttons, posted, status, engine, msgs, stop,
                   turn, data, fault>>
PrintMessages ==
    /\ ui[1] = "timer" /\ cs = "free"
    /\ ui' = Idle /\ msgs' = FALSE
    /\ UNCHANGED <<world, comm, dialog, buttons, posted, status, engine, stop,
                   turn, data, fault>>

DisableCancel ==
    /\ ui = Idle /\ posted # <<>> /\ Head(posted) = "DisableCancel"
    /\ cancel' = FALSE /\ posted' = Tail(posted)
    /\ UNCHANGED <<world, comm, dialog, update, popup, ui, status, engine, msgs, stop,
                   turn, data, fault>>
-----------------------------------------------------------------------------
(* Turns of the worker: what _UpgradeProgess does alike in both engines.   *)

Turn(states) ==
    /\ worker = "waiting" /\ ~stop /\ cs = "free"
    /\ engine \in states

\* The window takes what the worker sends to a control of the dialog.
WindowAnswers == ui = Idle

NeedComm(states) == Turn(states) /\ comm = NULL /\ Fault("nullComm")

\* The states that talk to the device start with a look at its mode; in the
\* first ones the state that _SetUpgradeError returns is not kept.
FirstTalks == {"StartFirmwareUploadSession", "HID_StartDFU_SendCmd"}
WrongMode(states, mode, announced) ==
    /\ Turn(states) /\ comm # NULL /\ comm.mode # mode
    /\ status' = FALSE
    /\ engine' = IF engine \in FirstTalks THEN engine ELSE "UpdateError"
    /\ msgs' = (msgs \/ engine \in announced)
    /\ UNCHANGED <<world, comm, dialog, buttons, posted, ui, stop, turn, data, fault>>

StartTalking(states, mode, announced) ==
    /\ Turn(states) /\ comm # NULL /\ comm.mode = mode
    /\ worker' = "talking" /\ cs' = "worker" /\ pcl' = "live"
    /\ msgs' = (msgs \/ engine \in announced)
    /\ UNCHANGED <<world, comm, dialog, buttons, posted, ui, status, engine, stop,
                   reply, data, fault>>

\* End of a turn that held the critical section.
EndTurn == worker' = "waiting" /\ cs' = "free" /\ pcl' = "none" /\ reply' = "none"

\* The answer goes through a control of the dialog before the turn ends.
Report(answer) ==
    /\ worker' = "reporting" /\ reply' = answer
    /\ UNCHANGED <<cs, pcl, engine, status, posted, data>>

\* _SetUpgradeError, first one that leaves the status of the upgrade alone.
FailStatusKept == engine' = "UpdateError" /\ UNCHANGED status
Fail == engine' = "UpdateError" /\ status' = FALSE

UseFreedComm ==
    /\ worker \in {"talking", "sending"} /\ pcl = "freed"
    /\ Fault("freedComm")

\* The end of the upgrade, announced to the window (or, first, not).
SetUpgradeEndQuiet(s) ==
    status' = s /\ engine' = "WaitingToBeKilled" /\ UNCHANGED posted
SetUpgradeEnd(s) ==
    /\ status' = s
    /\ engine' = "WaitingToBeKilled" /\ posted' = Append(posted, "StopThread")

EndWithError ==
    /\ Turn({"DeviceDisconnected", "UpdateError"})
    /\ SetUpgradeEnd(IF engine = "DeviceDisconnected" THEN FALSE ELSE status)
    /\ UNCHANGED <<world, comm, dialog, buttons, ui, msgs, stop, turn, data, fault>>

\* All three outcomes end the upgrade: there is no break after the test.
VerifyStates == {"VerifyDevice", "HID_VerifyDevice"}
VerifyDevice ==
    /\ Turn(VerifyStates) /\ comm # NULL
    /\ SetUpgradeEnd(IF comm.mode # "HID" THEN FALSE
                     ELSE IF DeviceName(comm) = saved THEN TRUE ELSE status)
    /\ msgs' = (msgs \/ (comm.mode = "HID" /\ DeviceName(comm) # saved))
    /\ UNCHANGED <<world, comm, dialog, buttons, ui, stop, turn, data, fault>>
=============================================================================
