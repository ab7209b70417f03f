-------------------------- MODULE DpSVisioUpgrade ---------------------------
(***************************************************************************)
(* The upgrade as a whole: the window, the dialog it shows, the worker of  *)
(* that dialog and the devices.                                            *)
(***************************************************************************)
EXTENDS HIDUpgrade, DFUUpgrade

OnDpSVisioConnected ==
    /\ ui[1] = "connected" /\ cs = "free"
    /\ ui' = Idle
    /\ \/ InHID /\ HIDOnDpSVisioConnected /\ UNCHANGED popup
       \/ InDFU /\ DFUOnDpSVisioConnected(ui[2])
    /\ UNCHANGED <<world, comm, dialog, update, cancel, posted, status, msgs, stop, turn,
                   data, fault>>

OnDpSVisioDisconnected ==
    /\ ui[1] = "disconnected" /\ cs = "free"
    /\ ui' = <<"deleting", "">>
    /\ \/ InHID /\ HIDOnDpSVisioDisconnected /\ UNCHANGED counter
       \/ InDFU /\ DFUOnDpSVisioDisconnected(ui[2])
    /\ UNCHANGED <<world, comm, dialog, buttons, posted, status, msgs, stop, turn,
                   saved, left, refused, programmed, fault>>

\* The state engines do not test that there is a communication object.
UseNullComm == NeedComm(HIDNeeds \cup DFUNeeds \cup VerifyStates)

Devices ==
    \E d \in Device : (\E m \in Mode : Plug(d, m)) \/ Unplug(d) \/ LeaveUnseen(d)

User ==
    \/ OnBnClickedUpdate \/ OnBnClickedForceUpdate \/ OnBnClickedCancel
    \/ UnplugPlugCancel \/ InstallationOK

\* What the window thread does without being asked again by the user.
Window ==
    \/ OnDeviceChange \/ OnDpSVisioConnected \/ OnDpSVisioDisconnected \/ DeleteComm
    \/ PrintMessages \/ OnShowDialogToChange \/ OnThreadFinished \/ OnExit \/ AfterStop
    \/ DisableCancel \/ DFUWindow

Worker ==
    \/ HIDTurn \/ DFUTurn \/ VerifyDevice \/ EndWithError \/ EndThread
    \/ UseNullComm \/ UseFreedComm

Next == Devices \/ User \/ OnTimer \/ Window \/ Worker

Spec == Init /\ [][Next]_vars

\* Windows schedules both threads and hands out every message.
Fairness == WF_vars(Window) /\ WF_vars(Worker)
FairSpec == Spec /\ Fairness
-----------------------------------------------------------------------------
Activity ==
    {Idle, Gone, <<"timer", "">>, <<"deleting", "">>}
    \cup ({"connected", "disconnected"} \X Mode)
    \cup ({"message"} \X (ForDFU \cup {"StopUnplugPlug"}))
    \cup ({"stopping"} \X {"exit", "finish", "installation"})
TypeOK ==
    /\ plugged \in [Device -> Mode \cup {"none"}]
    /\ news \in Seq([is : {"arrival", "removal"}, mode : Mode, dev : Device])
    /\ changes \in 0 .. MaxChanges
    /\ comm \in Comm \cup {NULL}
    /\ dialog \in RunningDialog \cup {"Status", "Finished", "None", "Closed"}
    /\ update \in BOOLEAN /\ cancel \in BOOLEAN
    /\ popup \in {"none", "unplug", "install", "installOK"}
    /\ posted \in Seq(ToDialog \cup ToWindow)
    /\ ui \in Activity
    /\ status \in BOOLEAN
    /\ engine \in HIDStates \cup DFUStates \cup {"None"}
    /\ saved \in Comm \cup {NULL}
    /\ msgs \in BOOLEAN /\ stop \in BOOLEAN
    /\ worker \in Busy \cup {"none", "gone", "waiting", "freeing", "reenter", "stopped"}
    /\ cs \in {"free", "worker"}
    /\ pcl \in {"none", "live", "freed"}
    /\ reply \in {"none", "error", "busy", "done", "detach"}
    /\ counter \in 0 .. WaitUSBEventTimeout
    /\ left \in 0 .. PacketCount
    /\ refused \in BOOLEAN /\ programmed \in BOOLEAN
    /\ fault \in {"none", "nullComm", "freedComm", "freedDialog"}

\* The window never shows a success unless the device has accepted the program
\* in this upgrade, whatever was unplugged, answered or overwritten before.
SuccessIsProgrammed == dialog = "Finished" /\ status => programmed

\* Before the packets, and throughout the DFU upgrade, the object a turn talks
\* with in the critical section is not freed by a device event: the event has
\* to tell the dialog first, and waits.
TalksToLiveDevice ==
    worker = "talking" /\ engine \notin {"SendCRC", "StartUpgrade"} => pcl = "live"

\* A dialog that reached its end by itself is not deleted under its thread.
RegularEndIsClean ==
    ~(fault = "freedDialog" /\ posted # <<>> /\ Head(posted) = "ShowFinished")

\* In a turn that found an object, no use of NULL: NULL is met by a click on a
\* button left enabled, or after packets that outlived their device.
NullOnlyAfterPackets ==
    fault = "nullComm" => dialog = "Status" \/ engine \in {"SendCRC", "StartUpgrade"}

\* The window waits for the critical section in the timer and in its handlers of
\* devices and messages.  It gets it, during the packets as well, unless the
\* worker holds it while it writes an answer in the dialog: then both wait.
WaitsForCS == ui[1] \in {"timer", "connected", "disconnected", "message"}
OnlyReportsBlockTheWindow == WaitsForCS ~> (~WaitsForCS \/ worker = "reporting")

\* Once the engine waits to be killed, the running dialog goes.
EndIsShown == engine = "WaitingToBeKilled" ~> (~Running \/ ui = Gone)

\* Stop never blocks the window for good, even when the thread it waits for
\* waits for the window or never ends.
StopEnds == ui[1] = "stopping" ~> ui[1] # "stopping"

\* "The firmware has well been sent to the DpS-Visio."
FirmwareWellSent == engine = "SendCRC" => ~refused
=============================================================================
