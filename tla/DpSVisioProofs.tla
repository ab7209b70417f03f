--------------------------- MODULE DpSVisioProofs ---------------------------
(***************************************************************************)
(* What holds of the upgrade for any set of devices, any number of plugs   *)
(* and unplugs, any firmware length and any timeout: the turns of the      *)
(* worker before the packets, and all those of a DFU upgrade, work with an *)
(* object that is there.                                                   *)
(*                                                                         *)
(* The proof follows the two ways in which the object goes.  The window    *)
(* frees it outside the critical section, but tells the dialog first, in   *)
(* the critical section: between the two the engine is in no state that    *)
(* needs the object (Deleting), and no turn of the worker brings it back   *)
(* to one.  The worker frees it itself when it gives up waiting for the    *)
(* device to leave, and it does so once the engine has left the states     *)
(* that need it (Detaching).                                               *)
(*                                                                         *)
(* The second half proves what the user is promised: types, that a success *)
(* is one, and that a dialog which ends by itself is not deleted under its *)
(* thread.  It follows the messages: those that show a dialog come before  *)
(* it runs, those of the dialog before the one that ends it, and from the  *)
(* first message of its end the engine stays in states whose turns are     *)
(* short (Flow).                                                           *)
(*                                                                         *)
(* The last part is about waiting: whoever the window or the worker waits  *)
(* for has a step to take, and not many of them.                           *)
(***************************************************************************)
EXTENDS DpSVisioUpgrade, SequenceTheorems, TLAPS

\* The states that use the object, those that follow the packets excepted.
AfterPackets == {"SendCRC", "StartUpgrade"}
Talks == HIDTalks \cup JumpTalks \cup DFUTalks
Needy == (HIDNeeds \cup DFUNeeds \cup VerifyStates) \ AfterPackets

News == [is : {"arrival", "removal"}, mode : Mode, dev : Device]
NewsOK == plugged \in [Device -> Mode \cup {"none"}] /\ news \in Seq(News)

\* After a fault nothing happens.
Frozen == fault # "none" => ui = Gone /\ worker = "gone"

\* A turn that needs the critical section has it.
Excluded == worker \in Inside => cs = "worker"

\* A turn that talks is in a state that does, and reports from the same one.
Talking == worker = "talking" => engine \in Talks
Reporting == worker = "reporting" /\ reply = "done" => engine \in DFUTalks

\* The window will free the object: no state needs it any more.
Deleting ==
    ui[1] = "deleting" =>
        /\ engine \notin Needy
        /\ engine = "HID_StartDFU_WaitHIDDetach" => comm = NULL \/ comm.mode # "HID"
Disconnected == ui[1] = "disconnected" => comm = NULL \/ comm.mode = ui[2]

\* The worker will.
Detaching ==
    /\ worker = "reporting" /\ reply = "detach" =>
           engine = "HID_StartDFU_WaitHIDDetach" /\ comm # NULL /\ comm.mode = "HID"
           /\ ui[1] # "deleting"
    /\ worker = "freeing" =>
           engine = "HID_StartDFU_WaitDFUAttach" /\ comm # NULL /\ comm.mode = "HID"
           /\ ui[1] # "deleting"

\* A device was announced: its object is there, or the worker has freed it.
Connected ==
    ui[1] = "connected" =>
        IF comm = NULL
        THEN /\ ui[2] = "HID"
             /\ engine \notin {"WaitHIDAttach", "DFU_StartHDI_WaitHIDAttach"}
        ELSE comm.mode = ui[2]

NoObjectNeeded == comm = NULL => engine \notin Needy
NotRunning ==
    dialog \notin RunningDialog \cup {"Closed"} =>
        engine \notin Needy /\ worker \notin Inside
Live == worker = "talking" /\ engine \in Needy => pcl = "live"

IInv ==
    /\ NewsOK /\ Frozen /\ Excluded /\ Talking /\ Reporting
    /\ Deleting /\ Disconnected /\ Detaching /\ Connected
    /\ NoObjectNeeded /\ NotRunning /\ Live /\ NullOnlyAfterPackets

-----------------------------------------------------------------------------
LEMMA Kinds ==
    /\ Idle[1] = "idle" /\ Gone[1] = "gone"
    /\ \A k, x : <<k, x>>[1] = k /\ <<k, x>>[2] = x
BY DEF Idle, Gone

\* Where the answers of the device lead.
Later == {"HID_StartDFU_WaitHIDDetach", "WaitHIDAttach", "DFU_StartHDI_WaitHIDAttach"}
LEMMA Nexts ==
    /\ \A e \in AfterPackets : HIDNext[e] \notin Needy \cup Later
    /\ \A e \in HIDTalks : HIDNext[e] \notin Later
    /\ \A e \in DFUTalks : DFUNext[e] \notin Later
BY DEF Needy, AfterPackets, Later, HIDNext, DFUNext, HIDNeeds, DFUNeeds, VerifyStates,
       HIDTalks, JumpTalks, DFUTalks

\* What the user starts.
LEMMA UserStep ==
    ASSUME IInv, User \/ OnTimer PROVE IInv'
<1> USE Kinds, Nexts, DpSVisioAssumption
    DEF IInv, NewsOK, Frozen, Excluded, Talking, Reporting, Deleting, Disconnected,
        Detaching, Connected, NoObjectNeeded, NotRunning, Live,
        NullOnlyAfterPackets, RunningDialog,
        Inside, Needy, Later, Talks, HIDNeeds, DFUNeeds, VerifyStates, HIDTalks,
        JumpTalks, DFUTalks, AfterPackets, vars, world, buttons, turn, data, Idle, Gone
<1>1. CASE OnBnClickedUpdate
  BY <1>1 DEF OnBnClickedUpdate, NewUpgrade, Fault, NewDialog, DeviceName
<1>2. CASE OnBnClickedForceUpdate
  BY <1>2 DEF OnBnClickedForceUpdate, NewUpgrade, NewDialog, DeviceName
<1>3. CASE OnBnClickedCancel
  BY <1>3 DEF OnBnClickedCancel, Stop
<1>4. CASE UnplugPlugCancel
  BY <1>4 DEF UnplugPlugCancel
<1>5. CASE InstallationOK
  BY <1>5 DEF InstallationOK
<1>6. CASE OnTimer
  BY <1>6 DEF OnTimer
<1> QED BY <1>1, <1>2, <1>3, <1>4, <1>5, <1>6 DEF User

\* What the window does next.
LEMMA WindowStep ==
    ASSUME IInv, Window, ~OnDeviceChange PROVE IInv'
<1> USE Kinds, Nexts, DpSVisioAssumption
    DEF IInv, NewsOK, Frozen, Excluded, Talking, Reporting, Deleting, Disconnected,
        Detaching, Connected, NoObjectNeeded, NotRunning, Live,
        NullOnlyAfterPackets, RunningDialog,
        Inside, Needy, Later, Talks, HIDNeeds, DFUNeeds, VerifyStates, HIDTalks,
        JumpTalks, DFUTalks, AfterPackets, vars, world, buttons, turn, data, Idle, Gone
<1>1. CASE OnDpSVisioConnected
  BY <1>1 DEF OnDpSVisioConnected, HIDOnDpSVisioConnected, DFUOnDpSVisioConnected,
              InHID, InDFU
<1>2. CASE OnDpSVisioDisconnected
  BY <1>2 DEF OnDpSVisioDisconnected, HIDOnDpSVisioDisconnected,
              DFUOnDpSVisioDisconnected
<1>3. CASE DeleteComm
  BY <1>3 DEF DeleteComm
<1>4. CASE PrintMessages
  BY <1>4 DEF PrintMessages
<1>5. CASE OnShowDialogToChange
  BY <1>5 DEF OnShowDialogToChange, ShowStatus, ShowFinished, ShowDFU, Fault,
              NewDialog, DeviceName
<1>6. CASE OnThreadFinished
  BY <1>6 DEF OnThreadFinished, Stop
<1>7. CASE OnExit
  BY <1>7 DEF OnExit, Stop
<1>8. CASE AfterStop
  BY <1>8 DEF AfterStop, Stopped, Fault
<1>9. CASE DisableCancel
  BY <1>9 DEF DisableCancel
<1>10. CASE TakeMessage
  BY <1>10 DEF TakeMessage
<1>11. CASE HandleMessage
  <2>1. ui' = Idle \/ ui' = <<"stopping", "installation">>
    BY <1>11 DEF HandleMessage, ShowPopup, Fail
  <2>2. ui'[1] \in {"idle", "stopping"}
    <3>1. CASE ui' = Idle  BY ONLY <3>1 DEF Idle
    <3>2. CASE ui' = <<"stopping", "installation">>  BY ONLY <3>2
    <3> QED BY <2>1, <3>1, <3>2
  <2>3. /\ worker \notin Inside /\ fault = "none"
        /\ UNCHANGED <<comm, worker, cs, reply, pcl, dialog, fault>>
    BY <1>11 DEF HandleMessage
  <2>4. engine' \in {"DFU_DlgUnplugPlugLaunched", "DFU_DlgDFUInstallationLaunched",
                     "WaitingToBeKilled", "UpdateError"}
    BY <1>11 DEF HandleMessage, ShowPopup, Fail
  <2>5. NewsOK'  BY <1>11 DEF HandleMessage
  <2> QED BY <2>2, <2>3, <2>4, <2>5
<1> QED BY <1>1, <1>2, <1>3, <1>4, <1>5, <1>6, <1>7, <1>8, <1>9, <1>10, <1>11
       DEF Window, DFUWindow

\* The turns of the HID upgrade.
LEMMA HIDStep ==
    ASSUME IInv, HIDTurn PROVE IInv'
<1> USE Kinds, Nexts, DpSVisioAssumption
    DEF IInv, NewsOK, Frozen, Excluded, Talking, Reporting, Deleting, Disconnected,
        Detaching, Connected, NoObjectNeeded, NotRunning, Live,
        NullOnlyAfterPackets, RunningDialog,
        Inside, Needy, Later, Talks, HIDNeeds, DFUNeeds, VerifyStates, HIDTalks,
        JumpTalks, DFUTalks, AfterPackets, vars, world, buttons, turn, data, Idle, Gone
<1>1. CASE HIDStartTalking
  BY <1>1 DEF HIDStartTalking, StartTalking, Turn, InHID
<1>2. CASE HIDWrongMode
  BY <1>2 DEF HIDWrongMode, WrongMode, Turn
<1>3. CASE HIDReported
  BY <1>3 DEF HIDReported, Fail, EndTurn
<1>4. ASSUME NEW a \in Answers, HIDAnswer(a) PROVE IInv'
  BY <1>4 DEF HIDAnswer, Answers, EndTurn, Fail, Report
<1>5. ASSUME NEW a \in Answers, SendOnePacket(a) PROVE IInv'
  BY <1>5 DEF SendOnePacket
<1>6. CASE StartPackets
  BY <1>6 DEF StartPackets, Turn
<1>7. CASE PacketError
  BY <1>7 DEF PacketError, Fail
<1>8. CASE ShowProgress
  BY <1>8 DEF ShowProgress
<1>9. CASE PacketsSent
  BY <1>9 DEF PacketsSent, EndTurn
<1> QED BY <1>1, <1>2, <1>3, <1>4, <1>5, <1>6, <1>7, <1>8, <1>9 DEF HIDTurn

\* The turns of the DFU upgrade.
LEMMA DFUStep ==
    ASSUME IInv, DFUTurn PROVE IInv'
<1> USE Kinds, Nexts, DpSVisioAssumption
    DEF IInv, NewsOK, Frozen, Excluded, Talking, Reporting, Deleting, Disconnected,
        Detaching, Connected, NoObjectNeeded, NotRunning, Live,
        NullOnlyAfterPackets, RunningDialog,
        Inside, Needy, Later, Talks, HIDNeeds, DFUNeeds, VerifyStates, HIDTalks,
        JumpTalks, DFUTalks, AfterPackets, vars, world, buttons, turn, data, Idle, Gone
<1>1. CASE DFUStartTalking
  BY <1>1 DEF DFUStartTalking, StartTalking, Turn, ModeNeeded
<1>2. CASE DFUWrongMode
  BY <1>2 DEF DFUWrongMode, WrongMode, Turn, ModeNeeded
<1>3. CASE DFUReported
  BY <1>3 DEF DFUReported, Fail, EndTurn
<1>4. ASSUME NEW a \in {"ack", "nack", "silence"}, JumpAnswer(a) PROVE IInv'
  BY <1>4 DEF JumpAnswer, EndTurn, Fail, Report
<1>5. ASSUME NEW a \in {"error", "busy", "done"}, DFUAnswer(a) PROVE IInv'
  BY <1>5 DEF DFUAnswer, EndTurn, Fail, Report
<1>6. CASE WaitHIDDetach
  BY <1>6 DEF WaitHIDDetach, Turn, InDFU
<1>7. CASE FreeComm
  BY <1>7 DEF FreeComm, EndTurn
<1>8. CASE WaitDFUAttach
  BY <1>8 DEF WaitDFUAttach, Turn
<1>9. CASE DlgDFUInstallationLaunched
  BY <1>9 DEF DlgDFUInstallationLaunched, Turn
<1>10. CASE DlgUnplugPlugLaunched
  BY <1>10 DEF DlgUnplugPlugLaunched, Turn
<1> QED BY <1>1, <1>2, <1>3, <1>4, <1>5, <1>6, <1>7, <1>8, <1>9, <1>10 DEF DFUTurn

\* The turns that both have.
LEMMA OtherStep ==
    ASSUME IInv,
           VerifyDevice \/ EndWithError \/ EndThread \/ UseNullComm \/ UseFreedComm
    PROVE  IInv'
<1> USE Kinds, Nexts, DpSVisioAssumption
    DEF IInv, NewsOK, Frozen, Excluded, Talking, Reporting, Deleting, Disconnected,
        Detaching, Connected, NoObjectNeeded, NotRunning, Live,
        NullOnlyAfterPackets, RunningDialog,
        Inside, Needy, Later, Talks, HIDNeeds, DFUNeeds, VerifyStates, HIDTalks,
        JumpTalks, DFUTalks, AfterPackets, vars, world, buttons, turn, data, Idle, Gone
<1>1. CASE VerifyDevice
  BY <1>1 DEF VerifyDevice, Turn, SetUpgradeEnd
<1>2. CASE EndWithError
  BY <1>2 DEF EndWithError, Turn, SetUpgradeEnd
<1>3. CASE EndThread
  BY <1>3 DEF EndThread
<1>4. CASE UseNullComm
  BY <1>4 DEF UseNullComm, NeedComm, Turn, Fault
<1>5. CASE UseFreedComm
  BY <1>5 DEF UseFreedComm, Fault
<1> QED BY <1>1, <1>2, <1>3, <1>4, <1>5

LEMMA OneMessage ==
    ASSUME NEW S, NEW x \in S PROVE <<x>> \in Seq(S)
OBVIOUS

\* A change of the devices, and the message that may tell of it.
LEMMA DeviceChanges ==
    ASSUME NewsOK, Devices
    PROVE  \E d \in Device, m \in Mode \cup {"none"}, q \in Seq(News) : Change(d, m, q)
<1> USE DEF NewsOK
<1>1. PICK d \in Device : (\E m \in Mode : Plug(d, m)) \/ Unplug(d) \/ LeaveUnseen(d)
  BY DEF Devices
<1>2. CASE \E m \in Mode : Plug(d, m)
  <2>1. PICK m \in Mode : Plug(d, m)  BY <1>2
  <2>2. [is |-> "arrival", mode |-> m, dev |-> d] \in News  BY DEF News
  <2>3. <<[is |-> "arrival", mode |-> m, dev |-> d]>> \in Seq(News)  BY <2>2, OneMessage
  <2> QED BY <2>1, <2>3 DEF Plug
<1>3. CASE Unplug(d)
  <2>1. plugged[d] \in Mode  BY <1>3 DEF Unplug
  <2>2. [is |-> "removal", mode |-> plugged[d], dev |-> d] \in News
    BY <2>1 DEF News
  <2>3. <<[is |-> "removal", mode |-> plugged[d], dev |-> d]>> \in Seq(News)
    BY <2>2, OneMessage
  <2> QED BY <1>3, <2>3 DEF Unplug
<1>4. CASE LeaveUnseen(d)
  <2>1. << >> \in Seq(News)  BY EmptySeq
  <2> QED BY <1>4, <2>1 DEF LeaveUnseen
<1> QED BY <1>1, <1>2, <1>3, <1>4

\* The devices, and the messages that tell of them.
LEMMA DevicesStep ==
    ASSUME IInv, Devices PROVE IInv'
<1> USE Kinds, DpSVisioAssumption
    DEF IInv, NewsOK, Frozen, Excluded, Talking, Reporting, Deleting, Disconnected,
        Detaching, Connected, NoObjectNeeded, NotRunning, Live,
        NullOnlyAfterPackets, RunningDialog,
        vars, world, buttons, turn, data, Idle, Gone
<1>1. PICK d \in Device, m \in Mode \cup {"none"}, q \in Seq(News) : Change(d, m, q)
  BY DeviceChanges
<1>2. news \o q \in Seq(News)  BY <1>1, ConcatProperties
<1>3. NewsOK'  BY <1>1, <1>2 DEF Change
<1> QED BY <1>1, <1>3 DEF Change, Inside, Talks, Needy

LEMMA OnDeviceChangeStep ==
    ASSUME IInv, OnDeviceChange PROVE IInv'
<1> USE Kinds, DpSVisioAssumption
    DEF IInv, NewsOK, Frozen, Excluded, Talking, Reporting, Deleting, Disconnected,
        Detaching, Connected, NoObjectNeeded, NotRunning, Live,
        NullOnlyAfterPackets, RunningDialog,
        vars, world, buttons, turn, data, Idle, Gone
<1> DEFINE n == Head(news)
<1>1. n \in News /\ Tail(news) \in Seq(News)
  BY HeadTailProperties DEF OnDeviceChange
<1>2. Opened(n) # NULL /\ Opened(n).mode = n.mode
  <2>1. Opened(n) \in [mode : {"HID", "DFU"}, dev : Device \cup {NULL}]
    BY <1>1 DEF Opened, News, Mode
  <2> QED BY <2>1 DEF Opened
<1>3. CASE ui' = ui /\ comm' = comm
  BY <1>1, <1>3 DEF OnDeviceChange, _Connect, _Disconnect
<1>4. CASE n.is = "arrival" /\ comm = NULL
  <2>1. comm' = Opened(n) /\ ui' \in {Idle, <<"connected", n.mode>>}
    BY <1>4 DEF OnDeviceChange, _Connect
  <2>2. /\ UNCHANGED <<plugged, engine, worker, cs, reply, pcl, dialog, fault>>
        /\ fault = "none"
    BY <1>4 DEF OnDeviceChange, _Connect
  <2>3. engine \notin Needy  BY <1>4
  <2>4. NewsOK'  BY <1>1, <2>2 DEF OnDeviceChange
  <2>5. ui'[1] = "idle" \/ (ui'[1] = "connected" /\ ui'[2] = n.mode)
    <3>1. CASE ui' = Idle  BY ONLY <3>1 DEF Idle
    <3>2. CASE ui' = <<"connected", n.mode>>  BY ONLY <3>2
    <3> QED BY <2>1, <3>1, <3>2
  <2>6. Disconnected' /\ Connected' /\ Deleting'  BY <1>2, <2>1, <2>5
  <2>7. Detaching'  BY <1>4, <2>2, <2>5
  <2> QED BY <1>2, <2>1, <2>2, <2>3, <2>4, <2>6, <2>7
<1>5. CASE n.is # "arrival" /\ comm = [mode |-> n.mode, dev |-> n.dev]
  <2>1. \/ ui' = <<"disconnected", n.mode>> /\ comm' = comm
        \/ ui' = Idle /\ comm' = NULL
    BY <1>5 DEF OnDeviceChange, _Disconnect
  <2>2. /\ UNCHANGED <<plugged, engine, worker, cs, reply, pcl, dialog, fault>>
        /\ fault = "none"
    BY <1>5 DEF OnDeviceChange, _Disconnect
  <2>3. CASE ui' = <<"disconnected", n.mode>> /\ comm' = comm
    <3>1. ui'[1] = "disconnected" /\ ui'[2] = n.mode  BY ONLY <2>3
    <3> QED BY <1>1, <1>5, <2>2, <2>3, <3>1 DEF OnDeviceChange
  <2>4. CASE ui' = Idle /\ comm' = NULL
    <3>1. engine \notin Needy /\ worker \notin Inside
      BY <1>5, <2>4 DEF OnDeviceChange, _Disconnect, Running
    <3>2. ui'[1] = "idle"  BY ONLY <2>4 DEF Idle
    <3>3. NewsOK'  BY <1>1, <2>2 DEF OnDeviceChange
    <3> QED BY <2>2, <2>4, <3>1, <3>2, <3>3 DEF Inside
  <2> QED BY <2>1, <2>3, <2>4
<1> QED BY <1>1, <1>3, <1>4, <1>5 DEF OnDeviceChange

LEMMA InitIInv == Init => IInv
<1> SUFFICES ASSUME Init PROVE IInv  OBVIOUS
<1>1. NewsOK
  <2>1. CASE plugged = [d \in Device |-> "none"] /\ news = << >>
    BY <2>1 DEF NewsOK, Mode
  <2>2. CASE \E d \in Device, m \in Mode :
               /\ plugged = [x \in Device |-> IF x = d THEN m ELSE "none"]
               /\ news = <<[is |-> "arrival", mode |-> m, dev |-> d]>>
    BY <2>2 DEF NewsOK, News, Mode
  <2> QED BY <2>1, <2>2 DEF Init
<1> QED
  BY <1>1, Kinds DEF Init, IInv, Frozen, Excluded, Talking, Reporting, Deleting,
     Disconnected, Detaching, Connected, NoObjectNeeded, NotRunning, Live,
     NullOnlyAfterPackets, RunningDialog, Idle, Inside, Needy, HIDNeeds, DFUNeeds,
     VerifyStates, HIDTalks, JumpTalks, DFUTalks

LEMMA Inductive == IInv /\ [Next]_vars => IInv'
<1> SUFFICES ASSUME IInv, [Next]_vars PROVE IInv'  OBVIOUS
<1>1. CASE UNCHANGED vars
  BY <1>1 DEF IInv, NewsOK, Frozen, Excluded, Talking, Reporting, Deleting, Disconnected,
     Detaching, Connected, NoObjectNeeded, NotRunning, Live, NullOnlyAfterPackets, vars,
     world, buttons, turn, data
<1>2. CASE Next
  BY <1>2, DevicesStep, OnDeviceChangeStep, UserStep, WindowStep, HIDStep, DFUStep,
     OtherStep DEF Next, Worker, Window
<1> QED BY <1>1, <1>2

\* The invariant: the window and the worker agree about who may free the object,
\* and about the states of the engine during which it is needed.
THEOREM Invariance == Spec => []IInv
<1> QED BY InitIInv, Inductive, PTL DEF Spec

\* Before the packets, and in every turn of a DFU upgrade, the object that a turn
\* talks with under the critical section is not freed by a device that leaves
\* (OnDpSVisioDisconnected comes first, and waits).
THEOREM TalksToLive == Spec => []TalksToLiveDevice
<1>1. IInv => TalksToLiveDevice
  BY DEF IInv, Talking, Live, TalksToLiveDevice, Talks, Needy, AfterPackets, HIDNeeds,
     DFUNeeds, VerifyStates, HIDTalks, JumpTalks, DFUTalks
<1> QED BY <1>1, Invariance, PTL

\* The worker meets no NULL object but after the packets: NULL is for the click on
\* a button left enabled, and for the state SendCRC that replaced DeviceDisconnected.
THEOREM NullOnlyAfter == Spec => []NullOnlyAfterPackets
<1>1. IInv => NullOnlyAfterPackets  BY DEF IInv
<1> QED BY <1>1, Invariance, PTL

\* Only one of the two threads is in the critical section: the window enters it
\* (in one step) when no turn of the worker is inside.
THEOREM WindowExcluded ==
    Spec => [][(OnDpSVisioConnected \/ OnDpSVisioDisconnected \/ HandleMessage
                \/ PrintMessages) => worker \notin Inside]_vars
<1>1. ASSUME IInv, [Next]_vars
      PROVE  (OnDpSVisioConnected \/ OnDpSVisioDisconnected \/ HandleMessage
              \/ PrintMessages) => worker \notin Inside
  BY <1>1 DEF IInv, Excluded, OnDpSVisioConnected, OnDpSVisioDisconnected, HandleMessage,
     PrintMessages
<1> QED BY <1>1, Invariance, PTL DEF Spec
-----------------------------------------------------------------------------
(* The messages.  Early ones show a running dialog or the status, late ones *)
(* come from a running dialog or follow its end.                           *)

Message == ToDialog \cup ToWindow
Early == {"ShowDFU", "ShowStatus"}
Late == ToDialog \cup {"ShowFinished", "Exit"}
Pending(q) == {q[i] : i \in 1 .. Len(q)}
Ordered(q) ==
    \A i, j \in 1 .. Len(q) :
        /\ q[i] \in Early /\ q[j] \in Late => i < j
        /\ q[i] \in ToDialog /\ q[j] = "ShowFinished" => i < j
Has(m) == m \in Pending(posted)

\* Once a dialog runs its engine stays in its own states.
OwnStates == /\ InHID => engine \in HIDStates
             /\ InDFU => engine \in DFUStates
Sending == worker \in {"sending", "progress"} => left \in 1 .. PacketCount

\* Early messages come before the dialog runs, and are handled before it stops;
\* those it gets are handled before it is replaced.
EarlyFirst ==
    /\ Ordered(posted)
    /\ dialog \in {"Status", "None"} => Pending(posted) \subseteq Early
    /\ dialog \in {"Finished", "Closed"} =>
          Pending(posted) \cap (Early \cup ToDialog) = {}
    /\ Running /\ stop =>
          (ui[1] = "stopping" /\ ui[2] = "exit") \/ Pending(posted) \cap Early = {}
    /\ ui[1] = "message" /\ ui[2] = "FinishInstallation" =>
          Pending(posted) \cap Early = {}

\* The thread of a dialog.
Thread ==
    /\ ~Running => worker \in {"none", "stopped"} /\ ui[1] # "message"
    /\ Running /\ worker = "stopped" => stop
    /\ ui[1] = "stopping" => stop /\ (Running \/ ui[2] = "exit")

\* From the end of an upgrade on no turn of the thread stays for long, and the
\* dialog is replaced once its thread has stopped.
EndStates ==
    {"WaitingToBeKilled", "DeviceDisconnected", "UpdateError", "VerifyDevice",
     "HID_VerifyDevice", "WaitHIDDetach", "WaitHIDAttach",
     "DFU_Wait_DlgDFUInstallationLaunch", "DFU_DlgDFUInstallationLaunched",
     "DFU_Wait_DlgDFUInstallationDestroy", "DFU_Wait_DlgUnplugPlugLaunch",
     "DFU_DlgUnplugPlugLaunched", "DFU_StartHDI_WaitDFUDetach",
     "DFU_StartHDI_WaitHIDAttach"}
Ending ==
    Has("StopThread") \/ Has("ShowFinished") \/ (ui[1] = "stopping" /\ ui[2] = "finish")
Ends ==
    /\ Running /\ Ending => engine \in EndStates /\ worker \in {"waiting", "stopped"}
    /\ Running /\ Has("ShowFinished") => worker = "stopped"

\* What the engine knows of the device.
AfterProgramming ==
    {"WaitHIDDetach", "WaitHIDAttach", "VerifyDevice", "DFU_Wait_DlgUnplugPlugLaunch",
     "DFU_DlgUnplugPlugLaunched", "DFU_StartHDI_WaitDFUDetach",
     "DFU_StartHDI_WaitHIDAttach", "HID_VerifyDevice"}
Programming ==
    /\ Running /\ engine \in AfterProgramming => programmed
    /\ Running /\ Has("ShowUnplugPlug") => programmed
    /\ Running /\ ui[1] = "message" /\ ui[2] = "ShowUnplugPlug" => programmed
    /\ engine = "UpdateError" => ~status
    /\ (Ending \/ dialog = "Finished") /\ status => programmed

Flow == OwnStates /\ Sending /\ EarlyFirst /\ Thread /\ Ends /\ Programming
-----------------------------------------------------------------------------
\* Posting adds a message last; in order, unless a late one is pending before an
\* early one, or the end of the dialog before a message for it.
LEMMA Posting ==
    ASSUME NEW q \in Seq(Message), NEW m \in Message
    PROVE  /\ Append(q, m) \in Seq(Message)
           /\ Pending(Append(q, m)) = Pending(q) \cup {m}
           /\ /\ Ordered(q)
              /\ m \in Early => Pending(q) \cap Late = {}
              /\ m \in ToDialog => "ShowFinished" \notin Pending(q)
              => Ordered(Append(q, m))
<1> DEFINE r == Append(q, m)
<1>1. /\ r \in Seq(Message) /\ Len(q) \in Nat /\ Len(r) = Len(q) + 1
      /\ r[Len(q) + 1] = m
      /\ \A i \in 1 .. Len(q) : r[i] = q[i]
  BY AppendProperties
<1> HIDE DEF r
<1>2. Pending(r) = Pending(q) \cup {m}
  <2>1. Pending(r) \subseteq Pending(q) \cup {m}
    BY <1>1 DEF Pending
  <2>2. ASSUME NEW x \in Pending(q) \cup {m} PROVE x \in Pending(r)
    BY <1>1 DEF Pending
  <2> QED BY <2>1, <2>2
<1>3. ASSUME Ordered(q), m \in Early => Pending(q) \cap Late = {},
             m \in ToDialog => "ShowFinished" \notin Pending(q),
             NEW i \in 1 .. Len(r), NEW j \in 1 .. Len(r)
      PROVE  /\ r[i] \in Early /\ r[j] \in Late => i < j
             /\ r[i] \in ToDialog /\ r[j] = "ShowFinished" => i < j
  <2>1. CASE i \in 1 .. Len(q) /\ j \in 1 .. Len(q)
    BY <1>1, <1>3, <2>1 DEF Ordered
  <2>2. CASE i \in 1 .. Len(q) /\ j = Len(q) + 1
    BY <1>1, <2>2
  <2>3. CASE i = Len(q) + 1 /\ j \in 1 .. Len(q)
    BY <1>1, <1>3, <2>3 DEF Pending
  <2>4. CASE i = Len(q) + 1 /\ j = Len(q) + 1
    BY <1>1, <2>4 DEF Early, Late, ToDialog
  <2> QED BY <1>1, <2>1, <2>2, <2>3, <2>4
<1>4. ASSUME Ordered(q), m \in Early => Pending(q) \cap Late = {},
             m \in ToDialog => "ShowFinished" \notin Pending(q)
      PROVE  Ordered(r)
  BY <1>3, <1>4 DEF Ordered
<1> QED BY <1>1, <1>2, <1>4 DEF r

\* A message taken is the first one: a late one leaves no early one pending.
LEMMA Taking ==
    ASSUME NEW q \in Seq(Message), q # << >>
    PROVE  /\ Tail(q) \in Seq(Message)
           /\ Pending(q) = {Head(q)} \cup Pending(Tail(q))
           /\ Ordered(q) =>
                /\ Ordered(Tail(q))
                /\ Head(q) \in Late => Pending(q) \cap Early = {}
                /\ Head(q) = "ShowFinished" => Pending(q) \cap ToDialog = {}
<1> DEFINE r == Tail(q)
<1>1. /\ r \in Seq(Message) /\ Len(r) \in Nat /\ Len(q) = Len(r) + 1 /\ Head(q) = q[1]
      /\ \A i \in 1 .. Len(r) : r[i] = q[i + 1]
  BY HeadTailProperties, LenProperties
<1> HIDE DEF r
<1>2. Pending(q) = {Head(q)} \cup Pending(r)
  <2>1. ASSUME NEW i \in 1 .. Len(q) PROVE q[i] \in {Head(q)} \cup Pending(r)
    <3>1. CASE i = 1  BY <1>1, <3>1
    <3>2. CASE i # 1
      <4>1. i - 1 \in 1 .. Len(r) /\ r[i - 1] = q[i]  BY <1>1, <3>2
      <4> QED BY <4>1 DEF Pending
    <3> QED BY <3>1, <3>2
  <2>2. Head(q) \in Pending(q)
    <3>1. 1 \in 1 .. Len(q)  BY <1>1
    <3> QED BY <1>1, <3>1 DEF Pending
  <2>3. ASSUME NEW i \in 1 .. Len(r) PROVE r[i] \in Pending(q)
    <3>1. i + 1 \in 1 .. Len(q)  BY <1>1
    <3> QED BY <1>1, <3>1 DEF Pending
  <2> QED BY <2>1, <2>2, <2>3 DEF Pending
<1>3. ASSUME Ordered(q)
      PROVE  /\ Ordered(r)
             /\ Head(q) \in Late => Pending(q) \cap Early = {}
             /\ Head(q) = "ShowFinished" => Pending(q) \cap ToDialog = {}
  <2>1. ASSUME NEW i \in 1 .. Len(r), NEW j \in 1 .. Len(r)
        PROVE  /\ r[i] \in Early /\ r[j] \in Late => i < j
               /\ r[i] \in ToDialog /\ r[j] = "ShowFinished" => i < j
    <3>1. i + 1 \in 1 .. Len(q) /\ j + 1 \in 1 .. Len(q)  BY <1>1
    <3>2. /\ q[i + 1] \in Early /\ q[j + 1] \in Late => i + 1 < j + 1
          /\ q[i + 1] \in ToDialog /\ q[j + 1] = "ShowFinished" => i + 1 < j + 1
      BY <1>3, <3>1 DEF Ordered
    <3> QED BY <1>1, <3>2
  <2>2. 1 \in 1 .. Len(q)  BY <1>1
  <2>3. ASSUME NEW i \in 1 .. Len(q)
        PROVE  /\ q[i] \in Early /\ q[1] \in Late => i < 1
               /\ q[i] \in ToDialog /\ q[1] = "ShowFinished" => i < 1
    BY <1>3, <2>2 DEF Ordered
  <2> QED BY <1>1, <2>1, <2>3 DEF Ordered, Pending
<1> QED BY <1>1, <1>2, <1>3 DEF r

\* Nothing is lost when no message for the dialog is pending.
LEMMA Replacing ==
    ASSUME NEW q \in Seq(Message), Pending(q) \cap ToDialog = {}
    PROVE  DropDialogMessages(q) = q
<1>1. /\ Len(q) \in Nat /\ DOMAIN q = 1 .. Len(q)
      /\ q = [i \in 1 .. Len(q) |-> q[i]]
      /\ \A i \in 1 .. Len(q) : q[i] \in Message
  BY LenProperties
<1>2. ASSUME NEW i \in 1 .. Len(q) PROVE q[i] \in ToWindow
  BY <1>1 DEF Pending, Message
<1> QED BY <1>1, <1>2 DEF DropDialogMessages

\* What the window thread may be doing.
LEMMA Activities ==
    /\ {Idle, Gone, <<"timer", "">>, <<"deleting", "">>} \subseteq Activity
    /\ \A m \in Mode : <<"connected", m>> \in Activity /\ <<"disconnected", m>> \in Activity
    /\ \A m \in ForDFU \cup {"StopUnplugPlug"} : <<"message", m>> \in Activity
    /\ \A x \in {"exit", "finish", "installation"} : <<"stopping", x>> \in Activity
BY DEF Activity

\* The same for the messages of a step.
LEMMA Queue ==
    ASSUME posted \in Seq(Message)
    PROVE  /\ \A m \in Message : posted' = Append(posted, m) =>
                /\ posted' \in Seq(Message)
                /\ Pending(posted') = Pending(posted) \cup {m}
                /\ /\ Ordered(posted)
                   /\ m \in Early => Pending(posted) \cap Late = {}
                   /\ m \in ToDialog => "ShowFinished" \notin Pending(posted)
                   => Ordered(posted')
           /\ posted # << >> /\ posted' = Tail(posted) =>
                /\ posted' \in Seq(Message)
                /\ Pending(posted) = {Head(posted)} \cup Pending(posted')
                /\ Ordered(posted) => Ordered(posted')
           /\ posted # << >> /\ Ordered(posted) =>
                /\ Tail(posted) \in Seq(Message)
                /\ Pending(posted) = {Head(posted)} \cup Pending(Tail(posted))
                /\ Ordered(Tail(posted))
                /\ Head(posted) \in Late => Pending(posted) \cap Early = {}
                /\ Head(posted) = "ShowFinished" => Pending(posted) \cap ToDialog = {}
           /\ posted' = << >> =>
                posted' \in Seq(Message) /\ Pending(posted') = {} /\ Ordered(posted')
<1>1. posted' = << >> =>
        posted' \in Seq(Message) /\ Pending(posted') = {} /\ Ordered(posted')
  BY EmptySeq DEF Pending, Ordered
<1>2. ASSUME NEW m \in Message, posted' = Append(posted, m)
      PROVE  /\ posted' \in Seq(Message)
             /\ Pending(posted') = Pending(posted) \cup {m}
             /\ /\ Ordered(posted)
                /\ m \in Early => Pending(posted) \cap Late = {}
                /\ m \in ToDialog => "ShowFinished" \notin Pending(posted)
                => Ordered(posted')
  BY <1>2, Posting
<1>3. ASSUME posted # << >>
      PROVE  /\ Tail(posted) \in Seq(Message)
             /\ Pending(posted) = {Head(posted)} \cup Pending(Tail(posted))
             /\ Ordered(posted) =>
                  /\ Ordered(Tail(posted))
                  /\ Head(posted) \in Late => Pending(posted) \cap Early = {}
                  /\ Head(posted) = "ShowFinished" => Pending(posted) \cap ToDialog = {}
  BY <1>3, Taking
<1> QED BY <1>1, <1>2, <1>3

\* A dialog is replaced when none of its messages is pending.
LEMMA ShowDialogQueue ==
    ASSUME IInv, TypeOK, Flow, OnShowDialogToChange, fault' = "none"
    PROVE  /\ ~Running \/ worker = "stopped"
           /\ posted' \in Seq(Message) /\ Ordered(posted')
           /\ \/ /\ Head(posted) = "ShowFinished" /\ ShowFinished
                 /\ Pending(posted') \subseteq Pending(posted)
                 /\ Pending(posted) \cap (ToDialog \cup Early) = {}
                 /\ "ShowFinished" \in Pending(posted)
              \/ /\ Head(posted) = "ShowStatus" /\ ShowStatus
                 /\ Pending(posted') \subseteq Early
              \/ /\ Head(posted) = "ShowDFU" /\ ShowDFU
                 /\ Pending(posted') \subseteq Early
<1>1. /\ ui = Idle /\ posted # << >> /\ ~FreesThread
      /\ UNCHANGED <<world, comm, ui, status, fault>>
      /\ \/ Head(posted) = "ShowFinished" /\ ShowFinished
         \/ Head(posted) = "ShowStatus" /\ ShowStatus
         \/ Head(posted) = "ShowDFU" /\ ShowDFU
  BY DEF OnShowDialogToChange, Fault
<1>2. posted \in Seq(Message) /\ Ordered(posted)
  BY DEF TypeOK, Message, Flow, EarlyFirst
<1> DEFINE q == Tail(posted)
<1>3. /\ q \in Seq(Message) /\ Ordered(q)
      /\ Pending(posted) = {Head(posted)} \cup Pending(q)
      /\ Head(posted) \in Late => Pending(posted) \cap Early = {}
      /\ Head(posted) = "ShowFinished" => Pending(posted) \cap ToDialog = {}
  BY <1>1, <1>2, Taking
<1>4. CASE Head(posted) = "ShowFinished" /\ ShowFinished
  <2>1. Pending(posted) \cap (ToDialog \cup Early) = {}  BY <1>3, <1>4 DEF Late
  <2>2. posted' = q  BY <1>3, <1>4, <2>1, Replacing DEF ShowFinished
  <2> QED BY <1>1, <1>3, <1>4, <2>1, <2>2 DEF FreesThread
<1>5. CASE Head(posted) \in Early
  <2>1. ui[1] # "stopping"  BY <1>1, Kinds
  <2>2. ~Running
    BY <1>1, <1>3, <1>5, <2>1 DEF FreesThread, Flow, Thread, EarlyFirst
  <2>3. Pending(posted) \subseteq Early
    BY <1>3, <1>5, <2>2 DEF Running, RunningDialog, TypeOK, Flow, EarlyFirst
  <2>4. DropDialogMessages(q) = q
    BY <1>3, <2>3, Replacing DEF Early, ToDialog
  <2>5. /\ Append(q, "ShowStatus") \in Seq(Message)
        /\ Pending(Append(q, "ShowStatus")) = Pending(q) \cup {"ShowStatus"}
        /\ Ordered(Append(q, "ShowStatus"))
    <3>1. "ShowStatus" \in Message /\ "ShowStatus" \notin ToDialog /\ Pending(q) \cap Late = {}
      BY <1>3, <2>3 DEF Message, ToWindow, ToDialog, Early, Late
    <3> QED BY <1>3, <3>1, Posting
  <2>6. posted' \in {q, Append(q, "ShowStatus")}
    BY <1>1, <1>5, <2>4 DEF ShowStatus, ShowDFU, Early
  <2>7. Pending(posted') \subseteq Early /\ posted' \in Seq(Message) /\ Ordered(posted')
    <3>1. CASE posted' = q  BY <1>3, <2>3, <3>1
    <3>2. CASE posted' = Append(q, "ShowStatus")  BY <1>3, <2>3, <2>5, <3>2 DEF Early
    <3> QED BY <2>6, <3>1, <3>2
  <2> QED BY <1>1, <1>5, <2>2, <2>7 DEF Early
<1> QED BY <1>1, <1>4, <1>5 DEF Early

\* Where the answers of the device lead, and which of them programs it.
LEMMA NextStates ==
    /\ \A e \in HIDTalks : /\ HIDNext[e] \in HIDStates \ {"UpdateError"}
                           /\ HIDNext[e] \in AfterProgramming => e = "StartUpgrade"
    /\ \A e \in DFUTalks : /\ DFUNext[e] \in DFUStates \ {"UpdateError"}
                           /\ DFUNext[e] \in AfterProgramming => e = "DFU_CheckUpgrade"
BY DEF HIDNext, DFUNext, HIDTalks, DFUTalks, HIDStates, DFUStates, AfterProgramming

LEMMA ShowDialogFlow ==
    ASSUME IInv, TypeOK, Flow, OnShowDialogToChange, fault' = "none" PROVE Flow'
<1>1. ui = Idle /\ UNCHANGED ui /\ ui[1] = "idle" /\ status' = status
  BY Kinds DEF OnShowDialogToChange, Fault
<1>2. CASE ShowFinished /\ "ShowFinished" \in Pending(posted)
           /\ Pending(posted') \subseteq Pending(posted)
           /\ Pending(posted) \cap (ToDialog \cup Early) = {}
  <2>1. /\ dialog' = "Finished" /\ engine' = "None" /\ worker' = "none"
        /\ programmed' = programmed
    BY <1>2 DEF ShowFinished, NewDialog, RunningDialog, data
  <2>2. status => programmed  BY <1>2 DEF Flow, Programming, Ending, Has
  <2> QED BY <1>1, <1>2, <2>1, <2>2, ShowDialogQueue
       DEF Flow, OwnStates, Sending, EarlyFirst, Thread, Ends, Programming, Ending, Has,
           Running, RunningDialog, InHID, InDFU, AfterProgramming
<1>3. CASE (ShowStatus \/ ShowDFU) /\ Pending(posted') \subseteq Early
  <2>1. \/ dialog' \in {"Status", "None"} /\ engine' = "None" /\ worker' = "none"
        \/ /\ dialog' = "DFURunning" /\ engine' = "DFU_StartErase"
           /\ worker' = "waiting" /\ stop' = FALSE
    BY <1>3 DEF ShowStatus, ShowDFU, NewDialog, RunningDialog
  <2> QED BY <1>1, <1>3, <2>1, ShowDialogQueue
       DEF Flow, OwnStates, Sending, EarlyFirst, Thread, Ends, Programming, Ending, Has,
           Running, RunningDialog, InHID, InDFU, AfterProgramming, Early, ToDialog,
           DFUStates, DFUTalks
<1> QED BY <1>2, <1>3, ShowDialogQueue


\* The answers that move the engine on.
LEMMA HIDAnswerFlow ==
    ASSUME IInv, TypeOK, Flow, NEW a \in Answers, HIDAnswer(a) PROVE Flow'
<1>1. /\ InHID /\ worker = "talking" /\ Running
      /\ UNCHANGED <<dialog, popup, posted, ui, stop, left>>
  BY DEF InHID, Running, RunningDialog, HIDAnswer, buttons, EndTurn, Fail, Report, data
<1>2. engine \in HIDTalks
  BY <1>1 DEF IInv, Talking, Talks, Flow, OwnStates, HIDStates, HIDTalks, JumpTalks, DFUTalks
<1>3. ~Ending  BY <1>1, <1>2 DEF Flow, Ends, EndStates, HIDTalks
<1>4. /\ engine' \in HIDStates
      /\ engine' \in AfterProgramming => programmed'
      /\ programmed => programmed'
      /\ engine' = "UpdateError" => ~status'
      /\ worker' \in {"waiting", "reporting"}
  <2>1. CASE a = "ack"
    BY <1>2, <2>1, NextStates DEF HIDAnswer, EndTurn
  <2>2. CASE a = "nack"
    BY <2>2 DEF HIDAnswer, EndTurn, Fail, data, HIDStates, AfterProgramming
  <2>3. CASE a = "silence"
    BY <1>2, <2>3 DEF HIDAnswer, Report, data, HIDStates, HIDTalks, AfterProgramming
  <2> QED BY <2>1, <2>2, <2>3 DEF Answers
<1> QED
  BY <1>1, <1>3, <1>4
     DEF Flow, OwnStates, Sending, EarlyFirst, Thread, Ends, Programming, Ending, Has,
         Running, RunningDialog, InHID, InDFU

LEMMA DFUReportedFlow ==
    ASSUME IInv, TypeOK, Flow, DFUReported PROVE Flow'
<1>1. /\ InDFU /\ worker = "reporting" /\ Running /\ ui = Idle
      /\ UNCHANGED <<dialog, popup, ui, stop>>
  BY DEF InDFU, Running, RunningDialog, DFUReported, buttons, WindowAnswers
<1>2. ui[1] = "idle"  BY <1>1, Kinds
<1>3. ~Ending /\ posted \in Seq(Message) /\ Ordered(posted)
  BY <1>1 DEF Flow, Ends, EarlyFirst, TypeOK, Message
<1>4. /\ engine' \in DFUStates
      /\ engine' \in AfterProgramming => programmed'
      /\ programmed => programmed'
      /\ engine' = "UpdateError" => ~status'
      /\ worker' \in {"waiting", "freeing"}
      /\ posted' = posted \/ (posted' = Append(posted, "ShowUnplugPlug") /\ programmed')
  <2>1. CASE reply = "error"
    BY <1>3, <2>1 DEF DFUReported, EndTurn, Fail, data, DFUStates, AfterProgramming
  <2>2. CASE reply = "busy"
    BY <1>1, <1>3, <2>2
       DEF DFUReported, EndTurn, data, Flow, OwnStates, Programming
  <2>3. CASE reply = "done"
    <3>1. engine \in DFUTalks  BY <1>1, <2>3 DEF IInv, Reporting
    <3>2. /\ posted' = posted \o PostAtEnd(engine)
          /\ programmed' = (programmed \/ engine = "DFU_CheckUpgrade")
          /\ engine' = DFUNext[engine] /\ worker' = "waiting" /\ status' = status
      BY <2>3 DEF DFUReported, EndTurn
    <3>3. CASE engine = "DFU_CheckUpgrade"
      <4>1. posted' = Append(posted, "ShowUnplugPlug")
        BY <1>3, <3>2, <3>3 DEF PostAtEnd
      <4> QED BY <3>1, <3>2, <3>3, <4>1, NextStates
    <3>4. CASE engine # "DFU_CheckUpgrade"
      <4>1. posted' = posted  BY <1>3, <3>2, <3>4 DEF PostAtEnd
      <4> QED BY <3>1, <3>2, <3>4, <4>1, NextStates
    <3> QED BY <3>3, <3>4
  <2>4. CASE reply = "detach"
    BY <2>4 DEF DFUReported, DFUStates, AfterProgramming
  <2> QED BY <2>1, <2>2, <2>3, <2>4 DEF DFUReported
<1>5. CASE posted' = posted
  BY <1>1, <1>2, <1>3, <1>4, <1>5
     DEF Flow, OwnStates, Sending, EarlyFirst, Thread, Ends, Programming, Ending, Has,
         Running, RunningDialog, InHID, InDFU
<1>6. CASE posted' = Append(posted, "ShowUnplugPlug") /\ programmed'
  <2>1. Pending(posted') = Pending(posted) \cup {"ShowUnplugPlug"} /\ Ordered(posted')
    BY <1>3, <1>6, Posting DEF Message, ToDialog, Early, Ending, Has
  <2> QED BY <1>1, <1>2, <1>3, <1>4, <1>6, <2>1
     DEF Flow, OwnStates, Sending, EarlyFirst, Thread, Ends, Programming, Ending, Has,
         Running, RunningDialog, InHID, InDFU, Early
<1> QED BY <1>4, <1>5, <1>6
\* The flow, action by action.
LEMMA UserFlow ==
    ASSUME IInv, TypeOK, fault = "none" => Flow, User \/ OnTimer
    PROVE  (fault = "none" => Flow)'
<1> USE Kinds, Queue, DpSVisioAssumption, PacketCountAssumption
    DEF Frozen, Flow, OwnStates, Sending, HIDStates, DFUStates, Ends, Ending, Has,
        EndStates, Thread, EarlyFirst, Programming, AfterProgramming, Message, ToDialog,
        ToWindow, Early, Late, HIDTalks, DFUTalks, JumpTalks, Talking, Reporting, Talks,
        Busy, vars, world, buttons, turn, data, Running, RunningDialog, InHID, InDFU
<1>0. /\ Frozen /\ Talking /\ Reporting /\ posted \in Seq(Message)
      /\ dialog \in RunningDialog \cup {"Status", "Finished", "None", "Closed"}
  BY DEF IInv, TypeOK
<1>1. CASE OnBnClickedUpdate
  BY <1>0, <1>1 DEF OnBnClickedUpdate, NewUpgrade, Fault, NewDialog, DeviceName
<1>2. CASE OnBnClickedForceUpdate
  BY <1>0, <1>2 DEF OnBnClickedForceUpdate, NewUpgrade, NewDialog, DeviceName
<1>3. CASE OnBnClickedCancel
  BY <1>0, <1>3 DEF OnBnClickedCancel, Stop
<1>4. CASE UnplugPlugCancel
  BY <1>0, <1>4 DEF UnplugPlugCancel
<1>5. CASE InstallationOK
  BY <1>0, <1>5 DEF InstallationOK
<1>6. CASE OnTimer
  BY <1>0, <1>6 DEF OnTimer
<1> QED
  BY <1>1, <1>2, <1>3, <1>4, <1>5, <1>6 DEF User

LEMMA WindowFlow ==
    ASSUME IInv, TypeOK, fault = "none" => Flow, Window, ~OnDeviceChange
    PROVE  (fault = "none" => Flow)'
<1> USE Kinds, Queue, DpSVisioAssumption, PacketCountAssumption
    DEF Frozen, Flow, OwnStates, Sending, HIDStates, DFUStates, Ends, Ending, Has,
        EndStates, Thread, EarlyFirst, Programming, AfterProgramming, Message, ToDialog,
        ToWindow, Early, Late, HIDTalks, DFUTalks, JumpTalks, Talking, Reporting, Talks,
        Busy, vars, world, buttons, turn, data, Running, RunningDialog, InHID, InDFU
<1>0. /\ Frozen /\ Talking /\ Reporting /\ posted \in Seq(Message)
      /\ dialog \in RunningDialog \cup {"Status", "Finished", "None", "Closed"}
  BY DEF IInv, TypeOK
<1>1. CASE OnDpSVisioConnected
  BY <1>0, <1>1 DEF OnDpSVisioConnected, HIDOnDpSVisioConnected,
         DFUOnDpSVisioConnected
<1>2. CASE OnDpSVisioDisconnected
  BY <1>0, <1>2 DEF OnDpSVisioDisconnected, HIDOnDpSVisioDisconnected,
         DFUOnDpSVisioDisconnected
<1>3. CASE DeleteComm
  BY <1>0, <1>3 DEF DeleteComm
<1>4. CASE PrintMessages
  BY <1>0, <1>4 DEF PrintMessages
<1>5. CASE OnShowDialogToChange
  BY <1>0, <1>5, ShowDialogFlow DEF OnShowDialogToChange
<1>6. CASE OnThreadFinished
  BY <1>0, <1>6 DEF OnThreadFinished, Stop
<1>7. CASE OnExit
  BY <1>0, <1>7 DEF OnExit, Stop
<1>8. CASE AfterStop
  BY <1>0, <1>8 DEF AfterStop, Stopped, Fault, FreesThread
<1>9. CASE DisableCancel
  BY <1>0, <1>9 DEF DisableCancel
<1>10. CASE TakeMessage
  BY <1>0, <1>10 DEF TakeMessage, ForDFU
<1>11. CASE HandleMessage
  BY <1>0, <1>11 DEF HandleMessage, ShowPopup, Fail
<1> QED
  BY <1>1, <1>2, <1>3, <1>4, <1>5, <1>6, <1>7, <1>8, <1>9, <1>10, <1>11 DEF Window, DFUWindow

LEMMA HIDFlow ==
    ASSUME IInv, TypeOK, fault = "none" => Flow, HIDTurn
    PROVE  (fault = "none" => Flow)'
<1> USE Kinds, Queue, DpSVisioAssumption, PacketCountAssumption
    DEF Frozen, Flow, OwnStates, Sending, HIDStates, DFUStates, Ends, Ending, Has,
        EndStates, Thread, EarlyFirst, Programming, AfterProgramming, Message, ToDialog,
        ToWindow, Early, Late, HIDTalks, DFUTalks, JumpTalks, Talking, Reporting, Talks,
        Busy, vars, world, buttons, turn, data, Running, RunningDialog, InHID, InDFU
<1>0. /\ Frozen /\ Talking /\ Reporting /\ posted \in Seq(Message)
      /\ dialog \in RunningDialog \cup {"Status", "Finished", "None", "Closed"}
  BY DEF IInv, TypeOK
<1>1. CASE HIDStartTalking
  BY <1>0, <1>1 DEF HIDStartTalking, StartTalking, Turn
<1>2. CASE HIDWrongMode
  BY <1>0, <1>2 DEF HIDWrongMode, WrongMode, Turn
<1>3. CASE HIDReported
  BY <1>0, <1>3 DEF HIDReported, Fail, EndTurn
<1>4. ASSUME NEW a \in Answers, HIDAnswer(a) PROVE (fault = "none" => Flow)'
  BY <1>0, <1>4, HIDAnswerFlow DEF HIDAnswer, Inside
<1>5. ASSUME NEW a \in Answers, SendOnePacket(a) PROVE (fault = "none" => Flow)'
  BY <1>0, <1>5 DEF SendOnePacket
<1>6. CASE StartPackets
  BY <1>0, <1>6 DEF StartPackets, Turn
<1>7. CASE PacketError
  BY <1>0, <1>7 DEF PacketError, Fail
<1>8. CASE ShowProgress
  BY <1>0, <1>8 DEF ShowProgress
<1>9. CASE PacketsSent
  BY <1>0, <1>9 DEF PacketsSent, EndTurn
<1> QED
  BY <1>1, <1>2, <1>3, <1>4, <1>5, <1>6, <1>7, <1>8, <1>9 DEF HIDTurn

LEMMA DFUFlow ==
    ASSUME IInv, TypeOK, fault = "none" => Flow, DFUTurn
    PROVE  (fault = "none" => Flow)'
<1> USE Kinds, Queue, DpSVisioAssumption, PacketCountAssumption
    DEF Frozen, Flow, OwnStates, Sending, HIDStates, DFUStates, Ends, Ending, Has,
        EndStates, Thread, EarlyFirst, Programming, AfterProgramming, Message, ToDialog,
        ToWindow, Early, Late, HIDTalks, DFUTalks, JumpTalks, Talking, Reporting, Talks,
        Busy, vars, world, buttons, turn, data, Running, RunningDialog, InHID, InDFU
<1>0. /\ Frozen /\ Talking /\ Reporting /\ posted \in Seq(Message)
      /\ dialog \in RunningDialog \cup {"Status", "Finished", "None", "Closed"}
  BY DEF IInv, TypeOK
<1>1. CASE DFUStartTalking
  BY <1>0, <1>1 DEF DFUStartTalking, StartTalking, Turn, ModeNeeded, DFUNeeds
<1>2. CASE DFUWrongMode
  BY <1>0, <1>2 DEF DFUWrongMode, WrongMode, Turn, ModeNeeded, DFUNeeds
<1>3. CASE DFUReported
  BY <1>0, <1>3, DFUReportedFlow DEF DFUReported
<1>4. ASSUME NEW a \in {"ack", "nack", "silence"}, JumpAnswer(a)
      PROVE  (fault = "none" => Flow)'
  BY <1>0, <1>4 DEF JumpAnswer, EndTurn, Fail, Report
<1>5. ASSUME NEW a \in {"error", "busy", "done"}, DFUAnswer(a)
      PROVE  (fault = "none" => Flow)'
  BY <1>0, <1>5 DEF DFUAnswer, EndTurn, Fail, Report
<1>6. CASE WaitHIDDetach
  BY <1>0, <1>6 DEF WaitHIDDetach, Turn
<1>7. CASE FreeComm
  BY <1>0, <1>7 DEF FreeComm, EndTurn
<1>8. CASE WaitDFUAttach
  BY <1>0, <1>8 DEF WaitDFUAttach, Turn
<1>9. CASE DlgDFUInstallationLaunched
  BY <1>0, <1>9 DEF DlgDFUInstallationLaunched, Turn
<1>10. CASE DlgUnplugPlugLaunched
  BY <1>0, <1>10 DEF DlgUnplugPlugLaunched, Turn
<1> QED
  BY <1>1, <1>2, <1>3, <1>4, <1>5, <1>6, <1>7, <1>8, <1>9, <1>10 DEF DFUTurn

LEMMA OtherFlow ==
    ASSUME IInv, TypeOK, fault = "none" => Flow,
           VerifyDevice \/ EndWithError \/ EndThread \/ UseNullComm \/ UseFreedComm
    PROVE  (fault = "none" => Flow)'
<1> USE Kinds, Queue, DpSVisioAssumption, PacketCountAssumption
    DEF Frozen, Flow, OwnStates, Sending, HIDStates, DFUStates, Ends, Ending, Has,
        EndStates, Thread, EarlyFirst, Programming, AfterProgramming, Message, ToDialog,
        ToWindow, Early, Late, HIDTalks, DFUTalks, JumpTalks, Talking, Reporting, Talks,
        Busy, vars, world, buttons, turn, data, Running, RunningDialog, InHID, InDFU
<1>0. /\ Frozen /\ Talking /\ Reporting /\ posted \in Seq(Message)
      /\ dialog \in RunningDialog \cup {"Status", "Finished", "None", "Closed"}
  BY DEF IInv, TypeOK
<1>1. CASE VerifyDevice
  BY <1>0, <1>1 DEF VerifyDevice, Turn, SetUpgradeEnd, VerifyStates
<1>2. CASE EndWithError
  BY <1>0, <1>2 DEF EndWithError, Turn, SetUpgradeEnd
<1>3. CASE EndThread
  BY <1>0, <1>3 DEF EndThread
<1>4. CASE UseNullComm
  BY <1>0, <1>4 DEF UseNullComm, NeedComm, Turn, Fault
<1>5. CASE UseFreedComm
  BY <1>0, <1>5 DEF UseFreedComm, Fault
<1> QED
  BY <1>1, <1>2, <1>3, <1>4, <1>5

\* The type invariant in parts.
ObjectsOK == comm \in Comm \cup {NULL} /\ saved \in Comm \cup {NULL}
DialogOK ==
    /\ dialog \in RunningDialog \cup {"Status", "Finished", "None", "Closed"}
    /\ popup \in {"none", "unplug", "install", "installOK"}
FlagsOK ==
    /\ update \in BOOLEAN /\ cancel \in BOOLEAN /\ status \in BOOLEAN /\ msgs \in BOOLEAN
    /\ stop \in BOOLEAN /\ refused \in BOOLEAN /\ programmed \in BOOLEAN
WorkerOK ==
    /\ worker \in Busy \cup {"none", "gone", "waiting", "freeing", "reenter", "stopped"}
    /\ cs \in {"free", "worker"}
    /\ pcl \in {"none", "live", "freed"}
    /\ reply \in {"none", "error", "busy", "done", "detach"}
CountersOK ==
    /\ changes \in 0 .. MaxChanges
    /\ counter \in 0 .. WaitUSBEventTimeout /\ left \in 0 .. PacketCount
    /\ fault \in {"none", "nullComm", "freedComm", "freedDialog"}
EngineOK == engine \in HIDStates \cup DFUStates \cup {"None"}
LEMMA TypeParts ==
    TypeOK <=> /\ plugged \in [Device -> Mode \cup {"none"}] /\ news \in Seq(News)
               /\ ObjectsOK /\ DialogOK /\ FlagsOK /\ WorkerOK /\ CountersOK /\ EngineOK
               /\ posted \in Seq(Message) /\ ui \in Activity
BY DEF TypeOK, ObjectsOK, DialogOK, FlagsOK, WorkerOK, CountersOK, EngineOK, Message, News

\* The types, part by part.
LEMMA UserTypes ==
    ASSUME IInv, IInv', TypeOK, fault = "none" => Flow,
           User \/ OnTimer
    PROVE  TypeOK'
<1> USE Kinds, DpSVisioAssumption, PacketCountAssumption, WaitUSBEventTimeoutAssumption
    DEF vars, world, buttons, turn, data, Running, RunningDialog, InHID, InDFU, Frozen,
        OnBnClickedUpdate, NewUpgrade, Fault, NewDialog, DeviceName,
               OnBnClickedForceUpdate, OnBnClickedCancel, Stop, UnplugPlugCancel,
               InstallationOK, OnTimer, User
<1>0. /\ ObjectsOK /\ DialogOK /\ FlagsOK /\ WorkerOK /\ CountersOK /\ EngineOK
      /\ posted \in Seq(Message) /\ ui \in Activity /\ Frozen
  BY TypeParts DEF IInv
<1>1. ObjectsOK'
  BY <1>0 DEF ObjectsOK
<1>2. DialogOK'
  BY <1>0 DEF DialogOK
<1>3. FlagsOK'
  BY <1>0 DEF FlagsOK
<1>4. WorkerOK'
  BY <1>0 DEF WorkerOK, Busy
<1>5. CountersOK'
  <2>1. CASE OnBnClickedUpdate
    <3>1. /\ counter' \in {0, counter} /\ left' \in {0, left} /\ changes' = changes
          /\ fault' \in {fault, "nullComm"}
      BY <2>1
    <3> QED
      BY ONLY <1>0, <3>1, PacketCountAssumption, WaitUSBEventTimeoutAssumption
         DEF CountersOK
  <2>2. CASE OnBnClickedForceUpdate
    BY <1>0, <2>2 DEF CountersOK, Flow, Sending
  <2>3. CASE OnBnClickedCancel
    BY <1>0, <2>3 DEF CountersOK, Flow, Sending
  <2>4. CASE UnplugPlugCancel
    BY <1>0, <2>4 DEF CountersOK, Flow, Sending
  <2>5. CASE InstallationOK
    BY <1>0, <2>5 DEF CountersOK, Flow, Sending
  <2>6. CASE OnTimer
    BY <1>0, <2>6 DEF CountersOK, Flow, Sending
  <2> QED BY <2>1, <2>2, <2>3, <2>4, <2>5, <2>6
<1>6. EngineOK'
  BY <1>0 DEF EngineOK, HIDStates, DFUStates, HIDTalks, JumpTalks, DFUTalks
<1>7. (posted \in Seq(Message))'
  BY <1>0, Queue DEF Message, ToDialog, ToWindow, Flow, EarlyFirst
<1>8. (ui \in Activity)'
  <2>1. CASE OnBnClickedUpdate
    BY <1>0, <2>1, Activities
  <2>2. CASE OnBnClickedForceUpdate
    BY <1>0, <2>2, Activities
  <2>3. CASE OnBnClickedCancel
    BY <1>0, <2>3, Activities
  <2>4. CASE UnplugPlugCancel
    BY <1>0, <2>4, Activities
  <2>5. CASE InstallationOK
    BY <1>0, <2>5, Activities
  <2>6. CASE OnTimer
    BY <1>0, <2>6, Activities
  <2> QED BY <2>1, <2>2, <2>3, <2>4, <2>5, <2>6
<1>9. NewsOK'  BY DEF IInv
<1> QED
  BY <1>1, <1>2, <1>3, <1>4, <1>5, <1>6, <1>7, <1>8, <1>9
     DEF NewsOK, News, Message, TypeOK, ObjectsOK, DialogOK, FlagsOK, WorkerOK, CountersOK,
         EngineOK

LEMMA ShowingTypes ==
    ASSUME IInv, IInv', TypeOK, fault = "none" => Flow,
           OnShowDialogToChange \/ OnThreadFinished \/ OnExit \/ AfterStop
           \/ DisableCancel \/ TakeMessage
    PROVE  TypeOK'
<1> USE Kinds, DpSVisioAssumption, PacketCountAssumption, WaitUSBEventTimeoutAssumption
    DEF vars, world, buttons, turn, data, Running, RunningDialog, InHID, InDFU, Frozen,
        OnShowDialogToChange, ShowStatus, ShowFinished, ShowDFU, Fault, NewDialog,
               DeviceName, FreesThread, OnThreadFinished, Stop, OnExit, AfterStop,
               Stopped, DisableCancel, TakeMessage, ForDFU
<1>0. /\ ObjectsOK /\ DialogOK /\ FlagsOK /\ WorkerOK /\ CountersOK /\ EngineOK
      /\ posted \in Seq(Message) /\ ui \in Activity /\ Frozen
  BY TypeParts DEF IInv
<1>1. ObjectsOK'
  BY <1>0 DEF ObjectsOK
<1>2. DialogOK'
  BY <1>0 DEF DialogOK
<1>3. FlagsOK'
  BY <1>0 DEF FlagsOK
<1>4. WorkerOK'
  BY <1>0 DEF WorkerOK, Busy
<1>5. CountersOK'
  BY <1>0 DEF CountersOK, Flow, Sending
<1>6. EngineOK'
  BY <1>0 DEF EngineOK, HIDStates, DFUStates, HIDTalks, JumpTalks, DFUTalks
<1>7. (posted \in Seq(Message))'
  <2>1. CASE OnShowDialogToChange
    BY <1>0, <2>1, ShowDialogQueue, Queue DEF Message, ToDialog, ToWindow, Flow, EarlyFirst
  <2>2. CASE OnThreadFinished
    BY <1>0, <2>2, Queue DEF Message, ToDialog, ToWindow, Flow, EarlyFirst
  <2>3. CASE OnExit
    BY <1>0, <2>3, Queue DEF Message, ToDialog, ToWindow, Flow, EarlyFirst
  <2>4. CASE AfterStop
    BY <1>0, <2>4, Queue DEF Message, ToDialog, ToWindow, Flow, EarlyFirst
  <2>5. CASE DisableCancel
    BY <1>0, <2>5, Queue DEF Message, ToDialog, ToWindow, Flow, EarlyFirst
  <2>6. CASE TakeMessage
    BY <1>0, <2>6, Queue DEF Message, ToDialog, ToWindow, Flow, EarlyFirst
  <2> QED BY <2>1, <2>2, <2>3, <2>4, <2>5, <2>6
<1>8. (ui \in Activity)'
  <2>1. CASE OnShowDialogToChange
    BY <1>0, <2>1, Activities
  <2>2. CASE OnThreadFinished
    BY <1>0, <2>2, Activities
  <2>3. CASE OnExit
    BY <1>0, <2>3, Activities
  <2>4. CASE AfterStop
    BY <1>0, <2>4, Activities
  <2>5. CASE DisableCancel
    BY <1>0, <2>5, Activities
  <2>6. CASE TakeMessage
    BY <1>0, <2>6, Activities
  <2> QED BY <2>1, <2>2, <2>3, <2>4, <2>5, <2>6
<1>9. NewsOK'  BY DEF IInv
<1> QED
  BY <1>1, <1>2, <1>3, <1>4, <1>5, <1>6, <1>7, <1>8, <1>9
     DEF NewsOK, News, Message, TypeOK, ObjectsOK, DialogOK, FlagsOK, WorkerOK, CountersOK,
         EngineOK

LEMMA EventTypes ==
    ASSUME IInv, IInv', TypeOK, fault = "none" => Flow,
           OnDpSVisioConnected \/ OnDpSVisioDisconnected \/ DeleteComm \/ PrintMessages
           \/ HandleMessage
    PROVE  TypeOK'
<1> USE Kinds, DpSVisioAssumption, PacketCountAssumption, WaitUSBEventTimeoutAssumption
    DEF vars, world, buttons, turn, data, Running, RunningDialog, InHID, InDFU, Frozen,
        OnDpSVisioConnected, HIDOnDpSVisioConnected, DFUOnDpSVisioConnected,
               OnDpSVisioDisconnected, HIDOnDpSVisioDisconnected,
               DFUOnDpSVisioDisconnected, DeleteComm, PrintMessages, HandleMessage,
               ShowPopup, Fail
<1>0. /\ ObjectsOK /\ DialogOK /\ FlagsOK /\ WorkerOK /\ CountersOK /\ EngineOK
      /\ posted \in Seq(Message) /\ ui \in Activity /\ Frozen
  BY TypeParts DEF IInv
<1>1. ObjectsOK'
  BY <1>0 DEF ObjectsOK
<1>2. DialogOK'
  BY <1>0 DEF DialogOK
<1>3. FlagsOK'
  BY <1>0 DEF FlagsOK
<1>4. WorkerOK'
  BY <1>0 DEF WorkerOK, Busy
<1>5. CountersOK'
  <2>1. CASE OnDpSVisioConnected
    BY <1>0, <2>1 DEF CountersOK, Flow, Sending
  <2>2. CASE OnDpSVisioDisconnected
    <3>1. /\ counter' \in {0, counter} /\ left' \in {0, left} /\ changes' = changes
          /\ fault' \in {fault, "nullComm"}
      BY <2>2
    <3> QED
      BY ONLY <1>0, <3>1, PacketCountAssumption, WaitUSBEventTimeoutAssumption
         DEF CountersOK
  <2>3. CASE DeleteComm
    BY <1>0, <2>3 DEF CountersOK, Flow, Sending
  <2>4. CASE PrintMessages
    BY <1>0, <2>4 DEF CountersOK, Flow, Sending
  <2>5. CASE HandleMessage
    BY <1>0, <2>5 DEF CountersOK, Flow, Sending
  <2> QED BY <2>1, <2>2, <2>3, <2>4, <2>5
<1>6. EngineOK'
  BY <1>0 DEF EngineOK, HIDStates, DFUStates, HIDTalks, JumpTalks, DFUTalks
<1>7. (posted \in Seq(Message))'
  BY <1>0, Queue DEF Message, ToDialog, ToWindow, Flow, EarlyFirst
<1>8. (ui \in Activity)'
  BY <1>0, Activities
<1>9. NewsOK'  BY DEF IInv
<1> QED
  BY <1>1, <1>2, <1>3, <1>4, <1>5, <1>6, <1>7, <1>8, <1>9
     DEF NewsOK, News, Message, TypeOK, ObjectsOK, DialogOK, FlagsOK, WorkerOK, CountersOK,
         EngineOK

LEMMA HIDTypes ==
    ASSUME IInv, IInv', TypeOK, fault = "none" => Flow,
           HIDTurn
    PROVE  TypeOK'
<1> USE Kinds, DpSVisioAssumption, PacketCountAssumption, WaitUSBEventTimeoutAssumption
    DEF vars, world, buttons, turn, data, Running, RunningDialog, InHID, InDFU, Frozen,
        HIDStartTalking, StartTalking, Turn, HIDWrongMode, WrongMode, HIDReported,
               Fail, EndTurn, HIDAnswer, Answers, Report, SendOnePacket,
               StartPackets, PacketError, ShowProgress, PacketsSent, HIDTurn
<1>0. /\ ObjectsOK /\ DialogOK /\ FlagsOK /\ WorkerOK /\ CountersOK /\ EngineOK
      /\ posted \in Seq(Message) /\ ui \in Activity /\ Frozen
  BY TypeParts DEF IInv
<1>1. ObjectsOK'
  BY <1>0 DEF ObjectsOK
<1>2. DialogOK'
  BY <1>0 DEF DialogOK
<1>3. FlagsOK'
  BY <1>0 DEF FlagsOK
<1>4. WorkerOK'
  BY <1>0 DEF WorkerOK, Busy
<1>5. CountersOK'
  BY <1>0 DEF CountersOK, Flow, Sending
<1>6. EngineOK'
  BY <1>0, HIDFlow DEF EngineOK, Flow, OwnStates
<1>7. (posted \in Seq(Message))'
  BY <1>0, Queue DEF Message, ToDialog, ToWindow, Flow, EarlyFirst
<1>8. (ui \in Activity)'
  BY <1>0, Activities
<1>9. NewsOK'  BY DEF IInv
<1> QED
  BY <1>1, <1>2, <1>3, <1>4, <1>5, <1>6, <1>7, <1>8, <1>9
     DEF NewsOK, News, Message, TypeOK, ObjectsOK, DialogOK, FlagsOK, WorkerOK, CountersOK,
         EngineOK

LEMMA DFUTypes ==
    ASSUME IInv, IInv', TypeOK, fault = "none" => Flow,
           DFUTurn
    PROVE  TypeOK'
<1> USE Kinds, DpSVisioAssumption, PacketCountAssumption, WaitUSBEventTimeoutAssumption
    DEF vars, world, buttons, turn, data, Running, RunningDialog, InHID, InDFU, Frozen,
        DFUStartTalking, StartTalking, Turn, ModeNeeded, DFUNeeds, DFUWrongMode,
               WrongMode, DFUReported, Fail, EndTurn, PostAtEnd, JumpAnswer, Report,
               DFUAnswer, WaitHIDDetach, FreeComm, WaitDFUAttach,
               DlgDFUInstallationLaunched, DlgUnplugPlugLaunched, DFUTurn
<1>0. /\ ObjectsOK /\ DialogOK /\ FlagsOK /\ WorkerOK /\ CountersOK /\ EngineOK
      /\ posted \in Seq(Message) /\ ui \in Activity /\ Frozen
  BY TypeParts DEF IInv
<1>1. ObjectsOK'
  BY <1>0 DEF ObjectsOK
<1>2. DialogOK'
  BY <1>0 DEF DialogOK
<1>3. FlagsOK'
  BY <1>0 DEF FlagsOK
<1>4. WorkerOK'
  BY <1>0 DEF WorkerOK, Busy
<1>5. CountersOK'
  BY <1>0 DEF CountersOK, Flow, Sending
<1>6. EngineOK'
  BY <1>0, DFUFlow DEF EngineOK, Flow, OwnStates
<1>7. (posted \in Seq(Message))'
  BY <1>0, Queue DEF Message, ToDialog, ToWindow, Flow, EarlyFirst
<1>8. (ui \in Activity)'
  BY <1>0, Activities
<1>9. NewsOK'  BY DEF IInv
<1> QED
  BY <1>1, <1>2, <1>3, <1>4, <1>5, <1>6, <1>7, <1>8, <1>9
     DEF NewsOK, News, Message, TypeOK, ObjectsOK, DialogOK, FlagsOK, WorkerOK, CountersOK,
         EngineOK

LEMMA OtherTypes ==
    ASSUME IInv, IInv', TypeOK, fault = "none" => Flow,
           VerifyDevice \/ EndWithError \/ EndThread \/ UseNullComm \/ UseFreedComm
    PROVE  TypeOK'
<1> USE Kinds, DpSVisioAssumption, PacketCountAssumption, WaitUSBEventTimeoutAssumption
    DEF vars, world, buttons, turn, data, Running, RunningDialog, InHID, InDFU, Frozen,
        VerifyDevice, Turn, SetUpgradeEnd, VerifyStates, EndWithError, EndThread,
               UseNullComm, NeedComm, Fault, UseFreedComm
<1>0. /\ ObjectsOK /\ DialogOK /\ FlagsOK /\ WorkerOK /\ CountersOK /\ EngineOK
      /\ posted \in Seq(Message) /\ ui \in Activity /\ Frozen
  BY TypeParts DEF IInv
<1>1. ObjectsOK'
  BY <1>0 DEF ObjectsOK
<1>2. DialogOK'
  BY <1>0 DEF DialogOK
<1>3. FlagsOK'
  BY <1>0 DEF FlagsOK
<1>4. WorkerOK'
  BY <1>0 DEF WorkerOK, Busy
<1>5. CountersOK'
  BY <1>0 DEF CountersOK, Flow, Sending
<1>6. EngineOK'
  BY <1>0 DEF EngineOK, HIDStates, DFUStates, HIDTalks, JumpTalks, DFUTalks
<1>7. (posted \in Seq(Message))'
  BY <1>0, Queue DEF Message, ToDialog, ToWindow, Flow, EarlyFirst
<1>8. (ui \in Activity)'
  BY <1>0, Activities
<1>9. NewsOK'  BY DEF IInv
<1> QED
  BY <1>1, <1>2, <1>3, <1>4, <1>5, <1>6, <1>7, <1>8, <1>9
     DEF NewsOK, News, Message, TypeOK, ObjectsOK, DialogOK, FlagsOK, WorkerOK, CountersOK,
         EngineOK

\* Devices change nothing of it, and their messages little.
LEMMA DevicesFlow ==
    ASSUME IInv, IInv', TypeOK, fault = "none" => Flow, Devices
    PROVE  TypeOK' /\ (fault = "none" => Flow)'
<1>1. PICK d \in Device, m \in Mode \cup {"none"}, q \in Seq(News) : Change(d, m, q)
  BY DeviceChanges DEF IInv
<1>2. /\ UNCHANGED <<comm, dialog, update, cancel, popup, posted, ui, status, engine, msgs,
                     stop, worker, cs, pcl, reply, saved, counter, left, refused,
                     programmed, fault>>
      /\ changes' \in 0 .. MaxChanges
  BY <1>1, DpSVisioAssumption DEF Change, TypeOK, buttons, turn, data
<1>3. TypeOK'
  BY <1>2 DEF TypeOK, IInv, NewsOK, News
<1>4. (fault = "none" => Flow)'
  BY <1>2 DEF Flow, OwnStates, Sending, EarlyFirst, Thread, Ends, Programming, Ending, Has,
     Running, InHID, InDFU
<1> QED BY <1>3, <1>4

LEMMA OnDeviceChangeFlow ==
    ASSUME IInv, IInv', TypeOK, fault = "none" => Flow, OnDeviceChange
    PROVE  TypeOK' /\ (fault = "none" => Flow)'
<1> USE DpSVisioAssumption
    DEF OnDeviceChange, _Connect, _Disconnect, Running, RunningDialog, InHID, InDFU
<1> DEFINE n == Head(news)
<1>1. n \in News  BY HeadTailProperties DEF IInv, NewsOK
<1>2. Opened(n) \in Comm  BY <1>1 DEF Opened, News, Comm
<1>3. /\ ObjectsOK /\ DialogOK /\ FlagsOK /\ WorkerOK /\ CountersOK /\ EngineOK
      /\ posted \in Seq(Message) /\ ui \in Activity /\ ui[1] = "idle"
      /\ fault = "none" /\ Flow
  BY TypeParts, Kinds DEF IInv, Frozen, Idle, Gone
<1>4. ui' \in {Idle, <<"connected", n.mode>>, <<"disconnected", n.mode>>}
  OBVIOUS
<1>5. ui' \in Activity /\ ui'[1] \notin {"stopping", "message"}
  <2>1. n.mode \in Mode  BY <1>1 DEF News
  <2>2. ui'[1] \in {"idle", "connected", "disconnected"}
    <3>1. CASE ui' = Idle  BY ONLY <3>1 DEF Idle
    <3>2. CASE ui' = <<"connected", n.mode>>  BY ONLY <3>2
    <3>3. CASE ui' = <<"disconnected", n.mode>>  BY ONLY <3>3
    <3> QED BY <1>4, <3>1, <3>2, <3>3
  <2>3. ui' \in Activity  BY <1>4, <2>1, Activities
  <2> QED BY <2>2, <2>3
<1>6. \/ posted' = posted
      \/ posted' = Append(posted, "ShowDFU") /\ dialog = "Status"
  OBVIOUS
<1>7. /\ posted' \in Seq(Message) /\ Ordered(posted')
      /\ \/ Pending(posted') = Pending(posted)
         \/ Pending(posted') = Pending(posted) \cup {"ShowDFU"} /\ dialog = "Status"
  <2>1. Ordered(posted) /\ (dialog = "Status" => Pending(posted) \cap Late = {})
    BY <1>3 DEF Flow, EarlyFirst, Early, Late, ToDialog
  <2>2. "ShowDFU" \in Message /\ "ShowDFU" \notin ToDialog
    BY DEF Message, ToWindow, ToDialog
  <2> QED BY <1>3, <1>6, <2>1, <2>2, Posting
<1>8. UNCHANGED <<plugged, changes, dialog, cancel, popup, status, engine, msgs, stop,
                  worker, cs, reply, saved, counter, left, refused, programmed, fault>>
  BY DEF data
<1>9. comm' \in Comm \cup {NULL} /\ pcl' \in {pcl, "freed"} /\ update' \in BOOLEAN
  BY <1>2, <1>3 DEF ObjectsOK, FlagsOK
<1>10. NewsOK'  BY DEF IInv
<1>11. TypeOK'
  BY ONLY <1>3, <1>5, <1>7, <1>8, <1>9, <1>10
     DEF NewsOK, News, Message, TypeOK, ObjectsOK, DialogOK, FlagsOK, WorkerOK, CountersOK,
         EngineOK, RunningDialog
<1>12. Flow'
  BY ONLY <1>3, <1>5, <1>7, <1>8
     DEF Flow, OwnStates, Sending, EarlyFirst, Thread, Ends, Programming, Ending, Has,
         Running, RunningDialog, InHID, InDFU, Early
<1> QED BY <1>11, <1>12

\* A fault is the last thing that happens, and leaves alone all that the promises
\* are about.
FaultIsLast ==
    /\ fault = "none"
    /\ fault' # "none" =>
          /\ UNCHANGED <<dialog, status, programmed, posted>>
          /\ fault' = "freedDialog" => FreesThread
LEMMA Faults ==
    ASSUME Frozen, Next PROVE FaultIsLast
<1> USE Kinds
    DEF FaultIsLast, Frozen, FreesThread, Fault, Idle, Gone, data
<1>1. CASE User \/ OnTimer
  BY <1>1 DEF User, OnBnClickedUpdate, NewUpgrade, NewDialog, DeviceName,
         OnBnClickedForceUpdate, OnBnClickedCancel, Stop, UnplugPlugCancel,
         InstallationOK, OnTimer
<1>2. CASE Window
  BY <1>2 DEF Window, DFUWindow, OnDeviceChange, _Connect, _Disconnect,
         OnDpSVisioConnected, HIDOnDpSVisioConnected, DFUOnDpSVisioConnected,
         OnDpSVisioDisconnected, HIDOnDpSVisioDisconnected,
         DFUOnDpSVisioDisconnected, DeleteComm, PrintMessages, OnShowDialogToChange,
         ShowStatus, ShowFinished, ShowDFU, NewDialog, DeviceName, OnThreadFinished,
         Stop, OnExit, AfterStop, Stopped, DisableCancel, TakeMessage, ForDFU,
         HandleMessage, ShowPopup, Fail
<1>3. CASE HIDTurn
  BY <1>3 DEF HIDTurn, HIDStartTalking, StartTalking, Turn, HIDWrongMode, WrongMode,
         HIDReported, Fail, EndTurn, HIDAnswer, Answers, Report, SendOnePacket,
         StartPackets, PacketError, ShowProgress, PacketsSent
<1>4. CASE DFUTurn
  BY <1>4 DEF DFUTurn, DFUStartTalking, StartTalking, Turn, ModeNeeded, DFUNeeds,
         DFUWrongMode, WrongMode, DFUReported, Fail, EndTurn, PostAtEnd, JumpAnswer,
         Report, DFUAnswer, WaitHIDDetach, FreeComm, WaitDFUAttach,
         DlgDFUInstallationLaunched, DlgUnplugPlugLaunched
<1>5. CASE 
           VerifyDevice \/ EndWithError \/ EndThread \/ UseNullComm \/ UseFreedComm
  BY <1>5 DEF VerifyDevice, Turn, SetUpgradeEnd, VerifyStates, EndWithError,
         EndThread, UseNullComm, NeedComm, UseFreedComm
<1>6. CASE Devices
  BY <1>6 DEF Devices, Plug, Unplug, LeaveUnseen, Change
<1> QED BY <1>1, <1>2, <1>3, <1>4, <1>5, <1>6 DEF Next, Worker

\* What the upgrade promises to the user rests on the flow of messages and states.
Promises == TypeOK /\ (fault = "none" => Flow) /\ SuccessIsProgrammed /\ RegularEndIsClean

LEMMA InitPromises == Init => Promises
<1> SUFFICES ASSUME Init PROVE Promises  OBVIOUS
<1> USE DEF Init
<1>1. NewsOK  BY InitIInv DEF IInv
<1>2. ui \in Activity  BY Activities
<1>3. posted \in Seq(Message) /\ Pending(posted) = {} /\ Ordered(posted)
  BY EmptySeq DEF Pending, Ordered
<1>4. TypeOK
  <2>1. ObjectsOK /\ DialogOK /\ FlagsOK /\ WorkerOK /\ EngineOK
    BY DEF ObjectsOK, DialogOK, FlagsOK, WorkerOK, EngineOK
  <2>2. CountersOK
    BY DpSVisioAssumption, WaitUSBEventTimeoutAssumption, PacketCountAssumption
       DEF CountersOK
  <2> QED BY <1>1, <1>2, <1>3, <2>1, <2>2, TypeParts DEF NewsOK
<1>5. Flow
  BY <1>3, Kinds DEF Flow, OwnStates, Sending, EarlyFirst, Thread, Ends, Programming,
     Ending, Has, Running, RunningDialog, InHID, InDFU, AfterProgramming
<1> QED BY <1>4, <1>5 DEF Promises, SuccessIsProgrammed, RegularEndIsClean

LEMMA NextPromises == IInv /\ Promises /\ [Next]_vars => Promises'
<1> SUFFICES ASSUME IInv, Promises, [Next]_vars PROVE Promises'  OBVIOUS
<1>1. IInv'  BY Inductive
<1>2. CASE UNCHANGED vars
  BY <1>2 DEF Promises, TypeOK, Flow, OwnStates, Sending, EarlyFirst, Thread, Ends,
     Programming, Ending, Has, Running, InHID, InDFU, SuccessIsProgrammed,
     RegularEndIsClean, vars, world, buttons, turn, data
<1>3. CASE Next
  <2>1. TypeOK' /\ (fault = "none" => Flow)'
    BY <1>1, <1>3, UserFlow, WindowFlow, HIDFlow, DFUFlow, OtherFlow, DevicesFlow,
       OnDeviceChangeFlow, UserTypes, ShowingTypes, EventTypes, HIDTypes, DFUTypes,
       OtherTypes DEF Promises, Next, Window, DFUWindow, Worker
  <2>2. FaultIsLast  BY <1>3, Faults DEF IInv
  <2>3. CASE fault' = "none"
    BY <2>1, <2>3
       DEF Promises, Flow, Programming, SuccessIsProgrammed, RegularEndIsClean
  <2>4. CASE fault' # "none"
    <3>1. SuccessIsProgrammed'  BY <2>2, <2>4 DEF FaultIsLast, Promises, SuccessIsProgrammed
    <3>2. ASSUME fault' = "freedDialog", posted # << >>, Head(posted) = "ShowFinished"
          PROVE  FALSE
      <4>1. posted \in Seq(Message)  BY DEF Promises, TypeOK, Message
      <4>2. Has("ShowFinished")  BY <3>2, <4>1, Taking DEF Has
      <4> QED BY <2>2, <2>4, <3>2, <4>2 DEF FaultIsLast, FreesThread, Promises, Flow, Ends
    <3>3. RegularEndIsClean'  BY <2>2, <2>4, <3>2 DEF FaultIsLast, RegularEndIsClean
    <3> QED BY <2>1, <3>1, <3>3 DEF Promises
  <2> QED BY <2>3, <2>4
<1> QED BY <1>2, <1>3

\* The flow of messages and states holds as long as memory is not misused, and
\* the promises of the upgrade always.
THEOREM Promised == Spec => []Promises
<1>1. Spec => []IInv  BY Invariance
<1>2. Init => Promises  BY InitPromises
<1>3. IInv /\ Promises /\ [Next]_vars => Promises'  BY NextPromises
<1> QED BY <1>1, <1>2, <1>3, PTL DEF Spec

\* Every variable keeps its type.  In particular no message is ever pending for a
\* dialog that ShowDialog replaces.
THEOREM TypeCorrect == Spec => []TypeOK
<1> QED BY Promised, PTL DEF Promises

\* The window shows a success only of an upgrade whose device accepted the program.
THEOREM SuccessProgrammed == Spec => []SuccessIsProgrammed
<1> QED BY Promised, PTL DEF Promises

\* The dialog that has reached its end is deleted once its thread has stopped: the
\* wait of OnThreadFinished (a second) is long enough for every turn left.
THEOREM RegularEnd == Spec => []RegularEndIsClean
<1> QED BY Promised, PTL DEF Promises
-----------------------------------------------------------------------------
(***************************************************************************)
(* Why nobody waits for good.  The liveness properties rest on the         *)
(* fairness of FairSpec and stay with TLC; what follows is the argument    *)
(* under them: whoever is waited for has a step to take (Places), takes    *)
(* only so many of them (ToStop, TakesLeft), and the end of an upgrade is  *)
(* on its way to the window (EndOnItsWay).                                 *)
(***************************************************************************)

\* Where the worker, the window and the messages may be: in the dialog that has
\* the code for it.  Only a turn inside holds the critical section.
Places ==
    /\ ui # Gone
    /\ Running => worker \notin {"none", "gone"}
    /\ worker \in {"sending", "progress", "reenter", "endless"} => InHID
    /\ worker = "freeing" => InDFU
    /\ cs = "worker" => worker \in Inside
    /\ WaitsForCS => Running
    /\ ui[1] = "message" => InDFU
    /\ Pending(posted) \cap ForDFU # {} => InDFU

\* An engine that waits to be killed has told the window, or the window knows.
EndOnItsWay ==
    Running /\ engine = "WaitingToBeKilled" =>
        Has("StopThread") \/ Has("ShowFinished") \/ Has("Exit") \/ ui[1] = "stopping"

\* Action by action, as long as memory is not misused.
LEMMA UserPlaces ==
    ASSUME IInv, TypeOK, Flow, Places, EndOnItsWay, fault' = "none",
           User \/ OnTimer
    PROVE  Places' /\ EndOnItsWay'
<1> USE Kinds, Queue, DpSVisioAssumption, PacketCountAssumption
    DEF Places, EndOnItsWay, WaitsForCS, ForDFU, Has, Message, ToDialog, ToWindow, Busy,
        Inside, vars, world, buttons, turn, data, Running, RunningDialog, InHID, InDFU
<1>0. /\ Excluded /\ Talking /\ Reporting /\ OwnStates /\ posted \in Seq(Message)
      /\ EarlyFirst /\ Thread
      /\ dialog \in RunningDialog \cup {"Status", "Finished", "None", "Closed"}
  BY DEF IInv, TypeOK, Flow
<1>1. CASE OnBnClickedUpdate
  BY <1>0, <1>1 DEF OnBnClickedUpdate, NewUpgrade, Fault, NewDialog, DeviceName, Idle, Gone, EarlyFirst, Early
<1>2. CASE OnBnClickedForceUpdate
  BY <1>0, <1>2 DEF OnBnClickedForceUpdate, NewUpgrade, NewDialog, DeviceName, EarlyFirst, Early
<1>3. CASE OnBnClickedCancel
  BY <1>0, <1>3 DEF OnBnClickedCancel, Stop, Gone
<1>4. CASE UnplugPlugCancel
  BY <1>0, <1>4 DEF UnplugPlugCancel, Gone
<1>5. CASE InstallationOK
  BY <1>0, <1>5 DEF InstallationOK
<1>6. CASE OnTimer
  BY <1>0, <1>6 DEF OnTimer, Gone
<1> QED
  BY <1>1, <1>2, <1>3, <1>4, <1>5, <1>6 DEF User

LEMMA WindowPlaces ==
    ASSUME IInv, TypeOK, Flow, Places, EndOnItsWay, fault' = "none",
           Window, ~OnDeviceChange
    PROVE  Places' /\ EndOnItsWay'
<1> USE Kinds, Queue, DpSVisioAssumption, PacketCountAssumption
    DEF Places, EndOnItsWay, WaitsForCS, ForDFU, Has, Message, ToDialog, ToWindow, Busy,
        Inside, vars, world, buttons, turn, data, Running, RunningDialog, InHID, InDFU
<1>0. /\ Excluded /\ Talking /\ Reporting /\ OwnStates /\ posted \in Seq(Message)
      /\ EarlyFirst /\ Thread
      /\ dialog \in RunningDialog \cup {"Status", "Finished", "None", "Closed"}
  BY DEF IInv, TypeOK, Flow
<1>1. CASE OnDpSVisioConnected
  BY <1>0, <1>1 DEF OnDpSVisioConnected, HIDOnDpSVisioConnected, DFUOnDpSVisioConnected, Idle, Gone
<1>2. CASE OnDpSVisioDisconnected
  BY <1>0, <1>2 DEF OnDpSVisioDisconnected, HIDOnDpSVisioDisconnected, DFUOnDpSVisioDisconnected, Gone
<1>3. CASE DeleteComm
  BY <1>0, <1>3 DEF DeleteComm, Idle, Gone
<1>4. CASE PrintMessages
  BY <1>0, <1>4 DEF PrintMessages, Idle, Gone
<1>5. CASE OnShowDialogToChange
  <2>1. /\ UNCHANGED ui /\ ui = Idle /\ ui[1] = "idle"
        /\ Pending(posted') \cap ForDFU = {}
    BY <1>5, ShowDialogQueue DEF OnShowDialogToChange, Fault, Early
  <2>2. /\ dialog' \in {"Status", "Finished", "None", "DFURunning"} /\ cs' = "free"
        /\ worker' \in {"none", "waiting"}
        /\ dialog' = "DFURunning" => worker' = "waiting" /\ engine' = "DFU_StartErase"
    BY <1>5, ShowDialogQueue DEF ShowStatus, ShowFinished, ShowDFU, NewDialog
  <2> QED BY <2>1, <2>2
<1>6. CASE OnThreadFinished
  BY <1>0, <1>6 DEF OnThreadFinished, Stop, Gone
<1>7. CASE OnExit
  BY <1>0, <1>7 DEF OnExit, Stop, Gone
<1>8. CASE AfterStop
  <2>1. /\ UNCHANGED <<engine, worker, cs>> /\ ui[1] = "stopping"
        /\ ui' = Idle /\ ui'[1] = "idle"
        /\ \/ dialog' = "Closed" /\ posted' = << >>
           \/ dialog' = dialog /\ posted' = Append(posted, "ShowFinished")
           \/ dialog' = dialog /\ posted' = Append(posted, "Exit")
    BY <1>8 DEF AfterStop, Stopped, Fault
  <2>2. CASE dialog' = "Closed" /\ posted' = << >>
    <3>1. ~Running \/ worker = "stopped"
      BY <1>8, <2>1, <2>2, Kinds DEF AfterStop, FreesThread, Fault, Gone, Idle
    <3>2. Pending(posted') = {}  BY <2>2 DEF Pending
    <3> QED BY <1>0, <2>1, <2>2, <3>1, <3>2 DEF Thread, Idle, Gone
  <2>3. CASE dialog' = dialog /\ posted' = Append(posted, "ShowFinished")
    <3>1. Pending(posted') = Pending(posted) \cup {"ShowFinished"}  BY <1>0, <2>3
    <3> QED BY <2>1, <2>3, <3>1 DEF Idle, Gone
  <2>4. CASE dialog' = dialog /\ posted' = Append(posted, "Exit")
    <3>1. Pending(posted') = Pending(posted) \cup {"Exit"}  BY <1>0, <2>4
    <3> QED BY <2>1, <2>4, <3>1 DEF Idle, Gone
  <2> QED BY <2>1, <2>2, <2>3, <2>4
<1>9. CASE DisableCancel
  BY <1>0, <1>9 DEF DisableCancel
<1>10. CASE TakeMessage
  <2>1. /\ UNCHANGED <<dialog, engine, worker, cs>> /\ InDFU /\ ui[1] = "idle"
        /\ Head(posted) \in ForDFU /\ posted # << >> /\ posted' = Tail(posted)
        /\ ui' = <<"message", Head(posted)>> /\ ui'[1] = "message"
    BY <1>10 DEF TakeMessage
  <2>2. Pending(posted) = {Head(posted)} \cup Pending(posted')  BY <1>0, <2>1
  <2> QED BY <2>1, <2>2
<1>11. CASE HandleMessage
  <2>1. /\ UNCHANGED <<dialog, posted, worker, cs>> /\ InDFU
        /\ \/ ui' = Idle /\ engine' # "WaitingToBeKilled"
           \/ ui' = <<"stopping", "installation">>
    BY <1>11 DEF HandleMessage, ShowPopup, Fail
  <2>2. ui'[1] \in {"idle", "stopping"} /\ (ui'[1] = "idle" => engine' # "WaitingToBeKilled")
    BY <2>1
  <2> QED BY <2>1, <2>2
<1> QED
  BY <1>1, <1>2, <1>3, <1>4, <1>5, <1>6, <1>7, <1>8, <1>9, <1>10, <1>11 DEF Window, DFUWindow

LEMMA HIDPlaces ==
    ASSUME IInv, TypeOK, Flow, Places, EndOnItsWay, fault' = "none",
           HIDTurn
    PROVE  Places' /\ EndOnItsWay'
<1> USE Kinds, Queue, DpSVisioAssumption, PacketCountAssumption
    DEF Places, EndOnItsWay, WaitsForCS, ForDFU, Has, Message, ToDialog, ToWindow, Busy,
        Inside, vars, world, buttons, turn, data, Running, RunningDialog, InHID, InDFU
<1>0. /\ Excluded /\ Talking /\ Reporting /\ OwnStates /\ posted \in Seq(Message)
      /\ EarlyFirst /\ Thread
      /\ dialog \in RunningDialog \cup {"Status", "Finished", "None", "Closed"}
  BY DEF IInv, TypeOK, Flow
<1>1. CASE HIDStartTalking
  BY <1>0, <1>1 DEF HIDStartTalking, StartTalking, Turn, HIDTalks
<1>2. CASE HIDWrongMode
  BY <1>0, <1>2 DEF HIDWrongMode, WrongMode, Turn, HIDTalks
<1>3. CASE HIDReported
  BY <1>0, <1>3 DEF HIDReported, Fail, EndTurn
<1>4. ASSUME NEW a \in Answers, HIDAnswer(a) PROVE Places' /\ EndOnItsWay'
  BY <1>0, <1>4 DEF HIDAnswer, EndTurn, Fail, Report, Talking, Talks, OwnStates, HIDStates, HIDTalks, HIDNext, JumpTalks, DFUTalks
<1>5. ASSUME NEW a \in Answers, SendOnePacket(a) PROVE Places' /\ EndOnItsWay'
  BY <1>0, <1>5 DEF SendOnePacket
<1>6. CASE StartPackets
  BY <1>0, <1>6 DEF StartPackets, Turn
<1>7. CASE PacketError
  BY <1>0, <1>7 DEF PacketError, Fail
<1>8. CASE ShowProgress
  BY <1>0, <1>8 DEF ShowProgress
<1>9. CASE PacketsSent
  BY <1>0, <1>9 DEF PacketsSent, EndTurn
<1> QED
  BY <1>1, <1>2, <1>3, <1>4, <1>5, <1>6, <1>7, <1>8, <1>9 DEF HIDTurn

LEMMA DFUPlaces ==
    ASSUME IInv, TypeOK, Flow, Places, EndOnItsWay, fault' = "none",
           DFUTurn
    PROVE  Places' /\ EndOnItsWay'
<1> USE Kinds, Queue, DpSVisioAssumption, PacketCountAssumption
    DEF Places, EndOnItsWay, WaitsForCS, ForDFU, Has, Message, ToDialog, ToWindow, Busy,
        Inside, vars, world, buttons, turn, data, Running, RunningDialog, InHID, InDFU
<1>0. /\ Excluded /\ Talking /\ Reporting /\ OwnStates /\ posted \in Seq(Message)
      /\ EarlyFirst /\ Thread
      /\ dialog \in RunningDialog \cup {"Status", "Finished", "None", "Closed"}
  BY DEF IInv, TypeOK, Flow
<1>1. CASE DFUStartTalking
  BY <1>0, <1>1 DEF DFUStartTalking, StartTalking, Turn, DFUNeeds, JumpTalks, DFUTalks
<1>2. CASE DFUWrongMode
  BY <1>0, <1>2 DEF DFUWrongMode, WrongMode, Turn, DFUNeeds, JumpTalks, DFUTalks
<1>3. CASE DFUReported
  BY <1>0, <1>3 DEF DFUReported, PostAtEnd, EndTurn, Fail, DFUNext, DFUTalks, Reporting
<1>4. ASSUME NEW a \in {"ack", "nack", "silence"}, JumpAnswer(a) PROVE Places' /\ EndOnItsWay'
  BY <1>0, <1>4 DEF JumpAnswer, EndTurn, Fail, Report
<1>5. ASSUME NEW a \in {"error", "busy", "done"}, DFUAnswer(a) PROVE Places' /\ EndOnItsWay'
  BY <1>0, <1>5 DEF DFUAnswer, EndTurn, Fail, Report
<1>6. CASE WaitHIDDetach
  BY <1>0, <1>6 DEF WaitHIDDetach, Turn
<1>7. CASE FreeComm
  BY <1>0, <1>7 DEF FreeComm, EndTurn
<1>8. CASE WaitDFUAttach
  BY <1>0, <1>8 DEF WaitDFUAttach, Turn
<1>9. CASE DlgDFUInstallationLaunched
  BY <1>0, <1>9 DEF DlgDFUInstallationLaunched, Turn
<1>10. CASE DlgUnplugPlugLaunched
  BY <1>0, <1>10 DEF DlgUnplugPlugLaunched, Turn
<1> QED
  BY <1>1, <1>2, <1>3, <1>4, <1>5, <1>6, <1>7, <1>8, <1>9, <1>10 DEF DFUTurn

LEMMA OtherPlaces ==
    ASSUME IInv, TypeOK, Flow, Places, EndOnItsWay, fault' = "none",
           VerifyDevice \/ EndWithError \/ EndThread \/ UseNullComm \/ UseFreedComm
    PROVE  Places' /\ EndOnItsWay'
<1> USE Kinds, Queue, DpSVisioAssumption, PacketCountAssumption
    DEF Places, EndOnItsWay, WaitsForCS, ForDFU, Has, Message, ToDialog, ToWindow, Busy,
        Inside, vars, world, buttons, turn, data, Running, RunningDialog, InHID, InDFU
<1>0. /\ Excluded /\ Talking /\ Reporting /\ OwnStates /\ posted \in Seq(Message)
      /\ EarlyFirst /\ Thread
      /\ dialog \in RunningDialog \cup {"Status", "Finished", "None", "Closed"}
  BY DEF IInv, TypeOK, Flow
<1>1. CASE VerifyDevice
  BY <1>0, <1>1 DEF VerifyDevice, Turn, SetUpgradeEnd, VerifyStates
<1>2. CASE EndWithError
  BY <1>0, <1>2 DEF EndWithError, Turn, SetUpgradeEnd
<1>3. CASE EndThread
  BY <1>0, <1>3 DEF EndThread
<1>4. CASE UseNullComm
  BY <1>0, <1>4 DEF UseNullComm, NeedComm, Fault
<1>5. CASE UseFreedComm
  BY <1>0, <1>5 DEF UseFreedComm, Fault
<1> QED
  BY <1>1, <1>2, <1>3, <1>4, <1>5

LEMMA EventPlaces ==
    ASSUME IInv, TypeOK, Flow, Places, EndOnItsWay, fault' = "none",
           Devices \/ OnDeviceChange
    PROVE  Places' /\ EndOnItsWay'
<1> USE Kinds, Queue, DpSVisioAssumption, PacketCountAssumption
    DEF Places, EndOnItsWay, WaitsForCS, ForDFU, Has, Message, ToDialog, ToWindow, Busy,
        Inside, vars, world, buttons, turn, data, Running, RunningDialog, InHID, InDFU
<1>0. /\ Excluded /\ Talking /\ Reporting /\ OwnStates /\ posted \in Seq(Message)
      /\ EarlyFirst /\ Thread
      /\ dialog \in RunningDialog \cup {"Status", "Finished", "None", "Closed"}
  BY DEF IInv, TypeOK, Flow
<1>1. CASE Devices
  BY <1>0, <1>1 DEF Devices, Plug, Unplug, LeaveUnseen, Change
<1>2. CASE OnDeviceChange
  <2>1. /\ UNCHANGED <<dialog, engine, worker, cs>> /\ ui[1] = "idle"
        /\ posted' = posted \/ posted' = Append(posted, "ShowDFU")
        /\ \/ ui' = Idle
           \/ ui'[1] \in {"connected", "disconnected"} /\ Running
    BY <1>2 DEF OnDeviceChange, _Connect, _Disconnect
  <2>2. Pending(posted') \in {Pending(posted), Pending(posted) \cup {"ShowDFU"}}
    BY <1>0, <2>1
  <2>3. ui' # Gone /\ ui'[1] \notin {"timer", "message"}  BY <2>1 DEF Idle, Gone
  <2> QED BY <2>1, <2>2, <2>3
<1> QED
  BY <1>1, <1>2

LEMMA InitPlaces == Init => Places /\ EndOnItsWay
<1> SUFFICES ASSUME Init PROVE Places /\ EndOnItsWay  OBVIOUS
<1>1. Pending(posted) \subseteq {}  BY DEF Init, Pending
<1> QED
  BY <1>1, Kinds DEF Init, Places, EndOnItsWay, WaitsForCS, Running, RunningDialog, InHID,
     InDFU, Idle, Gone, ForDFU

LEMMA NextPlaces ==
    IInv /\ Promises /\ (fault = "none" => Places /\ EndOnItsWay) /\ [Next]_vars
      => (fault = "none" => Places /\ EndOnItsWay)'
<1> SUFFICES ASSUME IInv, Promises, fault = "none" => Places /\ EndOnItsWay, [Next]_vars,
                    fault' = "none"
             PROVE  Places' /\ EndOnItsWay'
  OBVIOUS
<1>1. CASE UNCHANGED vars
  BY <1>1 DEF Places, EndOnItsWay, WaitsForCS, Has, Running, InHID, InDFU, vars, world,
              buttons, turn, data
<1>2. CASE Next
  <2>1. fault = "none"  BY <1>2, Faults DEF IInv, FaultIsLast
  <2> QED
    BY <1>2, <2>1, UserPlaces, WindowPlaces, HIDPlaces, DFUPlaces, OtherPlaces, EventPlaces
       DEF Promises, Next, Window, Worker
<1> QED BY <1>1, <1>2

\* What the arguments below rest on, together.
Flows == fault = "none" => TypeOK /\ Flow /\ Places /\ EndOnItsWay
THEOREM Placed == Spec => [](IInv /\ Flows)
<1>1. Promises /\ (fault = "none" => Places /\ EndOnItsWay) => Flows
  BY DEF Promises, Flows
<1> QED BY <1>1, Invariance, Promised, InitPlaces, NextPlaces, PTL DEF Spec

(* The end of an upgrade.                                                  *)

\* The first message is one that the window handles in the dialog it shows.
MessageIsTaken ==
    ui = Idle /\ posted # << >> =>
        \/ Head(posted) \in ToWindow \cup {"StopThread"}
        \/ Head(posted) \in ForDFU /\ InDFU

\* The core of EndIsShown: when the engine waits to be killed, a message for
\* that is pending or the window is stopping the thread, and no message before
\* it is left at the head of the queue by a dialog that does not know it.
THEOREM EndIsComing == Spec => [](fault = "none" => EndOnItsWay /\ MessageIsTaken)
<1>1. ASSUME IInv, Flows, fault = "none" PROVE EndOnItsWay /\ MessageIsTaken
  <2>1. TypeOK /\ Flow /\ Places /\ EndOnItsWay  BY <1>1 DEF Flows
  <2>2. ASSUME posted # << >> PROVE MessageIsTaken
    <3>1. posted \in Seq(Message)  BY <2>1 DEF TypeOK, Message
    <3>2. Pending(posted) = {Head(posted)} \cup Pending(Tail(posted)) /\ Head(posted) \in Message
      BY <2>2, <3>1, Taking, HeadTailProperties
    <3> QED BY <2>1, <3>2 DEF Places, MessageIsTaken, Message, ToDialog, ForDFU
  <2> QED BY <2>1, <2>2 DEF MessageIsTaken
<1> QED BY <1>1, Placed, PTL

(* The stop of the thread.                                                 *)

\* The window may go on, or the thread has a step that nothing bars.
StopCanGoOn ==
    ui[1] = "stopping" =>
        \/ Stopped
        \/ worker = "waiting" /\ stop
        \/ worker = "freeing" /\ InDFU
        \/ worker = "reenter" /\ InHID /\ cs = "free"

\* An upper bound of the steps of the thread while the window stops it.
ToStop == CASE worker = "sending" -> 4
            [] worker \in {"talking", "progress"} -> 3
            [] worker \in {"reporting", "reenter", "freeing"} -> 2
            [] worker = "waiting" -> 1
            [] OTHER -> 0

\* A step of the thread while the window stops it, but for a use of memory that
\* is gone.
StopNearer ==
    ui[1] = "stopping" /\ Worker =>
        fault' # "none" \/ (UNCHANGED ui /\ ToStop \in Nat /\ ToStop' \in Nat /\ ToStop' < ToStop)

\* The core of StopEnds.  Whatever the thread is at when the window stops it,
\* either the window gives up waiting, or the thread has a step to take.
THEOREM StopGoesOn == Spec => [](fault = "none" => StopCanGoOn)
<1>1. ASSUME IInv, Flows, fault = "none", ui[1] = "stopping" PROVE StopCanGoOn
  <2>1. TypeOK /\ Flow /\ Places  BY <1>1 DEF Flows
  <2>2. worker \in Busy \cup {"none", "gone", "waiting", "freeing", "reenter", "stopped"}
    BY <2>1 DEF TypeOK
  <2>3. worker = "reenter" => cs = "free"
    BY <2>1 DEF TypeOK, Places, Inside
  <2> QED
    BY <1>1, <2>1, <2>2, <2>3 DEF Places, Flow, Thread, StopCanGoOn, Stopped
<1>2. IInv /\ Flows => (fault = "none" => StopCanGoOn)
  BY <1>1 DEF StopCanGoOn
<1> QED BY <1>2, Placed, PTL

\* And it has no more than four: no turn of an engine keeps the window.
THEOREM StopComesNearer == Spec => [][StopNearer]_vars
<1>1. ASSUME IInv, Flows, Worker, ui[1] = "stopping", fault' = "none"
      PROVE  UNCHANGED ui /\ ToStop \in Nat /\ ToStop' \in Nat /\ ToStop' < ToStop
  <2>1. fault = "none"  BY <1>1, Faults DEF IInv, FaultIsLast, Next
  <2>2. stop /\ ui # Idle
    BY <1>1, <2>1, Kinds DEF Flows, Flow, Thread
  <2> USE <1>1, <2>2 DEF ToStop, Turn, WindowAnswers, EndTurn
  <2>3. CASE HIDTurn
    <3>1. ASSUME NEW a \in Answers, HIDAnswer(a)
          PROVE  UNCHANGED ui /\ worker = "talking" /\ worker' \in {"waiting", "reporting"}
      BY <3>1 DEF HIDAnswer, Report
    <3>2. ASSUME NEW a \in Answers, SendOnePacket(a)
          PROVE  UNCHANGED ui /\ worker = "sending" /\ worker' = "progress"
      BY <3>2 DEF SendOnePacket
    <3>3. CASE PacketError  BY <3>3 DEF PacketError
    <3>4. CASE PacketsSent  BY <3>4 DEF PacketsSent
    <3>5. ~(HIDStartTalking \/ HIDWrongMode \/ HIDReported)
      BY DEF HIDStartTalking, StartTalking, HIDWrongMode, WrongMode, HIDReported
    <3>6. ~(StartPackets \/ ShowProgress)
      BY DEF StartPackets, ShowProgress
    <3> QED BY <2>3, <3>1, <3>2, <3>3, <3>4, <3>5, <3>6 DEF HIDTurn
  <2>4. CASE DFUTurn
    <3>1. ASSUME NEW a \in {"ack", "nack", "silence"}, JumpAnswer(a)
          PROVE  UNCHANGED ui /\ worker = "talking" /\ worker' \in {"waiting", "reporting"}
      BY <3>1 DEF JumpAnswer, Report
    <3>2. ASSUME NEW a \in {"error", "busy", "done"}, DFUAnswer(a)
          PROVE  UNCHANGED ui /\ worker = "talking" /\ worker' \in {"waiting", "reporting"}
      BY <3>2 DEF DFUAnswer, Report
    <3>3. CASE FreeComm  BY <3>3 DEF FreeComm
    <3>4. ~(DFUStartTalking \/ DFUWrongMode \/ DFUReported)
      BY DEF DFUStartTalking, StartTalking, DFUWrongMode, WrongMode, DFUReported
    <3>5. ~(WaitHIDDetach \/ WaitDFUAttach \/ DlgDFUInstallationLaunched
            \/ DlgUnplugPlugLaunched)
      BY DEF WaitHIDDetach, WaitDFUAttach, DlgDFUInstallationLaunched, DlgUnplugPlugLaunched
    <3> QED BY <2>4, <3>1, <3>2, <3>3, <3>4, <3>5 DEF DFUTurn
  <2>5. CASE VerifyDevice \/ EndWithError \/ EndThread \/ UseNullComm \/ UseFreedComm
    <3>1. ~(VerifyDevice \/ EndWithError \/ UseNullComm \/ UseFreedComm)
      BY DEF VerifyDevice, EndWithError, UseNullComm, NeedComm, UseFreedComm, Fault
    <3>2. worker = "waiting" /\ worker' = "stopped" /\ UNCHANGED ui
      BY <2>5, <3>1 DEF EndThread
    <3> QED BY <3>2
  <2> QED BY <2>3, <2>4, <2>5 DEF Worker
<1>2. IInv /\ Flows /\ [Next]_vars => [StopNearer]_vars
  BY <1>1 DEF StopNearer
<1> QED BY <1>2, Placed, PTL DEF Spec

(* The critical section.                                                   *)

\* The handler that waits may enter, or the worker is inside with a step to
\* take, or it is reporting, for which it waits for the window.
WindowCanEnter ==
    WaitsForCS =>
        \/ /\ cs = "free"
           /\ \/ ui[1] = "timer"
              \/ ui[1] \in {"connected", "disconnected"} /\ Running
              \/ ui[1] = "message" /\ ui[2] \in ForDFU \cup {"StopUnplugPlug"} /\ InDFU
        \/ worker = "talking" /\ \/ InHID /\ engine \in HIDTalks
                                 \/ InDFU /\ engine \in JumpTalks \cup DFUTalks
        \/ worker = "freeing" /\ InDFU
        \/ worker = "reporting"

\* How often the worker may still enter the critical section before the window
\* does, from the states that its turns go through.
Takes(e) ==
    CASE e \in {"StartFirmwareUploadSession", "SendCRC", "HID_StartDFU_SendCmd"} -> 2
      [] e \in {"SendFirmwareVersion", "StartUpgrade", "HID_StartDFU_WaitAnswer"} \cup DFUTalks -> 1
      [] OTHER -> 0
TakesLeft == CASE worker = "reenter" -> 2
               [] worker \in {"sending", "progress", "endless"} -> 0
               [] worker = "talking" -> Takes(engine) - 1
               [] OTHER -> Takes(engine)

\* A step of the worker while the window waits for the critical section: it
\* reports to the window, or gets no further entries and uses up one to enter.
EntersSeldom ==
    WaitsForCS /\ Worker =>
        \/ fault' # "none" \/ worker' = "reporting"
        \/ /\ UNCHANGED ui
           /\ TakesLeft \in 0 .. 2 /\ TakesLeft' \in 0 .. TakesLeft
           /\ cs = "free" /\ cs' = "worker" => TakesLeft' < TakesLeft

\* The states of each engine in which a turn talks.
LEMMA OwnTalks ==
    /\ Talks \cap HIDStates \subseteq HIDTalks
    /\ Talks \cap DFUStates \subseteq JumpTalks \cup DFUTalks
BY DEF Talks, HIDStates, DFUStates, HIDTalks, JumpTalks, DFUTalks

\* The core of OnlyReportsBlockTheWindow.  When the window waits for the
\* critical section it may enter, unless the worker is inside and about to
\* leave; only a report makes each of the two threads wait for the other.
THEOREM WindowEnters == Spec => [](fault = "none" => WindowCanEnter)
<1>1. ASSUME IInv, Flows, fault = "none", WaitsForCS PROVE WindowCanEnter
  <2>1. TypeOK /\ Flow /\ Places  BY <1>1 DEF Flows
  <2>2. ui \in Activity /\ cs \in {"free", "worker"}  BY <2>1 DEF TypeOK
  <2>3. ui[1] = "message" => ui[2] \in ForDFU \cup {"StopUnplugPlug"}
    <3>1. CASE ui \in {Idle, Gone, <<"timer", "">>, <<"deleting", "">>}
      <4>1. CASE ui = Idle  BY ONLY <4>1 DEF Idle
      <4>2. CASE ui = Gone  BY ONLY <4>2 DEF Gone
      <4>3. CASE ui = <<"timer", "">>  BY ONLY <4>3
      <4>4. CASE ui = <<"deleting", "">>  BY ONLY <4>4
      <4> QED BY <3>1, <4>1, <4>2, <4>3, <4>4
    <3>2. CASE ui \in {"connected", "disconnected"} \X Mode  BY <3>2
    <3>3. CASE ui \in {"message"} \X (ForDFU \cup {"StopUnplugPlug"})  BY <3>3
    <3>4. CASE ui \in {"stopping"} \X {"exit", "finish", "installation"}  BY <3>4
    <3> QED BY <2>2, <3>1, <3>2, <3>3, <3>4 DEF Activity
  <2>4. CASE cs = "free"
    BY <1>1, <2>1, <2>3, <2>4 DEF WaitsForCS, WindowCanEnter, Places
  <2>5. CASE cs = "worker"
    <3>1. worker \in Inside /\ Running  BY <1>1, <2>1, <2>5 DEF Places
    <3>2. worker = "talking" => \/ InHID /\ engine \in HIDTalks
                                \/ InDFU /\ engine \in JumpTalks \cup DFUTalks
      BY <1>1, <2>1, <3>1, OwnTalks
         DEF IInv, Talking, Flow, OwnStates, Running, RunningDialog, InHID, InDFU
    <3> QED BY <2>1, <3>1, <3>2 DEF Inside, Places, WindowCanEnter
  <2> QED BY <2>2, <2>4, <2>5
<1>2. IInv /\ Flows => (fault = "none" => WindowCanEnter)
  BY <1>1 DEF WindowCanEnter
<1> QED BY <1>2, Placed, PTL

\* And while it waits the worker enters at most twice more, but for a report:
\* the turns cannot keep the window out by taking the section again and again.
THEOREM WorkerEntersSeldom == Spec => [][EntersSeldom]_vars
<1>1. ASSUME IInv, Flows, Worker, WaitsForCS, fault' = "none", worker' # "reporting"
      PROVE  /\ UNCHANGED ui
             /\ TakesLeft \in 0 .. 2 /\ TakesLeft' \in 0 .. TakesLeft
             /\ cs = "free" /\ cs' = "worker" => TakesLeft' < TakesLeft
  <2>1. fault = "none"  BY <1>1, Faults DEF IInv, FaultIsLast, Next
  <2>2. ui # Idle  BY <1>1, Kinds DEF WaitsForCS
  <2>3. /\ worker = "talking" => engine \in Talks
        /\ InHID => engine \in HIDStates
        /\ InDFU => engine \in DFUStates
    BY <1>1, <2>1 DEF IInv, Talking, Flows, Flow, OwnStates
  <2>4. TakesLeft \in 0 .. 2
    BY <2>3 DEF TakesLeft, Takes, Talks, HIDTalks, JumpTalks, DFUTalks
  <2>5. CASE HIDStartTalking \/ DFUStartTalking
    <3>1. /\ UNCHANGED <<ui, engine>> /\ worker = "waiting" /\ worker' = "talking"
          /\ engine \in Talks
      BY <2>5 DEF HIDStartTalking, DFUStartTalking, StartTalking, Turn, DFUNeeds, Talks
    <3> QED BY <3>1 DEF TakesLeft, Takes, Talks, HIDTalks, JumpTalks, DFUTalks
  <2>6. CASE \E a \in Answers : HIDAnswer(a)
    <3>1. PICK a \in Answers : HIDAnswer(a)  BY <2>6
    <3>2. /\ UNCHANGED ui /\ worker = "talking" /\ worker' = "waiting" /\ cs' = "free"
          /\ engine \in HIDTalks /\ engine' \in {HIDNext[engine], "UpdateError"}
      BY <1>1, <2>3, <3>1, OwnTalks DEF HIDAnswer, Report, EndTurn, Fail
    <3> QED BY <2>4, <3>2 DEF TakesLeft, Takes, HIDTalks, HIDNext, DFUTalks
  <2>7. CASE \E a \in {"ack", "nack", "silence"} : JumpAnswer(a)
    <3>1. PICK a \in {"ack", "nack", "silence"} : JumpAnswer(a)  BY <2>7
    <3>2. /\ UNCHANGED ui /\ worker = "talking" /\ worker' = "waiting" /\ cs' = "free"
          /\ engine \in JumpTalks
          /\ \/ engine' \in {"UpdateError", "HID_StartDFU_WaitHIDDetach"}
             \/ engine = "HID_StartDFU_SendCmd" /\ engine' = "HID_StartDFU_WaitAnswer"
      BY <1>1, <3>1 DEF JumpAnswer, Report, EndTurn, Fail
    <3> QED BY <2>4, <3>2 DEF TakesLeft, Takes, JumpTalks, DFUTalks
  <2>8. CASE \E a \in {"error", "busy", "done"} : DFUAnswer(a)
    <3>1. PICK a \in {"error", "busy", "done"} : DFUAnswer(a)  BY <2>8
    <3>2. /\ UNCHANGED ui /\ worker = "talking" /\ worker' = "waiting" /\ cs' = "free"
          /\ engine' = "UpdateError"
      BY <1>1, <3>1 DEF DFUAnswer, Report, EndTurn, Fail
    <3> QED BY <2>4, <3>2 DEF TakesLeft, Takes, DFUTalks
  <2>9. CASE (\E a \in Answers : SendOnePacket(a)) \/ PacketError
    <3>1. /\ UNCHANGED <<ui, cs>> /\ worker = "sending" /\ worker' \in {"progress", "endless"}
      BY <2>9 DEF SendOnePacket, PacketError
    <3> QED BY <2>4, <3>1 DEF TakesLeft
  <2>10. CASE StartPackets
    <3>1. UNCHANGED <<ui, cs>> /\ worker = "waiting" /\ worker' = "sending"
      BY <2>10 DEF StartPackets, Turn
    <3> QED BY <2>4, <3>1 DEF TakesLeft
  <2>11. CASE PacketsSent
    <3>1. /\ UNCHANGED ui /\ cs' = "free" /\ worker = "reenter" /\ worker' = "waiting"
          /\ engine' = "SendCRC"
      BY <2>11 DEF PacketsSent, EndTurn
    <3> QED BY <2>4, <3>1 DEF TakesLeft, Takes
  <2>12. CASE FreeComm
    <3>1. /\ UNCHANGED <<ui, engine>> /\ cs' = "free" /\ worker = "freeing"
          /\ worker' = "waiting"
      BY <2>12 DEF FreeComm, EndTurn
    <3> QED BY <2>4, <3>1 DEF TakesLeft
  <2>13. CASE HIDWrongMode \/ DFUWrongMode \/ WaitHIDDetach \/ WaitDFUAttach
              \/ DlgDFUInstallationLaunched \/ DlgUnplugPlugLaunched \/ VerifyDevice
              \/ EndWithError
    <3>1. /\ UNCHANGED <<ui, cs, worker>> /\ worker = "waiting"
          /\ engine' \in {engine, "UpdateError", "DFU_Wait_DlgDFUInstallationLaunch",
                          "DFU_Wait_DlgDFUInstallationDestroy",
                          "DFU_StartHDI_WaitDFUDetach", "WaitingToBeKilled"}
      BY <1>1, <2>13 DEF HIDWrongMode, DFUWrongMode, WrongMode, WaitHIDDetach,
         WaitDFUAttach, DlgDFUInstallationLaunched, DlgUnplugPlugLaunched, VerifyDevice,
         EndWithError, SetUpgradeEnd, Turn, turn
    <3> QED BY <2>4, <3>1 DEF TakesLeft, Takes, DFUTalks
  <2>14. CASE EndThread
    <3>1. UNCHANGED <<ui, cs, engine>> /\ worker = "waiting" /\ worker' = "stopped"
      BY <2>14 DEF EndThread
    <3> QED BY <2>4, <3>1 DEF TakesLeft
  <2>15. ~(HIDReported \/ ShowProgress \/ DFUReported)
    BY <2>2 DEF HIDReported, ShowProgress, DFUReported, WindowAnswers
  <2>16. ~(UseNullComm \/ UseFreedComm)
    BY <1>1 DEF UseNullComm, NeedComm, UseFreedComm, Fault
  <2> QED
    BY <1>1, <2>5, <2>6, <2>7, <2>8, <2>9, <2>10, <2>11, <2>12, <2>13, <2>14, <2>15, <2>16
       DEF Worker, HIDTurn, DFUTurn
<1>2. IInv /\ Flows /\ [Next]_vars => [EntersSeldom]_vars
  BY <1>1 DEF EntersSeldom
<1> QED BY <1>2, Placed, PTL DEF Spec
=============================================================================
