----------------------------- MODULE DFUUpgrade -----------------------------
(***************************************************************************)
(* CDlgDpSVisioDFUUpgradeRunning: the device is sent to the DFU mode (or   *)
(* found in it), erased and programmed there by the DFU driver, which is   *)
(* polled, and the user has to unplug and plug it to see it back in HID    *)
(* mode.  Two small dialogs are shown over the running one.                *)
(***************************************************************************)
EXTENDS DpSVisio

CONSTANT WaitUSBEventTimeout    \* DLGVISIODFUUPDATERUNNING_WAITUSBEVENTTIMEOUT

ASSUME WaitUSBEventTimeoutAssumption == WaitUSBEventTimeout \in Nat \ {0}

InDFU == dialog = "DFURunning"

JumpTalks == {"HID_StartDFU_SendCmd", "HID_StartDFU_WaitAnswer"}
DFUTalks == {"DFU_StartErase", "DFU_CheckErase", "DFU_StartUpgrade", "DFU_CheckUpgrade"}
DFUNext == [ DFU_StartErase   |-> "DFU_CheckErase",
             DFU_CheckErase   |-> "DFU_StartUpgrade",
             DFU_StartUpgrade |-> "DFU_CheckUpgrade",
             DFU_CheckUpgrade |-> "DFU_Wait_DlgUnplugPlugLaunch" ]
DFUStates == JumpTalks \cup DFUTalks \cup
    {"HID_StartDFU_WaitHIDDetach", "HID_StartDFU_WaitDFUAttach",
     "DFU_Wait_DlgDFUInstallationLaunch", "DFU_DlgDFUInstallationLaunched",
     "DFU_Wait_DlgDFUInstallationDestroy",
     "DFU_Wait_DlgUnplugPlugLaunch", "DFU_DlgUnplugPlugLaunched",
     "DFU_StartHDI_WaitDFUDetach", "DFU_StartHDI_WaitHIDAttach", "HID_VerifyDevice",
     "UpdateError", "WaitingToBeKilled", "DeviceDisconnected"}
-----------------------------------------------------------------------------
(* Handlers of the window, in the critical section.                        *)

DFUOnDpSVisioConnected(mode) ==
    /\ engine' = CASE engine = "HID_StartDFU_WaitDFUAttach" /\ mode = "DFU" -> "DFU_StartErase"
                   [] engine = "DFU_StartHDI_WaitHIDAttach" /\ mode = "HID" -> "HID_VerifyDevice"
                   [] OTHER -> engine
    /\ popup' = IF engine' = "HID_VerifyDevice" /\ engine # engine' THEN "none" ELSE popup

DFUOnDpSVisioDisconnected(mode) ==
    /\ engine' = CASE engine = "HID_StartDFU_WaitHIDDetach" ->
                     IF mode = "HID" THEN "HID_StartDFU_WaitDFUAttach" ELSE engine
                [] engine = "DFU_StartHDI_WaitDFUDetach" ->
                     IF mode = "DFU" THEN "DFU_StartHDI_WaitHIDAttach" ELSE engine
                [] engine = "HID_StartDFU_WaitDFUAttach" -> engine
                [] OTHER -> "DeviceDisconnected"
    /\ counter' = IF engine' # engine /\ engine' # "DeviceDisconnected" THEN 0 ELSE counter

\* A message that needs the critical section: taken, then handled.
ForDFU == {"ShowUnplugPlug", "ShowInstallation", "FinishInstallation"}
TakeMessage ==
    /\ InDFU /\ ui = Idle /\ posted # <<>> /\ Head(posted) \in ForDFU
    /\ ui' = <<"message", Head(posted)>> /\ posted' = Tail(posted)
    /\ UNCHANGED <<world, comm, dialog, buttons, status, engine, msgs, stop, turn, data,
                   fault>>

\* The Cancel button of the unplug-and-plug dialog.
UnplugPlugCancel ==
    /\ InDFU /\ ui = Idle /\ popup = "unplug"
    /\ ui' = <<"message", "StopUnplugPlug">>
    /\ UNCHANGED <<world, comm, dialog, buttons, posted, status, engine, msgs, stop, turn,
                   data, fault>>

\* The state is overwritten, whatever it has become since the message.
ShowPopup(p, e) ==
    /\ popup' = p /\ engine' = e /\ cancel' = FALSE
    /\ ui' = Idle /\ UNCHANGED <<status, stop>>
HandleMessage ==
    /\ InDFU /\ ui[1] = "message" /\ cs = "free"
    /\ \/ ui[2] = "ShowUnplugPlug" /\ ShowPopup("unplug", "DFU_DlgUnplugPlugLaunched")
       \/ ui[2] = "ShowInstallation" /\ ShowPopup("install", "DFU_DlgDFUInstallationLaunched")
       \/ /\ ui[2] = "FinishInstallation"
          /\ popup' = "none" /\ engine' = "WaitingToBeKilled"
          /\ ui' = <<"stopping", "installation">> /\ stop' = TRUE
          /\ UNCHANGED <<cancel, status>>
       \/ /\ ui[2] = "StopUnplugPlug"
          /\ popup' = "none" /\ Fail
          /\ ui' = Idle /\ UNCHANGED <<cancel, stop>>
    /\ UNCHANGED <<world, comm, dialog, update, posted, msgs, turn, data, fault>>

InstallationOK ==
    /\ InDFU /\ ui = Idle /\ popup = "install" /\ popup' = "installOK"
    /\ UNCHANGED <<world, comm, dialog, update, cancel, posted, ui, status, engine, msgs,
                   stop, turn, data, fault>>
-----------------------------------------------------------------------------
(* Turns of the worker.                                                    *)

DFUNeeds == JumpTalks \cup DFUTalks
ModeNeeded == IF engine \in JumpTalks THEN "HID" ELSE "DFU"
DFUStartTalking ==
    InDFU /\ StartTalking(DFUNeeds, ModeNeeded, {"HID_StartDFU_SendCmd"})
DFUWrongMode ==
    InDFU /\ WrongMode(DFUNeeds, ModeNeeded, {"HID_StartDFU_SendCmd"})

\* The command is written in one turn and its answer read in another one.
JumpAnswer(answer) ==
    /\ InDFU /\ worker = "talking" /\ engine \in JumpTalks
    /\ \/ /\ answer = "ack"
          /\ engine' = IF engine = "HID_StartDFU_SendCmd" THEN "HID_StartDFU_WaitAnswer"
                                                         ELSE "HID_StartDFU_WaitHIDDetach"
          /\ counter' = 0 /\ EndTurn
          /\ UNCHANGED <<status, posted, saved, left, refused, programmed>>
       \/ /\ answer = "nack" /\ engine = "HID_StartDFU_WaitAnswer"
          /\ Fail /\ EndTurn /\ UNCHANGED <<posted, data>>
       \/ answer = "silence" /\ Report("error")
    /\ msgs' = (msgs \/ answer = "ack")
    /\ UNCHANGED <<world, comm, dialog, buttons, ui, stop, fault>>

\* The driver refuses, is busy (less than 100%), or has finished.  Progress is
\* shown in the critical section.
DFUAnswer(answer) ==
    /\ InDFU /\ worker = "talking" /\ engine \in DFUTalks
    /\ \/ answer = "error" /\ Fail /\ EndTurn /\ UNCHANGED <<posted, data>>
       \/ /\ answer = "busy" /\ engine \in {"DFU_CheckErase", "DFU_CheckUpgrade"}
          /\ Report("busy")
       \/ /\ answer = "done"
          /\ worker' = "reporting" /\ reply' = "done"
          /\ posted' = IF engine = "DFU_StartErase" THEN Append(posted, "DisableCancel")
                                                   ELSE posted
          /\ UNCHANGED <<cs, pcl, engine, status, data>>
    /\ msgs' = (msgs \/ answer = "done")
    /\ UNCHANGED <<world, comm, dialog, buttons, ui, stop, fault>>

\* Which messages a turn posts at its end.
PostAtEnd(e) == IF e = "DFU_CheckUpgrade" THEN <<"ShowUnplugPlug">> ELSE <<>>

DFUReported ==
    /\ InDFU /\ worker = "reporting" /\ WindowAnswers
    /\ \/ reply = "error" /\ Fail /\ EndTurn /\ UNCHANGED <<posted, data>>
       \/ reply = "busy" /\ EndTurn /\ UNCHANGED <<engine, status, posted, data>>
       \/ /\ reply = "done"
          /\ engine' = DFUNext[engine] /\ EndTurn
          /\ posted' = posted \o PostAtEnd(engine)
          /\ programmed' = (programmed \/ engine = "DFU_CheckUpgrade")
          /\ UNCHANGED <<status, saved, counter, left, refused>>
       \/ /\ reply = "detach"
          /\ engine' = "HID_StartDFU_WaitDFUAttach" /\ counter' = 0
          /\ worker' = "freeing"
          /\ UNCHANGED <<cs, pcl, reply, status, posted, saved, left, refused, programmed>>
    /\ UNCHANGED <<world, comm, dialog, buttons, ui, msgs, stop, fault>>

\* Windows may never tell that the device left: the worker then disconnects it
\* itself, as the window would have done, without leaving the critical section.
WaitHIDDetach ==
    /\ InDFU /\ Turn({"HID_StartDFU_WaitHIDDetach"}) /\ counter < WaitUSBEventTimeout
    /\ counter' = counter + 1
    /\ IF counter' = WaitUSBEventTimeout /\ comm # NULL /\ comm.mode = "HID"
       THEN worker' = "reporting" /\ cs' = "worker" /\ reply' = "detach" /\ UNCHANGED pcl
       ELSE UNCHANGED turn
    /\ UNCHANGED <<world, comm, dialog, buttons, posted, ui, status, engine, msgs, stop,
                   saved, left, refused, programmed, fault>>
FreeComm ==
    /\ InDFU /\ worker = "freeing"
    /\ comm' = NULL /\ EndTurn
    /\ UNCHANGED <<world, dialog, buttons, posted, ui, status, engine, msgs, stop, data,
                   fault>>

WaitDFUAttach ==
    /\ InDFU /\ Turn({"HID_StartDFU_WaitDFUAttach"}) /\ counter < WaitUSBEventTimeout
    /\ counter' = counter + 1
    /\ IF counter' = WaitUSBEventTimeout
       THEN /\ posted' = Append(posted, "ShowInstallation")
            /\ engine' = "DFU_Wait_DlgDFUInstallationLaunch"
       ELSE UNCHANGED <<posted, engine>>
    /\ UNCHANGED <<world, comm, dialog, buttons, ui, status, msgs, stop, turn,
                   saved, left, refused, programmed, fault>>

DlgDFUInstallationLaunched ==
    /\ InDFU /\ Turn({"DFU_DlgDFUInstallationLaunched"}) /\ popup = "installOK"
    /\ posted' = Append(posted, "FinishInstallation")
    /\ engine' = "DFU_Wait_DlgDFUInstallationDestroy"
    /\ UNCHANGED <<world, comm, dialog, buttons, ui, status, msgs, stop, turn, data, fault>>

DlgUnplugPlugLaunched ==
    /\ InDFU /\ Turn({"DFU_DlgUnplugPlugLaunched"})
    /\ engine' = "DFU_StartHDI_WaitDFUDetach"
    /\ UNCHANGED <<world, comm, dialog, buttons, posted, ui, status, msgs, stop, turn, data,
                   fault>>

DFUTurn ==
    \/ DFUStartTalking \/ DFUWrongMode \/ DFUReported
    \/ \E a \in {"ack", "nack", "silence"} : JumpAnswer(a)
    \/ \E a \in {"error", "busy", "done"} : DFUAnswer(a)
    \/ WaitHIDDetach \/ FreeComm \/ WaitDFUAttach
    \/ DlgDFUInstallationLaunched \/ DlgUnplugPlugLaunched
DFUWindow == TakeMessage \/ HandleMessage
=============================================================================
