----------------------------- MODULE HIDUpgrade -----------------------------
(***************************************************************************)
(* CDlgDpSVisioHIDUpgradeRunning: the firmware is sent packet by packet to *)
(* a device in HID mode, which then restarts with it.                      *)
(***************************************************************************)
EXTENDS DpSVisio

CONSTANT PacketCount    \* packets in the firmware file

ASSUME PacketCountAssumption == PacketCount \in Nat \ {0}

InHID == dialog = "HIDRunning"

HIDTalks == {"StartFirmwareUploadSession", "SendFirmwareVersion", "SendCRC", "StartUpgrade"}
HIDNext == [ StartFirmwareUploadSession |-> "SendFirmwareVersion",
             SendFirmwareVersion        |-> "SendOnePacket",
             SendCRC                    |-> "StartUpgrade",
             StartUpgrade               |-> "WaitHIDDetach" ]
HIDStates == HIDTalks \cup {"SendOnePacket", "WaitHIDDetach", "WaitHIDAttach",
    "VerifyDevice", "UpdateError", "WaitingToBeKilled", "DeviceDisconnected"}

\* What SendAndReadDpSVisioCommand makes of a command.  A read that fails is
\* taken for an answer, the one left in the buffer; silence and a write that
\* failed are written in the list of the dialog first.
Answers == {"ack", "nack", "silence"}
-----------------------------------------------------------------------------
HIDOnDpSVisioConnected ==
    engine' = IF engine = "WaitHIDAttach" THEN "VerifyDevice" ELSE engine

\* OnDpSVisioDisconnected without its default case.
HIDOnDpSVisioDisconnectedOnlyDetach ==
    engine' = IF engine = "WaitHIDDetach" THEN "WaitHIDAttach" ELSE engine
HIDOnDpSVisioDisconnected ==
    engine' = IF engine = "WaitHIDDetach" THEN "WaitHIDAttach" ELSE "DeviceDisconnected"

HIDStartTalking == InHID /\ StartTalking(HIDTalks, "HID", HIDTalks)
HIDNeeds == HIDTalks \cup {"SendOnePacket"}
HIDWrongMode == InHID /\ WrongMode(HIDTalks, "HID", HIDTalks)

HIDAnswer(answer) ==
    /\ InHID /\ worker = "talking"
    /\ \/ /\ answer = "ack"
          /\ engine' = HIDNext[engine] /\ EndTurn
          /\ programmed' = (programmed \/ engine = "StartUpgrade")
          /\ UNCHANGED <<status, posted, saved, counter, left, refused>>
       \/ answer = "nack" /\ Fail /\ EndTurn /\ UNCHANGED <<posted, data>>
       \/ answer = "silence" /\ Report("error")
    /\ UNCHANGED <<world, comm, dialog, buttons, ui, msgs, stop, fault>>

HIDReported ==
    /\ InHID /\ worker = "reporting" /\ WindowAnswers
    /\ Fail /\ EndTurn
    /\ UNCHANGED <<world, comm, dialog, buttons, posted, ui, msgs, stop, data, fault>>
-----------------------------------------------------------------------------
(* The packets.  All of them are sent in one turn, outside the critical    *)
(* section so that the window goes on working, with the object that was    *)
(* connected when the turn began.                                          *)

\* StartPackets that keeps the critical section.
StartPacketsInside ==
    /\ InHID /\ Turn({"SendOnePacket"}) /\ comm # NULL
    /\ worker' = "sending" /\ cs' = "worker" /\ pcl' = "live" /\ left' = PacketCount
    /\ UNCHANGED <<world, comm, dialog, buttons, posted, ui, status, engine, msgs, stop,
                   reply, saved, counter, refused, programmed, fault>>
StartPackets ==
    /\ InHID /\ Turn({"SendOnePacket"}) /\ comm # NULL
    /\ worker' = "sending" /\ pcl' = "live" /\ left' = PacketCount
    /\ UNCHANGED <<world, comm, dialog, buttons, posted, ui, status, engine, msgs, stop,
                   cs, reply, saved, counter, refused, programmed, fault>>

\* Only -1, which a handle that is gone gives, is an error: a refusal, silence
\* and a failed write count as a packet sent.  The progress bar comes next.
SendOnePacket(answer) ==
    /\ InHID /\ worker = "sending"
    /\ worker' = "progress"
    /\ refused' = (refused \/ answer # "ack")
    /\ UNCHANGED <<world, comm, dialog, buttons, posted, ui, status, engine, msgs, stop,
                   cs, pcl, reply, saved, counter, left, programmed, fault>>

\* The error ends the sending, not the loop.
PacketError ==
    /\ InHID /\ worker = "sending" /\ pcl = "freed"
    /\ Fail /\ worker' = "endless" /\ msgs' = TRUE
    /\ UNCHANGED <<world, comm, dialog, buttons, posted, ui, stop, cs, pcl, reply, data,
                   fault>>

ShowProgress ==
    /\ InHID /\ worker = "progress" /\ WindowAnswers
    /\ left' = left - 1
    /\ worker' = IF left = 1 THEN "reenter" ELSE "sending"
    /\ msgs' = (msgs \/ left = 1)
    /\ UNCHANGED <<world, comm, dialog, buttons, posted, ui, status, engine, stop, cs,
                   pcl, reply, saved, counter, refused, programmed, fault>>

\* Back in the critical section, whatever the state has become meanwhile.
PacketsSent ==
    /\ InHID /\ worker = "reenter" /\ cs = "free"
    /\ engine' = "SendCRC"
    /\ EndTurn
    /\ UNCHANGED <<world, comm, dialog, buttons, posted, ui, status, msgs, stop, data,
                   fault>>

HIDTurn ==
    \/ HIDStartTalking \/ HIDWrongMode \/ HIDReported
    \/ \E a \in Answers : HIDAnswer(a) \/ SendOnePacket(a)
    \/ StartPackets \/ PacketError \/ ShowProgress \/ PacketsSent
=============================================================================
