--------------------------- MODULE TAScopeUpdate ----------------------------
(***************************************************************************)
(* The update of a TA-Scope handheld: CDlgPanelTAScopeUpdate in the wizard *)
(* CDlgWizTAScope (src/TASelect), over ServiceManager and one serial port. *)
(* There is one thread, but its services and its waits pump messages: the  *)
(* buttons, the close box, the Escape key and two timers come in while an  *)
(* update is under way, so that handlers run on top of one another.        *)
(*                                                                         *)
(* frames is the stack of handlers, and a frame is where its handler is: a *)
(* step is what it does from one pump to the next.  The device answers,    *)
(* refuses or is silent; a service that has begun is at a pump between two *)
(* blocks.  There is one port to search, and no boot mode.                 *)
(*                                                                         *)
(* A definition placed just before another one that it resembles is that   *)
(* one with a mistake in it; no action uses it.                            *)
(***************************************************************************)
EXTENDS Naturals

CONSTANTS FileCount,        \* files of the update, in the order of the list
          WirelessFile,     \* the one with the firmware of the radio, or 0
          SensorFile,       \* the one with the firmware of the sensor, or 0
          BackupCount,      \* files that are read back first
          MaxFrames         \* bound on the handlers on top of one another

ASSUME TAScopeUpdateAssumption ==
    /\ FileCount \in Nat /\ BackupCount \in Nat \ {0} /\ MaxFrames \in Nat
    /\ WirelessFile \in 0 .. FileCount /\ SensorFile \in 0 .. FileCount

VARIABLES
    attached, written, table,       \* the handheld: is it there, the files it
                                    \* has got, and the file table
    busy, found,                    \* m_fComPortBusy, m_iComNumber > 0
    interrupt,                      \* m_bComInterruptRequested
    uploading, zbHH, zbDPS,         \* m_fUploadInCourse, m_eUpdateZBHH, m_eUpdateZBDPS
    panel, next, enabled, finish,   \* the panel shown; Next shown and enabled,
                                    \* Finish enabled
    info,                           \* m_EditInfos
    timer, refresh,                 \* m_nTimer of the panel, m_fRefreshVersion
    closing,                        \* EndDialog was called
    n, frames,
    cancelled, noFolder, fault      \* history

device == <<attached, written, table>>
port == <<busy, found, interrupt>>
update == <<uploading, zbHH, zbDPS>>
buttons == <<panel, next, enabled, finish, info>>
timers == <<timer, refresh>>
stack == <<n, frames>>
history == <<cancelled, noFolder, fault>>
vars == <<device, port, update, buttons, timers, closing, stack, history>>

File == 1 .. FileCount
Updated == {"No", "Requested", "Reported", "InCourse", "FinishOk", "FinishFail"}
Interruptible == {"reading", "writing", "table", "checking"}
Services == Interruptible \cup {"sensor", "wireless"}
Waits == {"pausing", "settling", "settled", "cleaning", "rebooting", "searching"}
Boxes == {"asking", "askingClose", "offline"}
Straight == {"backup", "files", "programming", "radio", "ending"}
Refresh == {"checking", "searching"}
NotUpdating == Refresh \cup {"none", "asking", "askingClose"}
Position == Services \cup Waits \cup Boxes \cup Straight \cup {"none"}

\* file is the number of the file that a loop is at; stale, whether the port or
\* the table that the frame holds was freed.
Frame == [at : Position, ok : BOOLEAN, file : Nat, stale : BOOLEAN]
FrameAt(p) == [at |-> p, ok |-> TRUE, file |-> 1, stale |-> FALSE]
Depth == 1 .. MaxFrames
Top == frames[n]

TypeOK ==
    /\ attached \in BOOLEAN /\ written \subseteq File /\ table \in {"old", "new"}
    /\ busy \in BOOLEAN /\ found \in BOOLEAN /\ interrupt \in BOOLEAN
    /\ uploading \in BOOLEAN /\ zbHH \in Updated /\ zbDPS \in Updated
    /\ panel \in {"update", "start"}
    /\ next \in BOOLEAN /\ enabled \in BOOLEAN /\ finish \in BOOLEAN
    /\ info \in {"none", "uploading", "success", "fail", "aborted"}
    /\ timer \in BOOLEAN /\ refresh \in BOOLEAN /\ closing \in BOOLEAN
    /\ n \in 0 .. MaxFrames /\ frames \in [Depth -> Frame]
    /\ cancelled \in BOOLEAN /\ noFolder \in BOOLEAN
    /\ fault \in {"none", "freedPort", "freedTable"}

\* The panel has just been opened, from the start panel.
Init ==
    /\ attached = TRUE /\ written = {} /\ table = "old"
    /\ busy = FALSE /\ found = TRUE /\ interrupt = FALSE
    /\ uploading = FALSE /\ zbHH = "No" /\ zbDPS = "No"
    /\ panel = "update" /\ next = TRUE /\ enabled = TRUE /\ finish = TRUE
    /\ info = "none"
    /\ timer = TRUE /\ refresh = TRUE /\ closing = FALSE
    /\ n = 0 /\ frames = [k \in Depth |-> FrameAt("none")]
    /\ cancelled = FALSE /\ noFolder = FALSE /\ fault = "none"

Push(f) ==
    /\ n < MaxFrames
    /\ n' = n + 1 /\ frames' = [frames EXCEPT ![n + 1] = f]

Pop == n' = n - 1 /\ frames' = [frames EXCEPT ![n] = FrameAt("none")]

Become(f) == frames' = [frames EXCEPT ![n] = f] /\ UNCHANGED n

GoTo(p) == Become([Top EXCEPT !.at = p])

At(p) == n > 0 /\ Top.at = p /\ ~Top.stale

UpdateUnderWay == \E k \in 1 .. n : frames[k].at \notin NotUpdating

Requested == zbHH = "Requested" \/ zbDPS = "Requested"
Reported == zbHH = "Reported" \/ zbDPS = "Reported"
-----------------------------------------------------------------------------
(* The port.                                                               *)

\* The port is closed under the services that use it.
Freed == [k \in Depth |-> [frames[k] EXCEPT !.stale = @ \/ frames[k].at \in Services]]

\* IsTAScopeAvailable and PortOpen, and the service that begins.
Begin(service) ==
    /\ ~busy /\ found /\ attached
    /\ busy' = TRUE /\ UNCHANGED found
    /\ interrupt' = (interrupt /\ service \notin Interruptible)

\* The same when it does not: the port is in use, or nobody answers.
Silent == ~busy /\ found' = FALSE /\ UNCHANGED <<busy, interrupt>>
Refused(service) ==
    \/ busy /\ UNCHANGED port
    \/ Silent
    \/ ~busy /\ found /\ service \in Interruptible
       /\ interrupt' = FALSE /\ UNCHANGED <<busy, found>>

\* A service at a pump ends: a service that can be interrupted looks at the
\* flag before it goes on.
Served == attached /\ (Top.at \in Interruptible => ~interrupt)
PortClose == busy' = FALSE /\ UNCHANGED <<found, interrupt>>
-----------------------------------------------------------------------------
(* OnWizNext, from one pump to the next.                                   *)

\* BackupTASCOPEFiles does not look at what its reads return.
BackupFile ==
    /\ At("backup") /\ Top.file <= BackupCount
    /\ \/ Begin("reading") /\ GoTo("reading")
       \/ Refused("reading") /\ Become([Top EXCEPT !.file = @ + 1])
    /\ UNCHANGED <<device, update, buttons, timers, closing, history>>

FileReadAgain ==
    /\ At("reading")
    /\ PortClose /\ Become([Top EXCEPT !.at = "backup"])
    /\ UNCHANGED <<device, update, buttons, timers, closing, history>>
FileRead ==
    /\ At("reading")
    /\ PortClose /\ Become([Top EXCEPT !.at = "backup", !.file = @ + 1])
    /\ UNCHANGED <<device, update, buttons, timers, closing, history>>

StartUploading ==
    /\ At("backup") /\ Top.file > BackupCount
    /\ Become([Top EXCEPT !.at = "files", !.file = 1])
    /\ timer' = TRUE /\ info' = "uploading"
    /\ zbHH' = "No" /\ zbDPS' = "No"
    /\ UNCHANGED <<device, port, uploading, panel, next, enabled, finish, refresh, closing,
                   history>>

\* The firmware of the radio or of the sensor is programmed after the files,
\* or only after the next update if this application cannot do it yet.
Plan(file, firmware, zb) ==
    IF file = firmware THEN {"Requested", "Reported"} ELSE {zb}

UploadFile ==
    /\ At("files") /\ Top.file \in File /\ Top.ok /\ uploading
    /\ zbHH' \in Plan(Top.file, WirelessFile, zbHH)
    /\ zbDPS' \in Plan(Top.file, SensorFile, zbDPS)
    /\ \/ Begin("writing") /\ GoTo("writing")
       \/ Refused("writing") /\ Become([Top EXCEPT !.at = "pausing", !.ok = FALSE])
    /\ UNCHANGED <<device, uploading, buttons, timers, closing, history>>

FileWrittenAnyway ==
    /\ At("writing") /\ PortClose
    /\ \/ /\ Served
          /\ written' = written \cup {Top.file} /\ GoTo("pausing")
       \/ UNCHANGED written /\ GoTo("pausing")
    /\ UNCHANGED <<attached, table, update, buttons, timers, closing, history>>
FileWritten ==
    /\ At("writing") /\ PortClose
    /\ \/ /\ Served
          /\ written' = written \cup {Top.file} /\ GoTo("pausing")
       \/ UNCHANGED written /\ Become([Top EXCEPT !.at = "pausing", !.ok = FALSE])
    /\ UNCHANGED <<attached, table, update, buttons, timers, closing, history>>

\* After the wait it reads the size of the file in the table.
NextFile ==
    /\ At("pausing")
    /\ Become([Top EXCEPT !.at = "files", !.file = @ + 1])
    /\ UNCHANGED <<device, port, update, buttons, timers, closing, history>>

FilesDone == At("files") /\ ~(Top.file \in File /\ Top.ok /\ uploading)

UploadTable ==
    /\ FilesDone /\ Top.ok
    /\ \/ Begin("table") /\ GoTo("table")
       \/ Refused("table") /\ Become([Top EXCEPT !.at = "programming", !.ok = FALSE])
    /\ UNCHANGED <<device, update, buttons, timers, closing, history>>

TableWritten ==
    /\ At("table") /\ PortClose
    /\ \/ Served /\ table' = "new" /\ GoTo("programming")
       \/ UNCHANGED table /\ Become([Top EXCEPT !.at = "programming", !.ok = FALSE])
    /\ UNCHANGED <<attached, written, update, buttons, timers, closing, history>>

UploadFailed ==
    /\ FilesDone /\ ~Top.ok /\ GoTo("ending")
    /\ UNCHANGED <<device, port, update, buttons, timers, closing, history>>

\* Next is disabled, and the sensor has to be there.
Programming ==
    /\ At("programming")
    /\ enabled' = (enabled /\ ~Requested)
    /\ \/ /\ zbDPS # "Requested" /\ GoTo("radio") /\ UNCHANGED <<port, zbDPS>>
       \/ /\ zbDPS = "Requested" /\ GoTo("offline") /\ UNCHANGED zbDPS
          /\ Silent \/ UNCHANGED port
       \/ /\ zbDPS = "Requested" /\ zbDPS' = "InCourse"
          /\ Begin("sensor") /\ GoTo("sensor")
       \/ /\ zbDPS = "Requested" /\ zbDPS' = "FinishFail"
          /\ Refused("sensor") /\ GoTo("radio")
    /\ UNCHANGED <<device, uploading, zbHH, panel, next, finish, info, timers, closing, history>>

\* The box with Retry and Cancel.
SensorOffline ==
    /\ At("offline")
    /\ \/ GoTo("radio") /\ UNCHANGED <<port, zbDPS>>
       \/ GoTo("offline") /\ UNCHANGED zbDPS /\ (Silent \/ UNCHANGED port)
       \/ zbDPS' = "InCourse" /\ Begin("sensor") /\ GoTo("sensor")
       \/ zbDPS' = "FinishFail" /\ Refused("sensor") /\ GoTo("radio")
    /\ UNCHANGED <<device, uploading, zbHH, buttons, timers, closing, history>>

\* UpdateZBsw: the case of the sensor has no break, and is always a success.
SensorProgrammed ==
    /\ At("sensor") /\ PortClose
    /\ zbDPS' = "FinishOk" /\ GoTo("radio")
    /\ UNCHANGED <<device, uploading, zbHH, buttons, timers, closing, history>>

Radio ==
    /\ At("radio")
    /\ \/ zbHH = "Requested" /\ zbHH' = "InCourse" /\ GoTo("settling") /\ UNCHANGED timer
       \/ zbHH # "Requested" /\ UNCHANGED zbHH /\ GoTo("cleaning") /\ timer' = FALSE
    /\ UNCHANGED <<device, port, uploading, zbDPS, buttons, refresh, closing, history>>

ProgramRadio ==
    /\ At("settling")
    /\ \/ Begin("wireless") /\ GoTo("wireless") /\ UNCHANGED <<zbHH, timer>>
       \/ /\ Refused("wireless") /\ Become([Top EXCEPT !.at = "settled", !.ok = FALSE])
          /\ zbHH' = "FinishFail" /\ timer' = FALSE
    /\ UNCHANGED <<device, uploading, zbDPS, buttons, refresh, closing, history>>

\* The result takes the place of that of the files and of the table.
RadioProgrammed ==
    /\ At("wireless") /\ PortClose
    /\ \E success \in {Served, FALSE} :
         /\ zbHH' = IF success THEN "FinishOk" ELSE "FinishFail"
         /\ Become([Top EXCEPT !.at = "settled", !.ok = success])
    /\ timer' = FALSE
    /\ UNCHANGED <<device, uploading, zbDPS, buttons, refresh, closing, history>>

Settled ==
    /\ At("settled") /\ GoTo("cleaning") /\ timer' = FALSE
    /\ UNCHANGED <<device, port, update, buttons, refresh, closing, history>>

\* RebootDevice, whose result is ignored as well.
Reboot ==
    /\ At("cleaning") /\ GoTo("rebooting")
    /\ Silent \/ UNCHANGED port
    /\ UNCHANGED <<device, update, buttons, timers, closing, history>>

Rebooted ==
    /\ At("rebooting") /\ GoTo("ending")
    /\ UNCHANGED <<device, port, update, buttons, timers, closing, history>>

\* When a firmware waits for the next update, the panel is prepared again,
\* which erases the message; Finish stays as it is.
Ending ==
    /\ At("ending") /\ Pop
    /\ uploading' = FALSE /\ enabled' = TRUE /\ refresh' = TRUE
    /\ IF Reported
         THEN next' = TRUE /\ info' = "none" /\ timer' = TRUE /\ UNCHANGED finish
         ELSE /\ next' = FALSE /\ finish' = TRUE /\ UNCHANGED timer
              /\ info' = IF Top.ok THEN "success"
                         ELSE IF uploading THEN "fail" ELSE "aborted"
    /\ noFolder' = FALSE
    /\ UNCHANGED <<device, port, zbHH, zbDPS, panel, closing, cancelled, fault>>
-----------------------------------------------------------------------------
(* The user.  A message box disables the wizard, but not its timers.       *)

Pumping == fault = "none" /\ (n > 0 => Top.at \in Services \cup Waits \cup Boxes)
BoxOpen == \E k \in 1 .. n : frames[k].at \in Boxes
AtTheWizard == Pumping /\ ~BoxOpen /\ ~closing

\* Update: the files are read back first, into a folder that may be refused.
\* What was written and cancelled is counted from here, except under an update.
ClickUpdate ==
    /\ AtTheWizard /\ panel = "update" /\ next /\ enabled /\ ~uploading
    /\ uploading' = TRUE /\ timer' = FALSE /\ refresh' = FALSE
    /\ finish' = FALSE /\ info' = "none"
    /\ \/ /\ Push(FrameAt("backup")) /\ UNCHANGED noFolder
          /\ IF UpdateUnderWay THEN UNCHANGED <<written, table, cancelled>>
                               ELSE written' = {} /\ table' = "old" /\ cancelled' = FALSE
       \/ /\ Push(FrameAt("asking")) /\ noFolder' = TRUE
          /\ UNCHANGED <<written, table, cancelled>>
    /\ UNCHANGED <<attached, port, zbHH, zbDPS, panel, next, enabled, closing, fault>>

Ask(box) ==
    /\ AtTheWizard /\ panel = "update" /\ uploading /\ Push(FrameAt(box))
    /\ timer' = FALSE /\ refresh' = FALSE
    /\ UNCHANGED <<device, port, update, buttons, closing, history>>
ClickCancelUpdate == next /\ enabled /\ Ask("asking")
ClickClose == Ask("askingClose")

Answer ==
    /\ At("asking") \/ At("askingClose")
    /\ Pop /\ timer' = TRUE
    /\ \/ UNCHANGED <<interrupt, finish, uploading, cancelled, closing>>
       \/ /\ interrupt' = TRUE /\ finish' = TRUE /\ uploading' = FALSE /\ cancelled' = TRUE
          /\ closing' = (closing \/ Top.at = "askingClose")
    /\ UNCHANGED <<device, busy, found, zbHH, zbDPS, panel, next, enabled, info, refresh,
                   noFolder, fault>>

\* The close box when nothing is uploaded.
Close ==
    /\ AtTheWizard /\ (panel = "update" => ~uploading)
    /\ closing' = TRUE /\ timer' = (timer /\ panel # "update")
    /\ UNCHANGED <<device, port, update, buttons, refresh, stack, history>>

\* Escape, on any panel, and the button Close of the start panel: OnWizFinish of
\* the wizard closes the port, whoever uses it.
Escape ==
    /\ AtTheWizard /\ closing' = TRUE /\ PortClose
    /\ frames' = IF busy THEN Freed ELSE frames
    /\ UNCHANGED <<device, update, buttons, timers, n, history>>

ClickFinish ==
    /\ AtTheWizard /\ panel = "update" /\ finish
    /\ panel' = "start" /\ next' = FALSE /\ enabled' = TRUE /\ timer' = FALSE
    /\ UNCHANGED <<device, port, update, finish, info, refresh, closing, stack, history>>

ClickLink ==
    /\ AtTheWizard /\ panel = "start" /\ ~busy /\ found /\ attached
    /\ panel' = "update" /\ next' = TRUE /\ enabled' = TRUE /\ timer' = TRUE
    /\ info' = "none"
    /\ UNCHANGED <<device, port, update, finish, refresh, closing, stack, history>>
-----------------------------------------------------------------------------
(* The timers, and the handheld.                                           *)

\* The panel asks for the version, and disables Next when it gets none.
PanelTimer ==
    /\ Pumping /\ timer /\ ~uploading /\ ~(n = 0 /\ closing)
    /\ enabled' \in BOOLEAN
    /\ Silent \/ UNCHANGED port
    /\ UNCHANGED <<device, update, panel, next, finish, info, timers, closing, stack, history>>

\* The timer of the start panel, which is not killed when the panel changes.
StartTimerAlways ==
    /\ Pumping /\ ~busy /\ ~(n = 0 /\ closing)
    /\ \A k \in 1 .. n : frames[k].at \notin Refresh
StartTimer ==
    /\ Pumping /\ refresh /\ ~busy /\ ~(n = 0 /\ closing)
    /\ \A k \in 1 .. n : frames[k].at \notin Refresh

\* CheckForUpdate deletes the tables that an update may be reading.
TablesDeleted ==
    [k \in Depth |-> [frames[k] EXCEPT !.stale = @ \/ frames[k].at = "pausing"]]

CheckForUpdate ==
    /\ StartTimer
    /\ \/ /\ n < MaxFrames /\ Begin("checking") /\ refresh' = FALSE
          /\ n' = n + 1
          /\ frames' = [TablesDeleted EXCEPT ![n + 1] = FrameAt("checking")]
       \/ Refused("checking") /\ frames' = TablesDeleted /\ UNCHANGED <<n, refresh>>
    /\ UNCHANGED <<device, update, buttons, timer, closing, history>>

CheckedQuietly ==
    /\ At("checking") /\ PortClose /\ Pop /\ UNCHANGED refresh
    /\ UNCHANGED <<device, update, buttons, timer, closing, history>>
Checked ==
    /\ At("checking") /\ PortClose /\ Pop /\ refresh' = TRUE
    /\ UNCHANGED <<device, update, buttons, timer, closing, history>>

FoundTAScopePortCom ==
    /\ StartTimer
    /\ found' \in BOOLEAN /\ Push(FrameAt("searching"))
    /\ UNCHANGED <<device, busy, interrupt, update, buttons, timers, closing, history>>

Searched ==
    /\ At("searching") /\ Pop
    /\ UNCHANGED <<device, port, update, buttons, timers, closing, history>>

Plug ==
    /\ attached' = ~attached /\ fault = "none"
    /\ UNCHANGED <<written, table, port, update, buttons, timers, closing, stack, history>>

\* A handler goes on with what was freed under it.
UseFreed ==
    /\ n > 0 /\ Top.stale /\ fault = "none"
    /\ fault' = IF Top.at = "pausing" THEN "freedTable" ELSE "freedPort"
    /\ UNCHANGED <<device, port, update, buttons, timers, closing, stack, cancelled, noFolder>>
-----------------------------------------------------------------------------
OnWizNext ==
    \/ BackupFile \/ FileRead \/ StartUploading \/ UploadFile \/ FileWritten
    \/ NextFile \/ UploadTable \/ TableWritten \/ UploadFailed \/ Programming
    \/ SensorOffline \/ SensorProgrammed \/ Radio \/ ProgramRadio
    \/ RadioProgrammed \/ Settled \/ Reboot \/ Rebooted \/ Ending

Window == fault = "none" /\ (OnWizNext \/ Answer \/ Checked \/ Searched \/ UseFreed)

User == ClickUpdate \/ ClickCancelUpdate \/ ClickClose \/ Close \/ Escape
        \/ ClickFinish \/ ClickLink

Next == Window \/ User \/ PanelTimer \/ CheckForUpdate \/ FoundTAScopePortCom \/ Plug

\* A service or a wait that is at a pump goes on at each turn of it, when what
\* the pump dispatched has returned.
Spec == Init /\ [][Next]_vars /\ \A k \in Depth : SF_vars(n = k /\ Window)
-----------------------------------------------------------------------------
(* What an update promises.                                                *)

\* The handheld gets the new file table only when it has all the files of it,
\* unless the user stopped the update.
TableTellsTruth == table = "new" => written = File \/ cancelled

\* The message of success is shown when the files and their table, or the files
\* and the firmware of the radio, have been written, unless the user stopped
\* the update.
SuccessIsHonest ==
    info = "success" =>
        \/ cancelled
        \/ written = File /\ (table = "new" \/ zbHH = "FinishOk")

\* A handler goes on with a port that was closed under it only when the wizard
\* is being closed, and with a file table that was deleted under it only after
\* the user stopped an update.
FreedOnlyUnderTheUser ==
    /\ fault = "freedPort" => closing
    /\ fault = "freedTable" => cancelled

\* When no handler is left, no update is taken to be running, the connection is
\* refreshed again, the port is closed and a button leads on, unless the folder
\* of the backup was refused.
NothingLeftOn ==
    n = 0 /\ ~noFolder /\ ~closing => ~uploading /\ refresh /\ ~busy /\ (next \/ finish)

\* If the user answers the boxes, all the handlers end, or one of them uses what
\* was freed under it.
UpdateEnds == []<>~BoxOpen => (n > 0 ~> n = 0 \/ fault # "none")
=============================================================================
