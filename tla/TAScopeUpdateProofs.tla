------------------------ MODULE TAScopeUpdateProofs ------------------------
(***************************************************************************)
(* The safety of the update of a TA-Scope, for every number of files and   *)
(* of handlers on top of one another.                                      *)
(*                                                                         *)
(* The argument: unless the user has stopped it, an update is alone.  It   *)
(* is the only handler of its kind on the stack, the connection is not     *)
(* refreshed under it, and what its frame has reached says what has been   *)
(* written.  The last part says why the handlers come to their end.        *)
(***************************************************************************)
EXTENDS TAScopeUpdate, TLAPS

Updating(k) == frames[k].at \notin NotUpdating

Loop == {"files", "writing"}
Later == {"table", "programming", "offline", "sensor", "radio", "settling", "wireless"}
Last == {"settled", "cleaning", "rebooting", "ending"}

\* What a frame that is at f.at knows of the handheld.
Reached(f, w, t, z) ==
    /\ f.at \in Loop => f.file >= 1 /\ (f.ok => 1 .. (f.file - 1) \subseteq w)
    /\ f.at = "pausing" => f.file >= 1 /\ (f.ok => 1 .. f.file \subseteq w)
    /\ f.at \in Later => w = File /\ (f.ok /\ f.at # "table" => t = "new")
    /\ f.at \in Last /\ f.ok => w = File /\ (t = "new" \/ z = "FinishOk")

\* An update that was not stopped is alone.
Alone ==
    \A k \in 1 .. n : Updating(k) /\ ~cancelled =>
        /\ uploading /\ ~refresh /\ info # "success"
        /\ Reached(frames[k], written, table, zbHH)
        /\ \A j \in 1 .. n : j # k => ~Updating(j)
        /\ \A j \in 1 .. n : j > k => frames[j].at # "checking"

\* Which frames hold something that was freed.
Alive ==
    \A k \in 1 .. n : frames[k].stale =>
        \/ frames[k].at = "pausing" /\ cancelled
        \/ frames[k].at \in Services /\ closing

\* Who is to undo what is not as it was before.
Undone ==
    /\ uploading /\ ~noFolder => \E k \in 1 .. n : Updating(k)
    /\ ~refresh /\ ~noFolder =>
           \E k \in 1 .. n : Updating(k) \/ frames[k].at = "checking"
    /\ busy => \E k \in 1 .. n : frames[k].at \in Services
    /\ next \/ finish

\* A file is written when it is one.
Writes == \A k \in 1 .. n : frames[k].at = "writing" => frames[k].file \in File

IInv ==
    /\ TypeOK /\ Writes /\ Alone /\ Alive /\ Undone
    /\ TableTellsTruth /\ SuccessIsHonest /\ FreedOnlyUnderTheUser
-----------------------------------------------------------------------------
(* Types.                                                                  *)

LEMMA InitIInv == Init => IInv
<1> SUFFICES ASSUME Init PROVE IInv
  OBVIOUS
<1> USE DEF Init
<1>1. TypeOK
  <2>1. FrameAt("none") \in Frame
    BY DEF Frame, FrameAt, Position, Services, Interruptible, Waits, Boxes, Straight
  <2>2. frames \in [Depth -> Frame] /\ n \in 0 .. MaxFrames
    BY <2>1, TAScopeUpdateAssumption
  <2>3. QED
    BY <2>2 DEF TypeOK, Updated
<1>2. 1 .. n = {}
  OBVIOUS
<1>3. Writes /\ Alone /\ Alive /\ Undone
  BY <1>2 DEF Writes, Alone, Alive, Undone
<1>4. TableTellsTruth /\ SuccessIsHonest /\ FreedOnlyUnderTheUser
  BY DEF TableTellsTruth, SuccessIsHonest, FreedOnlyUnderTheUser
<1>5. QED
  BY <1>1, <1>3, <1>4 DEF IInv

\* The stack stays a stack of frames, whatever is done to it.
StackOK == n \in 0 .. MaxFrames /\ frames \in [Depth -> Frame]

LEMMA PushType ==
    ASSUME StackOK, NEW p \in Position, Push(FrameAt(p))
    PROVE  StackOK'
BY TAScopeUpdateAssumption DEF StackOK, Push, Depth, Frame, FrameAt

LEMMA PopType == ASSUME StackOK, n > 0, Pop PROVE StackOK'
<1>1. FrameAt("none") \in Frame
  BY DEF Frame, FrameAt, Position, Services, Interruptible, Waits, Boxes, Straight
<1>2. QED
  BY <1>1, TAScopeUpdateAssumption DEF StackOK, Pop, Depth

LEMMA TopType == ASSUME StackOK, n > 0 PROVE n \in Depth /\ Top \in Frame
BY TAScopeUpdateAssumption DEF StackOK, Top, Depth

LEMMA BecomeType ==
    ASSUME StackOK, n > 0, NEW f \in Frame, Become(f)
    PROVE  StackOK'
BY TAScopeUpdateAssumption DEF StackOK, Become, Depth

LEMMA DeletedType ==
    ASSUME StackOK
    PROVE  Freed \in [Depth -> Frame] /\ TablesDeleted \in [Depth -> Frame]
<1>1. \A g \in Frame : \A b \in BOOLEAN : [g EXCEPT !.stale = b] \in Frame
  BY DEF Frame
<1> SUFFICES ASSUME NEW k \in Depth
             PROVE  /\ [frames[k] EXCEPT !.stale = @ \/ frames[k].at \in Services] \in Frame
                    /\ [frames[k] EXCEPT !.stale = @ \/ frames[k].at = "pausing"] \in Frame
  BY DEF Freed, TablesDeleted
<1>2. frames[k] \in Frame /\ frames[k].stale \in BOOLEAN
  BY DEF StackOK, Frame
<1> QED  BY <1>1, <1>2

\* The other variables, in parts.
DeviceOK == attached \in BOOLEAN /\ written \subseteq File /\ table \in {"old", "new"}
PortOK == busy \in BOOLEAN /\ found \in BOOLEAN /\ interrupt \in BOOLEAN
UpdateOK == uploading \in BOOLEAN /\ zbHH \in Updated /\ zbDPS \in Updated
ButtonsOK ==
    /\ panel \in {"update", "start"}
    /\ next \in BOOLEAN /\ enabled \in BOOLEAN /\ finish \in BOOLEAN
    /\ info \in {"none", "uploading", "success", "fail", "aborted"}
RestOK ==
    /\ timer \in BOOLEAN /\ refresh \in BOOLEAN /\ closing \in BOOLEAN
    /\ cancelled \in BOOLEAN /\ noFolder \in BOOLEAN
    /\ fault \in {"none", "freedPort", "freedTable"}

LEMMA OthersType ==
    ASSUME TypeOK, Next, n > 0 /\ Top.at = "writing" => Top.file \in File
    PROVE  DeviceOK' /\ PortOK' /\ UpdateOK' /\ ButtonsOK' /\ RestOK'
<1>1. DeviceOK /\ PortOK /\ UpdateOK /\ ButtonsOK /\ RestOK
  BY DEF TypeOK, DeviceOK, PortOK, UpdateOK, ButtonsOK, RestOK
<1> USE DEF device, port, update, buttons, timers, history, stack, Updated,
            Begin, Refused, Silent, PortClose
<1>2. CASE OnWizNext
  <2> USE <1>1, <1>2
      DEF OnWizNext, BackupFile, FileRead, StartUploading, UploadFile, FileWritten, NextFile,
          UploadTable, TableWritten, UploadFailed, Programming, SensorOffline,
          SensorProgrammed, Radio, ProgramRadio, RadioProgrammed, Settled, Reboot,
          Rebooted, Ending, Plan
  <2>1. DeviceOK'  BY DEF DeviceOK, At
  <2>2. PortOK'  BY DEF PortOK
  <2>3. UpdateOK'  BY DEF UpdateOK
  <2>4. ButtonsOK'  BY DEF ButtonsOK
  <2>5. RestOK'  BY DEF RestOK
  <2> QED  BY <2>1, <2>2, <2>3, <2>4, <2>5
<1>3. CASE Answer \/ Checked \/ Searched \/ UseFreed \/ PanelTimer \/ CheckForUpdate
           \/ FoundTAScopePortCom \/ Plug
  <2> USE <1>1, <1>3
      DEF Answer, Checked, Searched, UseFreed, PanelTimer, CheckForUpdate,
          FoundTAScopePortCom, Plug
  <2>1. DeviceOK'  BY DEF DeviceOK
  <2>2. PortOK'  BY DEF PortOK
  <2>3. UpdateOK'  BY DEF UpdateOK
  <2>4. ButtonsOK'  BY DEF ButtonsOK
  <2>5. RestOK'  BY DEF RestOK
  <2> QED  BY <2>1, <2>2, <2>3, <2>4, <2>5
<1>4. CASE User
  <2> USE <1>1, <1>4
      DEF User, ClickUpdate, ClickCancelUpdate, ClickClose, Ask, Close, Escape,
          ClickFinish, ClickLink
  <2>1. DeviceOK'  BY DEF DeviceOK
  <2>2. PortOK'  BY DEF PortOK
  <2>3. UpdateOK'  BY DEF UpdateOK
  <2>4. ButtonsOK'  BY DEF ButtonsOK
  <2>5. RestOK'  BY DEF RestOK
  <2> QED  BY <2>1, <2>2, <2>3, <2>4, <2>5
<1> QED
  <2> HIDE DEF PortOK
  <2> QED  BY <1>2, <1>3, <1>4 DEF Next, Window
-----------------------------------------------------------------------------
(* The steps of an update.                                                 *)

Continues(f) ==
    /\ f \in Frame /\ Become(f) /\ ~f.stale /\ f.at \notin NotUpdating
    /\ f.at = "writing" => f.file \in File
    /\ busy' => f.at \in Services \/ (busy /\ Top.at \notin Services)
    /\ ~cancelled => Reached(f, written', table', zbHH')

UpdatePosition == Position \ NotUpdating

\* The positions of an update, and those in a service.
LEMMA Positions ==
    /\ UpdatePosition = {"backup", "files", "programming", "radio", "ending", "offline",
                         "pausing", "settling", "settled", "cleaning", "rebooting",
                         "reading", "writing", "table", "sensor", "wireless"}
    /\ Services = {"reading", "writing", "table", "checking", "sensor", "wireless"}
BY DEF UpdatePosition, Position, NotUpdating, Services, Interruptible, Waits, Boxes, Straight,
       Refresh

LEMMA Counted ==
    ASSUME NEW g \in Frame, NEW p \in Position, NEW i \in Nat
    PROVE  [g EXCEPT !.at = p, !.file = i] \in Frame
<1> DEFINE h == [g EXCEPT !.at = p]
<1>1. h \in Frame
  BY DEF Frame
<1> HIDE DEF h
<1>2. [h EXCEPT !.file = i] \in Frame
  BY <1>1 DEF Frame
<1> QED  BY <1>2 DEF h

LEMMA Steps ==
    ASSUME TypeOK, Alone, OnWizNext, ~Ending
    PROVE  \E f : Continues(f)
<1> USE DEF At, GoTo
<1>1. n \in Depth /\ Top \in Frame /\ ~Top.stale /\ Top.ok \in BOOLEAN
     /\ Top.file \in Nat /\ Top.file + 1 \in Nat
  <2>1. n > 0 /\ ~Top.stale
    BY DEF OnWizNext, BackupFile, FileRead, StartUploading, UploadFile, FileWritten, NextFile,
       UploadTable, FilesDone, TableWritten, UploadFailed, Programming, SensorOffline,
       SensorProgrammed, Radio, ProgramRadio, RadioProgrammed, Settled, Reboot, Rebooted
  <2> QED  BY <2>1, TopType DEF TypeOK, StackOK, Frame
<1>2. Top.at \in UpdatePosition /\ ~cancelled =>
          uploading /\ Reached(Top, written, table, zbHH)
  BY <1>1 DEF Alone, Updating, Top, Depth, UpdatePosition
<1> DEFINE To(p) == [Top EXCEPT !.at = p]
           Fail(p) == [Top EXCEPT !.at = p, !.ok = FALSE]
           Count(p, i) == [Top EXCEPT !.at = p, !.file = i]
<1>3. ASSUME NEW p \in UpdatePosition
      PROVE  /\ To(p) \in Frame /\ To(p).at = p /\ ~To(p).stale
             /\ To(p).file = Top.file /\ To(p).ok = Top.ok
             /\ Fail(p) \in Frame /\ Fail(p).at = p /\ ~Fail(p).stale
             /\ Fail(p).file = Top.file /\ ~Fail(p).ok
  BY <1>1 DEF Frame, UpdatePosition
<1>4. ASSUME NEW p \in UpdatePosition, NEW i \in Nat
      PROVE  /\ Count(p, i) \in Frame /\ Count(p, i).at = p /\ ~Count(p, i).stale
             /\ Count(p, i).file = i /\ Count(p, i).ok = Top.ok
  <2>1. Count(p, i) \in Frame
    BY <1>1, Counted DEF UpdatePosition
  <2> QED  BY <1>1, <2>1 DEF Frame
<1>5. Top.at = "backup" => \A i \in Nat : [Top EXCEPT !.file = i] = Count("backup", i)
  BY <1>1 DEF Frame
<1> HIDE DEF To, Fail, Count
<1>6. Top.at \in Loop \cup {"pausing"} /\ ~cancelled =>
        /\ Top.file >= 1
        /\ Top.ok => 1 .. (Top.file - 1) \subseteq written
        /\ Top.ok /\ Top.at = "pausing" => 1 .. Top.file \subseteq written
  <2>1. 1 .. (Top.file - 1) \subseteq 1 .. Top.file
    BY <1>1
  <2> QED  BY <1>2, <2>1, Positions DEF Reached, Loop
<1>7. written \subseteq File
  BY DEF TypeOK
<1>8. ASSUME NEW f \in Frame, f.at \in UpdatePosition, ~f.stale, Become(f),
             f.at = "writing" => f.file \in File,
             ((busy' => busy) /\ Top.at \notin Services) \/ ~busy' \/ f.at \in Services,
             ~cancelled => Reached(f, written', table', zbHH')
      PROVE  Continues(f)
  <2>1. busy' => f.at \in Services \/ (busy /\ Top.at \notin Services)
    BY <1>8
  <2>2. f.at \notin NotUpdating
    BY <1>8 DEF UpdatePosition
  <2> QED  BY <1>8, <2>1, <2>2 DEF Continues
<1>a. CASE BackupFile
  <2> DEFINE f == Count("backup", Top.file + 1)
  <2>1. /\ Top.at = "backup"
        /\ \/ Become(To("reading"))
           \/ Become([Top EXCEPT !.file = Top.file + 1]) /\ (busy' => busy)
    BY <1>a DEF BackupFile, Begin, Refused, Silent, port, To
  <2>2. [Top EXCEPT !.file = Top.file + 1] = f
    BY <1>1, <1>5, <2>1
  <2>3. f \in Frame /\ f.at = "backup" /\ ~f.stale
    BY <1>1, <1>4, Positions
  <2> HIDE DEF f
  <2>4. Continues(To("reading")) \/ Continues(f)
    BY <1>3, <1>8, <2>1, <2>2, <2>3, Positions DEF Reached, Loop, Later, Last
  <2> QED  BY <2>4
<1>b. CASE FileRead
  <2> DEFINE f == Count("backup", Top.file + 1)
  <2>1. Become(f) /\ ~busy'
    BY <1>b DEF FileRead, PortClose, Count
  <2>2. f \in Frame /\ f.at = "backup" /\ ~f.stale
    BY <1>1, <1>4, Positions
  <2> HIDE DEF f
  <2>3. Continues(f)
    BY <1>8, <2>1, <2>2, Positions DEF Reached, Loop, Later, Last
  <2> QED  BY <2>3
<1>c. CASE StartUploading
  <2> DEFINE f == Count("files", 1)
  <2>1. Top.at = "backup" /\ (busy' => busy) /\ Become(f)
    BY <1>c DEF StartUploading, port, Count
  <2>2. f \in Frame /\ f.at = "files" /\ ~f.stale /\ f.file = 1
    BY <1>4, Positions
  <2> HIDE DEF f
  <2>3. Reached(f, written', table', zbHH')
    BY <2>2 DEF Reached, Loop, Later, Last
  <2>4. Continues(f)
    BY <1>8, <2>1, <2>2, <2>3, Positions
  <2> QED  BY <2>4
<1>d. CASE UploadFile
  <2>1. /\ Top.at = "files" /\ Top.file \in File /\ Top.ok /\ written' = written
        /\ \/ Become(To("writing"))
           \/ Become(Fail("pausing")) /\ (busy' => busy)
    BY <1>d DEF UploadFile, Begin, Refused, Silent, device, port, To, Fail
  <2>2. /\ ~cancelled => Reached(To("writing"), written', table', zbHH')
        /\ ~cancelled => Reached(Fail("pausing"), written', table', zbHH')
    BY <1>1, <1>3, <1>6, <2>1, Positions DEF Reached, Loop, Later, Last
  <2>3. Continues(To("writing")) \/ Continues(Fail("pausing"))
    BY <1>3, <1>8, <2>1, <2>2, Positions
  <2> QED  BY <2>3
<1>e. CASE FileWritten
  <2>1. /\ Top.at = "writing" /\ ~busy'
        /\ \/ Become(To("pausing")) /\ written' = written \cup {Top.file}
           \/ Become(Fail("pausing")) /\ written' = written
    BY <1>e DEF FileWritten, PortClose, To, Fail
  <2>2. Top.file >= 1 => 1 .. Top.file = (1 .. (Top.file - 1)) \cup {Top.file}
    BY <1>1
  <2>3. /\ ~cancelled => Reached(Fail("pausing"), written', table', zbHH')
        /\ written' = written \cup {Top.file} /\ ~cancelled =>
             Reached(To("pausing"), written', table', zbHH')
    BY <1>1, <1>3, <1>6, <2>1, <2>2, Positions DEF Reached, Loop, Later, Last
  <2>4. Continues(To("pausing")) \/ Continues(Fail("pausing"))
    BY <1>3, <1>8, <2>1, <2>3, Positions
  <2> QED  BY <2>4
<1>f. CASE NextFile
  <2> DEFINE f == Count("files", Top.file + 1)
  <2>1. /\ Top.at = "pausing" /\ (busy' => busy) /\ written' = written
        /\ Become(f)
    BY <1>f DEF NextFile, device, port, Count
  <2>2. f \in Frame /\ f.at = "files" /\ ~f.stale /\ f.file = Top.file + 1 /\ f.ok = Top.ok
    BY <1>1, <1>4, Positions
  <2> HIDE DEF f
  <2>3. f.file >= 1 /\ f.file - 1 = Top.file
    BY <1>1, <2>2
  <2>4. ~cancelled => Reached(f, written', table', zbHH')
    BY <1>6, <2>1, <2>2, <2>3 DEF Reached, Loop, Later, Last
  <2>5. Continues(f)
    BY <1>8, <2>1, <2>2, <2>4, Positions
  <2> QED  BY <2>5
<1>g. CASE UploadTable
  <2>1. /\ Top.at = "files" /\ Top.ok /\ ~(Top.file \in File /\ uploading)
        /\ written' = written
        /\ \/ Become(To("table"))
           \/ Become(Fail("programming")) /\ (busy' => busy)
    BY <1>g DEF UploadTable, FilesDone, Begin, Refused, Silent, device, port, To, Fail
  <2>2. ~cancelled => written = File
    <3> SUFFICES ASSUME ~cancelled PROVE File \subseteq written
      BY <1>7
    <3>1. Top.file >= 1 /\ 1 .. (Top.file - 1) \subseteq written /\ Top.file \notin File
      BY <1>2, <1>6, <2>1, Positions DEF Loop
    <3>2. File \subseteq 1 .. (Top.file - 1)
      BY <1>1, <3>1, TAScopeUpdateAssumption DEF File
    <3> QED  BY <3>1, <3>2
  <2>3. /\ ~cancelled => Reached(To("table"), written', table', zbHH')
        /\ ~cancelled => Reached(Fail("programming"), written', table', zbHH')
    BY <1>3, <2>1, <2>2, Positions DEF Reached, Loop, Later, Last
  <2>4. Continues(To("table")) \/ Continues(Fail("programming"))
    BY <1>3, <1>8, <2>1, <2>3, Positions
  <2> QED  BY <2>4
<1>h. CASE TableWritten
  <2>1. /\ Top.at = "table" /\ ~busy' /\ written' = written
        /\ \/ Become(To("programming")) /\ table' = "new"
           \/ Become(Fail("programming"))
    BY <1>h, <1>1 DEF TableWritten, PortClose, To, Fail
  <2>2. Continues(To("programming")) \/ Continues(Fail("programming"))
    BY <1>1, <1>2, <1>3, <1>4, <2>1, Positions, TAScopeUpdateAssumption
       DEF Continues, UpdatePosition, Reached, Loop, Later, Last, File
  <2> QED  BY <2>2
<1>i. CASE UploadFailed
  <2>1. /\ Top.at = "files" /\ ~Top.ok /\ (busy' => busy)
        /\ Become(To("ending"))
    BY <1>i, <1>1 DEF UploadFailed, FilesDone, port, To
  <2>2. Continues(To("ending"))
    BY <1>1, <1>2, <1>3, <1>4, <2>1, Positions, TAScopeUpdateAssumption
       DEF Continues, UpdatePosition, Reached, Loop, Later, Last, File
  <2> QED  BY <2>2
<1>j. CASE Programming
  <2>1. /\ Top.at = "programming" /\ written' = written /\ table' = table
        /\ \/ Become(To("sensor"))
           \/ (busy' => busy) /\ (Become(To("radio")) \/ Become(To("offline")))
    BY <1>j, <1>1 DEF Programming, Begin, Refused, Silent, device, port, To
  <2>2. Continues(To("sensor")) \/ Continues(To("radio")) \/ Continues(To("offline"))
    BY <1>1, <1>2, <1>3, <1>4, <2>1, Positions, TAScopeUpdateAssumption
       DEF Continues, UpdatePosition, Reached, Loop, Later, Last, File
  <2> QED  BY <2>2
<1>k. CASE SensorOffline
  <2>1. /\ Top.at = "offline" /\ written' = written /\ table' = table
        /\ \/ Become(To("sensor"))
           \/ (busy' => busy) /\ (Become(To("radio")) \/ Become(To("offline")))
    BY <1>k, <1>1 DEF SensorOffline, Begin, Refused, Silent, device, port, To
  <2>2. Continues(To("sensor")) \/ Continues(To("radio")) \/ Continues(To("offline"))
    BY <1>1, <1>2, <1>3, <1>4, <2>1, Positions, TAScopeUpdateAssumption
       DEF Continues, UpdatePosition, Reached, Loop, Later, Last, File
  <2> QED  BY <2>2
<1>l. CASE SensorProgrammed
  <2>1. /\ Top.at = "sensor" /\ ~busy' /\ written' = written /\ table' = table
        /\ Become(To("radio"))
    BY <1>l, <1>1 DEF SensorProgrammed, PortClose, device, To
  <2>2. Continues(To("radio"))
    BY <1>1, <1>2, <1>3, <1>4, <2>1, Positions, TAScopeUpdateAssumption
       DEF Continues, UpdatePosition, Reached, Loop, Later, Last, File
  <2> QED  BY <2>2
<1>m. CASE Radio
  <2>1. /\ Top.at = "radio" /\ (busy' => busy) /\ written' = written /\ table' = table
        /\ Become(To("settling")) \/ Become(To("cleaning"))
    BY <1>m, <1>1 DEF Radio, device, port, To
  <2>2. Continues(To("settling")) \/ Continues(To("cleaning"))
    BY <1>1, <1>2, <1>3, <1>4, <2>1, Positions, TAScopeUpdateAssumption
       DEF Continues, UpdatePosition, Reached, Loop, Later, Last, File
  <2> QED  BY <2>2
<1>n. CASE ProgramRadio
  <2>1. /\ Top.at = "settling" /\ written' = written /\ table' = table
        /\ \/ Become(To("wireless"))
           \/ (busy' => busy) /\ Become(Fail("settled"))
    BY <1>n, <1>1 DEF ProgramRadio, Begin, Refused, Silent, device, port, To, Fail
  <2>2. Continues(To("wireless")) \/ Continues(Fail("settled"))
    BY <1>1, <1>2, <1>3, <1>4, <2>1, Positions, TAScopeUpdateAssumption
       DEF Continues, UpdatePosition, Reached, Loop, Later, Last, File
  <2> QED  BY <2>2
<1>o. CASE RadioProgrammed
  <2>1. PICK success \in {Served, FALSE} : Become([Top EXCEPT !.at = "settled", !.ok = success])
                                         /\ zbHH' = IF success THEN "FinishOk" ELSE "FinishFail"
    BY <1>o DEF RadioProgrammed
  <2> DEFINE f == [Top EXCEPT !.at = "settled", !.ok = success]
  <2>2. f \in Frame /\ f.at = "settled" /\ ~f.stale /\ f.ok = success
    BY <1>1, Positions DEF Frame, UpdatePosition, Served
  <2>3. /\ Top.at = "wireless" /\ ~busy' /\ written' = written
        /\ Become(f) /\ zbHH' = IF f.ok THEN "FinishOk" ELSE "FinishFail"
    BY <1>o, <2>1, <2>2 DEF RadioProgrammed, PortClose, device
  <2> HIDE DEF f
  <2>4. Continues(f)
    BY <1>1, <1>2, <2>2, <2>3, Positions
       DEF Continues, UpdatePosition, Reached, Loop, Later, Last
  <2> QED  BY <2>4
<1>p. CASE Settled
  <2>1. /\ Top.at = "settled" /\ (busy' => busy)
        /\ UNCHANGED <<written, table, zbHH>>
        /\ Become(To("cleaning"))
    BY <1>p, <1>1 DEF Settled, device, port, update, To
  <2>2. Continues(To("cleaning"))
    BY <1>1, <1>2, <1>3, <1>4, <2>1, Positions, TAScopeUpdateAssumption
       DEF Continues, UpdatePosition, Reached, Loop, Later, Last, File
  <2> QED  BY <2>2
<1>q. CASE Reboot
  <2>1. /\ Top.at = "cleaning" /\ (busy' => busy)
        /\ UNCHANGED <<written, table, zbHH>>
        /\ Become(To("rebooting"))
    BY <1>q, <1>1 DEF Reboot, Silent, device, port, update, To
  <2>2. Continues(To("rebooting"))
    BY <1>1, <1>2, <1>3, <1>4, <2>1, Positions, TAScopeUpdateAssumption
       DEF Continues, UpdatePosition, Reached, Loop, Later, Last, File
  <2> QED  BY <2>2
<1>r. CASE Rebooted
  <2>1. /\ Top.at = "rebooting" /\ (busy' => busy)
        /\ UNCHANGED <<written, table, zbHH>>
        /\ Become(To("ending"))
    BY <1>r, <1>1 DEF Rebooted, device, port, update, To
  <2>2. Continues(To("ending"))
    BY <1>1, <1>2, <1>3, <1>4, <2>1, Positions, TAScopeUpdateAssumption
       DEF Continues, UpdatePosition, Reached, Loop, Later, Last, File
  <2> QED  BY <2>2
<1> QED
  BY <1>a, <1>b, <1>c, <1>d, <1>e, <1>f, <1>g, <1>h, <1>i, <1>j, <1>k, <1>l, <1>m, <1>n,
     <1>o, <1>p, <1>q, <1>r DEF OnWizNext

\* What the steps of an update leave alone, and what they do to the handheld.
LEMMA StepsLeave ==
    ASSUME TypeOK, Alone, OnWizNext, ~Ending
    PROVE  /\ UNCHANGED <<uploading, refresh, closing, cancelled, noFolder, fault, next, finish>>
           /\ n \in Depth /\ info' \in {info, "uploading"} /\ Updating(n)
           /\ written \subseteq written'
           /\ table' = table \/ written = File \/ cancelled
<1> USE DEF OnWizNext, BackupFile, FileRead, StartUploading, UploadFile, FileWritten, NextFile,
       UploadTable, FilesDone, TableWritten, UploadFailed, Programming, SensorOffline,
       SensorProgrammed, Radio, ProgramRadio, RadioProgrammed, Settled, Reboot, Rebooted
<1>1. /\ UNCHANGED <<uploading, refresh, closing, cancelled, noFolder, fault, next, finish>>
      /\ info' \in {info, "uploading"} /\ written \subseteq written'
  BY DEF device, port, update, buttons, timers, history
<1>2. n > 0 /\ Top.at \in UpdatePosition
  BY Positions DEF At
<1>3. table' = table \/ Top.at = "table"
  BY DEF device, At
<1> HIDE DEF OnWizNext
<1>4. n \in Depth /\ Updating(n)
  BY <1>2, TopType DEF TypeOK, StackOK, Updating, Top, UpdatePosition
<1>5. Top.at = "table" => written = File \/ cancelled
  BY <1>4 DEF Alone, Reached, Later, Top, Depth
<1> QED  BY <1>1, <1>3, <1>4, <1>5

LEMMA TypeStep ==
    ASSUME TypeOK, Writes, Next, StackOK'
    PROVE  TypeOK'
<1>1. n > 0 /\ Top.at = "writing" => Top.file \in File
  BY TopType DEF TypeOK, StackOK, Writes, Top, Depth
<1> QED  BY <1>1, OthersType DEF TypeOK, StackOK, DeviceOK, PortOK, UpdateOK, ButtonsOK, RestOK

LEMMA StepsKeep ==
    ASSUME IInv, OnWizNext, ~Ending, Next
    PROVE  IInv'
<1>1. PICK f : Continues(f)
  BY Steps DEF IInv
<1>2. /\ UNCHANGED <<uploading, refresh, closing, cancelled, noFolder, fault, next, finish>>
      /\ n \in Depth /\ info' \in {info, "uploading"} /\ Updating(n)
      /\ written \subseteq written'
      /\ table' = table \/ written = File \/ cancelled
  BY StepsLeave DEF IInv
<1>3. /\ n' = n /\ n \in 1 .. n /\ frames'[n] = f
      /\ \A k \in 1 .. n : k # n => frames'[k] = frames[k]
  BY <1>1, <1>2, TAScopeUpdateAssumption DEF IInv, TypeOK, Continues, Become, Depth
<1>4. TypeOK'
  BY <1>1, <1>2, TypeStep, BecomeType DEF IInv, TypeOK, StackOK, Continues, Depth
<1>5. Writes'
  BY <1>1, <1>3 DEF IInv, Writes, Continues
<1>6. \A k \in 1 .. n : Updating(k)' <=> Updating(k)
  BY <1>1, <1>2, <1>3 DEF Continues, Updating
<1>7. Alone'
  <2> SUFFICES ASSUME NEW k \in 1 .. n, Updating(k), ~cancelled
               PROVE  /\ uploading /\ ~refresh /\ info' # "success"
                      /\ Reached(frames'[k], written', table', zbHH')
                      /\ \A j \in 1 .. n : j # k => ~Updating(j)
                      /\ \A j \in 1 .. n : j > k => frames'[j].at # "checking"
    BY <1>2, <1>3, <1>6 DEF Alone
  <2>1. k = n /\ uploading /\ ~refresh /\ info # "success"
        /\ \A j \in 1 .. n : j # k => ~Updating(j)
    BY <1>2, <1>3 DEF IInv, Alone
  <2> QED  BY <1>1, <1>2, <1>3, <2>1 DEF Continues, Depth
<1>8. Alive'
  BY <1>1, <1>2, <1>3 DEF IInv, Alive, Continues
<1>9. Undone'
  <2>1. uploading' /\ ~noFolder' => \E k \in 1 .. n' : Updating(k)'
    BY <1>2, <1>3, <1>6
  <2>2. ~refresh' /\ ~noFolder' => \E k \in 1 .. n' : Updating(k)' \/ frames'[k].at = "checking"
    BY <1>2, <1>3, <1>6
  <2>3. busy' => \E k \in 1 .. n' : frames'[k].at \in Services
    BY <1>1, <1>3 DEF IInv, Undone, Continues, Top
  <2>4. next' \/ finish'
    BY <1>2 DEF IInv, Undone
  <2> QED  BY <2>1, <2>2, <2>3, <2>4 DEF Undone, Updating
<1>a. TableTellsTruth'
  BY <1>2, <1>4 DEF IInv, TypeOK, TableTellsTruth
<1>b. SuccessIsHonest'
  <2>1. info' = "success" => cancelled
    BY <1>2, <1>3 DEF IInv, Alone
  <2> QED  BY <1>2, <2>1 DEF SuccessIsHonest
<1>c. FreedOnlyUnderTheUser'
  BY <1>2 DEF IInv, FreedOnlyUnderTheUser
<1> QED  BY <1>4, <1>5, <1>7, <1>8, <1>9, <1>a, <1>b, <1>c DEF IInv
-----------------------------------------------------------------------------
(* The steps that leave the stack as it is, put a handler on it or take    *)
(* one from it.                                                            *)

\* All of the invariant but the types.
Rest ==
    /\ Writes /\ Alone /\ Alive /\ Undone
    /\ TableTellsTruth /\ SuccessIsHonest /\ FreedOnlyUnderTheUser

LEMMA SameStack ==
    ASSUME Rest,
           UNCHANGED <<n, frames, written, table, uploading, zbHH, refresh, cancelled, noFolder>>,
           info' \in {info, "none"}, FreedOnlyUnderTheUser',
           busy' => busy, closing => closing', next' \/ finish'
    PROVE  Rest'
<1>1. Writes' /\ Alone' /\ Alive'
  BY DEF Rest, Writes, Alone, Alive, Updating
<1>2. Undone'
  BY DEF Rest, Undone, Updating
<1>3. TableTellsTruth' /\ SuccessIsHonest'
  BY DEF Rest, TableTellsTruth, SuccessIsHonest
<1> QED  BY <1>1, <1>2, <1>3 DEF Rest

\* A box or a search on top of the others.
LEMMA Pushed ==
    ASSUME TypeOK, Rest, NEW p \in {"asking", "askingClose", "searching"}, Push(FrameAt(p)),
           UNCHANGED <<written, table, zbHH, cancelled, busy, closing, fault>>,
           info' \in {info, "none"}, next' \/ finish', refresh' => refresh,
           noFolder => noFolder', uploading => uploading',
           uploading' /\ ~uploading => noFolder' /\ \A k \in 1 .. n : ~Updating(k) \/ cancelled,
           ~refresh' /\ refresh => noFolder' \/ uploading
    PROVE  Rest'
<1>1. /\ n \in Nat /\ n' = n + 1 /\ frames'[n + 1] = FrameAt(p)
      /\ \A k \in 1 .. n : frames'[k] = frames[k]
      /\ \A k \in 1 .. n' : k = n + 1 \/ k \in 1 .. n
  BY TAScopeUpdateAssumption DEF TypeOK, Push, Depth
<1>2. /\ FrameAt(p).at = p /\ ~FrameAt(p).stale /\ p # "checking" /\ p # "writing"
      /\ p \in NotUpdating /\ p \notin Services
  BY Positions DEF FrameAt, NotUpdating, Refresh
<1>3. /\ \A k \in 1 .. n' : k = n + 1 => ~Updating(k)'
      /\ \A k \in 1 .. n : Updating(k)' <=> Updating(k)
  BY <1>1, <1>2 DEF Updating
<1>4. Writes' /\ Alive'
  BY <1>1, <1>2 DEF Rest, Writes, Alive
<1>5. Alone'
  <2> SUFFICES ASSUME NEW k \in 1 .. n, Updating(k), ~cancelled
               PROVE  /\ uploading' /\ ~refresh' /\ info' # "success"
                      /\ Reached(frames[k], written, table, zbHH)
                      /\ \A j \in 1 .. n' : j # k => ~Updating(j)'
                      /\ \A j \in 1 .. n' : j > k => frames'[j].at # "checking"
    BY <1>1, <1>3 DEF Alone
  <2>1. /\ uploading /\ ~refresh /\ info # "success"
        /\ Reached(frames[k], written, table, zbHH)
        /\ \A j \in 1 .. n : j # k => ~Updating(j)
        /\ \A j \in 1 .. n : j > k => frames[j].at # "checking"
    BY DEF Rest, Alone
  <2>2. uploading' /\ ~refresh' /\ info' # "success"
    BY <2>1
  <2>3. ASSUME NEW j \in 1 .. n'
        PROVE  /\ j # k => ~Updating(j)'
               /\ j > k => frames'[j].at # "checking"
    BY <1>1, <1>2, <1>3, <2>1
  <2> QED  BY <2>1, <2>2, <2>3
<1>6. Undone'
  <2>1. uploading' /\ ~noFolder' => \E k \in 1 .. n : Updating(k)
    BY DEF Rest, Undone
  <2>2. ~refresh' /\ ~noFolder' => \E k \in 1 .. n : Updating(k) \/ frames[k].at = "checking"
    BY DEF Rest, Undone
  <2>3. busy' => \E k \in 1 .. n : frames[k].at \in Services
    BY DEF Rest, Undone
  <2>4. \A k \in 1 .. n : k \in 1 .. n'
    BY <1>1
  <2> QED  BY <1>1, <1>3, <2>1, <2>2, <2>3, <2>4 DEF Undone, Updating
<1>7. TableTellsTruth' /\ SuccessIsHonest' /\ FreedOnlyUnderTheUser'
  BY DEF Rest, TableTellsTruth, SuccessIsHonest, FreedOnlyUnderTheUser
<1> QED  BY <1>4, <1>5, <1>6, <1>7 DEF Rest

\* A handler that is not an update returns to the one below it.
LEMMA Popped ==
    ASSUME TypeOK, Rest, n > 0, Top.at \in NotUpdating, Pop,
           UNCHANGED <<written, table, zbHH, noFolder, fault, info>>,
           cancelled => cancelled', uploading' => uploading,
           uploading => uploading' \/ cancelled',
           closing => closing', next' \/ finish',
           busy' => busy /\ Top.at \notin Services,
           \/ refresh' = refresh /\ Top.at # "checking"
           \/ refresh' = TRUE /\ Top.at = "checking"
    PROVE  Rest'
<1>1. /\ n \in Nat /\ n' = n - 1 /\ n \in 1 .. n
      /\ \A k \in 1 .. n' : frames'[k] = frames[k] /\ k \in 1 .. n /\ k < n
      /\ \A k \in 1 .. n : k = n \/ k \in 1 .. n'
  BY TAScopeUpdateAssumption DEF TypeOK, Pop, Depth
<1>2. /\ ~Updating(n)
      /\ \A k \in 1 .. n' : Updating(k)' <=> Updating(k)
  BY <1>1 DEF Updating, Top
<1>3. Writes' /\ Alive'
  BY <1>1 DEF Rest, Writes, Alive
<1>4. Alone'
  <2> SUFFICES ASSUME NEW k \in 1 .. n', Updating(k), ~cancelled'
               PROVE  /\ uploading' /\ ~refresh' /\ info # "success"
                      /\ Reached(frames[k], written, table, zbHH)
                      /\ \A j \in 1 .. n' : j # k => ~Updating(j)'
                      /\ \A j \in 1 .. n' : j > k => frames'[j].at # "checking"
    BY <1>1, <1>2 DEF Alone
  <2>1. /\ uploading /\ ~refresh /\ info # "success"
        /\ Reached(frames[k], written, table, zbHH)
        /\ \A j \in 1 .. n : j # k => ~Updating(j)
        /\ \A j \in 1 .. n : j > k => frames[j].at # "checking"
    BY <1>1 DEF Rest, Alone
  <2>2. Top.at # "checking"
    BY <1>1, <2>1 DEF Top
  <2> QED  BY <1>1, <1>2, <2>1, <2>2
<1>5. Undone'
  <2>1. uploading' /\ ~noFolder' => \E k \in 1 .. n' : Updating(k)
    BY <1>1, <1>2 DEF Rest, Undone
  <2>2. ~refresh' /\ ~noFolder' => \E k \in 1 .. n' : Updating(k) \/ frames[k].at = "checking"
    BY <1>1, <1>2 DEF Rest, Undone, Top
  <2>3. busy' => \E k \in 1 .. n' : frames[k].at \in Services
    BY <1>1 DEF Rest, Undone, Top
  <2> QED  BY <1>1, <1>2, <2>1, <2>2, <2>3 DEF Undone, Updating
<1>6. TableTellsTruth' /\ SuccessIsHonest' /\ FreedOnlyUnderTheUser'
  BY DEF Rest, TableTellsTruth, SuccessIsHonest, FreedOnlyUnderTheUser
<1> QED  BY <1>3, <1>4, <1>5, <1>6 DEF Rest

\* The end of an update, under which there is none that was not stopped.
LEMMA EndingKeeps == ASSUME TypeOK, Rest, Ending PROVE Rest'
<1>1. /\ n \in Nat /\ n > 0 /\ n' = n - 1 /\ n \in 1 .. n /\ Updating(n) /\ Top.at = "ending"
      /\ \A k \in 1 .. n' : frames'[k] = frames[k] /\ k \in 1 .. n /\ k # n
      /\ \A k \in 1 .. n : k = n \/ k \in 1 .. n'
  BY TAScopeUpdateAssumption, Positions
     DEF TypeOK, Ending, Pop, At, Depth, Updating, Top, UpdatePosition
<1>2. /\ UNCHANGED <<written, table, zbHH, busy, closing, cancelled, fault>>
      /\ uploading' = FALSE /\ refresh' = TRUE
      /\ info' = "success" => Top.ok
  BY DEF Ending, device, port
<1>3. \A k \in 1 .. n' : Updating(k)' => cancelled
  BY <1>1 DEF Rest, Alone, Updating
<1>4. Writes' /\ Alive' /\ Alone'
  BY <1>1, <1>2, <1>3 DEF Rest, Writes, Alive, Alone
<1>5. Undone'
  <2>1. busy' => \E k \in 1 .. n' : frames[k].at \in Services
    BY <1>1, <1>2, Positions DEF Rest, Undone, Top
  <2>2. next' \/ finish'
    BY DEF Ending
  <2> QED  BY <1>1, <1>2, <2>1, <2>2 DEF Undone
<1>6. SuccessIsHonest'
  <2>1. Top.ok /\ ~cancelled => written = File /\ (table = "new" \/ zbHH = "FinishOk")
    BY <1>1 DEF Rest, Alone, Reached, Last, Top
  <2> QED  BY <1>2, <2>1 DEF SuccessIsHonest
<1>7. TableTellsTruth' /\ FreedOnlyUnderTheUser'
  BY <1>2 DEF Rest, TableTellsTruth, FreedOnlyUnderTheUser
<1> QED  BY <1>4, <1>5, <1>6, <1>7 DEF Rest

\* The start of an update, which is alone unless one that was stopped is under it.
LEMMA UpdateStarts ==
    ASSUME TypeOK, Rest, ClickUpdate, Push(FrameAt("backup")), noFolder' = noFolder,
           IF UpdateUnderWay THEN UNCHANGED <<written, table, cancelled>>
                             ELSE written' = {} /\ table' = "old" /\ cancelled' = FALSE
    PROVE  Rest'
<1>1. /\ n \in Nat /\ n' = n + 1 /\ frames'[n + 1] = FrameAt("backup")
      /\ \A k \in 1 .. n : frames'[k] = frames[k] /\ k \in 1 .. n'
      /\ \A k \in 1 .. n' : k = n + 1 \/ k \in 1 .. n
      /\ n + 1 \in 1 .. n' /\ \A j \in 1 .. n' : ~(j > n + 1)
  BY TAScopeUpdateAssumption DEF TypeOK, Push, Depth
<1>2. /\ FrameAt("backup").at = "backup" /\ ~FrameAt("backup").stale
      /\ "backup" \notin NotUpdating
      /\ \A w, t, z : Reached(FrameAt("backup"), w, t, z)
  BY DEF FrameAt, NotUpdating, Refresh, Reached, Loop, Later, Last
<1>3. /\ UNCHANGED <<busy, closing, fault>> /\ ~uploading /\ uploading' = TRUE
      /\ refresh' = FALSE /\ info' = "none" /\ next' = next /\ next
  BY DEF ClickUpdate, port
<1>4. /\ UpdateUnderWay <=> \E k \in 1 .. n : Updating(k)
      /\ UpdateUnderWay => cancelled
      /\ cancelled' => cancelled
  <2>1. UpdateUnderWay <=> \E k \in 1 .. n : Updating(k)
    BY DEF UpdateUnderWay, Updating
  <2>2. UpdateUnderWay => cancelled
    BY <1>3, <2>1 DEF Rest, Alone
  <2> QED  BY <2>1, <2>2
<1>5. \A k \in 1 .. n : Updating(k) => UpdateUnderWay /\ cancelled /\ cancelled'
  BY <1>4
<1>6. Writes' /\ Alive'
  <2>1. Writes'
    BY <1>1, <1>2 DEF Rest, Writes
  <2>2. \A k \in 1 .. n : frames[k].at = "pausing" => Updating(k)
    BY DEF Updating, NotUpdating, Refresh
  <2>3. Alive'
    BY <1>1, <1>2, <1>3, <1>5, <2>2 DEF Rest, Alive
  <2> QED  BY <2>1, <2>3
<1>7. Alone'
  <2> SUFFICES ASSUME NEW k \in 1 .. n', Updating(k)', ~cancelled'
               PROVE  /\ uploading' /\ ~refresh' /\ info' # "success"
                      /\ Reached(frames'[k], written', table', zbHH')
                      /\ \A j \in 1 .. n' : j # k => ~Updating(j)'
                      /\ \A j \in 1 .. n' : j > k => frames'[j].at # "checking"
    BY DEF Alone
  <2>1. k = n + 1
    BY <1>1, <1>5 DEF Updating
  <2>2. \A j \in 1 .. n' : j # k => ~Updating(j)'
    BY <1>1, <1>5, <2>1 DEF Updating
  <2> QED  BY <1>1, <1>2, <1>3, <2>1, <2>2
<1>8. Undone'
  <2>1. \E k \in 1 .. n' : Updating(k)'
    BY <1>1, <1>2 DEF Updating
  <2>2. busy' => \E k \in 1 .. n' : frames'[k].at \in Services
    BY <1>1, <1>3 DEF Rest, Undone
  <2> QED  BY <1>3, <2>1, <2>2 DEF Undone, Updating
<1>9. TableTellsTruth' /\ SuccessIsHonest' /\ FreedOnlyUnderTheUser'
  <2>1. TableTellsTruth'
    BY DEF Rest, TableTellsTruth
  <2>2. SuccessIsHonest'
    BY <1>3 DEF SuccessIsHonest
  <2>3. fault = "none"
    BY DEF ClickUpdate, AtTheWizard, Pumping
  <2> QED  BY <1>3, <2>1, <2>2, <2>3 DEF FreedOnlyUnderTheUser
<1> QED  BY <1>6, <1>7, <1>8, <1>9 DEF Rest

\* The tables are deleted only under updates that were stopped.
LEMMA CheckForUpdateKeeps == ASSUME TypeOK, Rest, CheckForUpdate PROVE Rest'
<1>1. /\ refresh /\ ~busy /\ n \in Nat
      /\ UNCHANGED <<written, table, uploading, zbHH, info, next, finish, closing, cancelled,
                     noFolder, fault>>
  BY DEF CheckForUpdate, StartTimer, device, update, buttons, history, TypeOK
<1>2. \A k \in 1 .. n : Updating(k) => cancelled
  BY <1>1 DEF Rest, Alone
<1>3. \A k \in 1 .. n : /\ TablesDeleted[k].at = frames[k].at
                        /\ TablesDeleted[k].file = frames[k].file
                        /\ TablesDeleted[k].stale => frames[k].stale \/ frames[k].at = "pausing"
  BY TAScopeUpdateAssumption DEF TypeOK, TablesDeleted, Depth, Frame
<1>4. \A k \in 1 .. n : frames[k].at = "pausing" => Updating(k)
  BY DEF Updating, NotUpdating, Refresh
<1>5. /\ \A k \in 1 .. n : frames'[k] = TablesDeleted[k]
      /\ \/ n' = n + 1 /\ frames'[n + 1] = FrameAt("checking") /\ refresh' = FALSE
         \/ n' = n /\ refresh' = refresh /\ ~busy'
  <2>1. ASSUME n < MaxFrames, refresh' = FALSE, n' = n + 1,
               frames' = [TablesDeleted EXCEPT ![n + 1] = FrameAt("checking")]
        PROVE  frames'[n + 1] = FrameAt("checking")
               /\ \A k \in 1 .. n : frames'[k] = TablesDeleted[k]
    BY <1>1, <2>1, TAScopeUpdateAssumption DEF TablesDeleted, Depth
  <2>2. ASSUME Refused("checking") PROVE ~busy'
    BY <1>1, <2>2 DEF Refused, Silent, port
  <2> QED  BY <2>1, <2>2 DEF CheckForUpdate
<1>6. /\ FrameAt("checking").at = "checking" /\ ~FrameAt("checking").stale
      /\ "checking" \in NotUpdating /\ "checking" \in Services
  BY Positions DEF FrameAt, NotUpdating, Refresh
<1>7. /\ \A k \in 1 .. n' : k \in 1 .. n \/ (k = n + 1 /\ frames'[k] = FrameAt("checking"))
      /\ \A k \in 1 .. n : k \in 1 .. n'
      /\ n' = n + 1 => n + 1 \in 1 .. n'
  <2>1. n' \in {n, n + 1}
    BY <1>5
  <2>2. /\ \A k \in 1 .. n' : k \in 1 .. n \/ (k = n + 1 /\ n' = n + 1)
        /\ \A k \in 1 .. n : k \in 1 .. n'
        /\ n' = n + 1 => n + 1 \in 1 .. n'
    BY <1>1, <2>1
  <2>3. n' = n + 1 => frames'[n + 1] = FrameAt("checking")
    <3>1. n # n + 1
      BY <1>1
    <3> QED  BY <1>5, <3>1
  <2> QED  BY <2>2, <2>3
<1>8. \A k \in 1 .. n' : Updating(k)' => cancelled
  BY <1>2, <1>3, <1>5, <1>6, <1>7 DEF Updating
<1>9. Writes' /\ Alive' /\ Alone'
  <2>1. Writes'
    BY <1>3, <1>5, <1>6, <1>7 DEF Rest, Writes
  <2>2. Alive'
    BY <1>1, <1>2, <1>3, <1>4, <1>5, <1>6, <1>7 DEF Rest, Alive
  <2>3. Alone'
    BY <1>1, <1>8 DEF Alone
  <2> QED  BY <2>1, <2>2, <2>3
<1>a. Undone'
  <2>1. uploading' /\ ~noFolder' => \E k \in 1 .. n' : frames'[k].at \notin NotUpdating
    BY <1>1, <1>3, <1>5, <1>7 DEF Rest, Undone, Updating
  <2>2. CASE n' = n + 1 /\ frames'[n + 1] = FrameAt("checking")
    BY <1>1, <1>6, <1>7, <2>1, <2>2 DEF Undone, Updating, Rest
  <2>3. CASE n' = n /\ refresh' = refresh /\ ~busy'
    BY <1>1, <2>1, <2>3 DEF Undone, Updating, Rest
  <2> QED  BY <1>5, <2>2, <2>3
<1>b. TableTellsTruth' /\ SuccessIsHonest' /\ FreedOnlyUnderTheUser'
  BY <1>1 DEF Rest, TableTellsTruth, SuccessIsHonest, FreedOnlyUnderTheUser
<1> QED  BY <1>9, <1>a, <1>b DEF Rest

\* The port is closed under services only when the wizard ends.
LEMMA EscapeKeeps == ASSUME TypeOK, Rest, Escape PROVE Rest'
<1>1. /\ UNCHANGED <<n, written, table, uploading, zbHH, refresh, info, next, finish, cancelled,
                     noFolder, fault>>
      /\ closing' /\ ~busy' /\ frames' \in {frames, Freed} /\ n \in Nat
  BY DEF Escape, PortClose, device, update, buttons, timers, history, TypeOK
<1>2. \A k \in 1 .. n : /\ frames'[k].at = frames[k].at /\ frames'[k].file = frames[k].file
                        /\ frames'[k].ok = frames[k].ok
                        /\ frames'[k].stale => frames[k].stale \/ frames[k].at \in Services
  BY <1>1, TAScopeUpdateAssumption DEF TypeOK, Freed, Depth, Frame
<1>3. Writes' /\ Alive'
  BY <1>1, <1>2 DEF Rest, Writes, Alive
<1>4. Alone'
  <2>1. \A k \in 1 .. n : Reached(frames[k], written, table, zbHH)
                              => Reached(frames'[k], written, table, zbHH)
    BY <1>2 DEF Reached
  <2> QED  BY <1>1, <1>2, <2>1 DEF Rest, Alone, Updating
<1>5. Undone'
  BY <1>1, <1>2 DEF Rest, Undone, Updating
<1>6. TableTellsTruth' /\ SuccessIsHonest' /\ FreedOnlyUnderTheUser'
  BY <1>1 DEF Rest, TableTellsTruth, SuccessIsHonest, FreedOnlyUnderTheUser
<1> QED  BY <1>3, <1>4, <1>5, <1>6 DEF Rest
-----------------------------------------------------------------------------
(* Every step.                                                             *)

LEMMA UserKeeps == ASSUME TypeOK, Rest, User PROVE StackOK' /\ Rest'
<1>1. StackOK /\ fault = "none" /\ (next \/ finish)
  BY DEF TypeOK, StackOK, Rest, Undone, User, ClickUpdate, ClickCancelUpdate, ClickClose, Ask,
     Close, Escape, ClickFinish, ClickLink, AtTheWizard, Pumping
<1>2. {"backup", "asking", "askingClose"} \subseteq Position
  BY DEF Position, Services, Interruptible, Waits, Boxes, Straight
<1>a. CASE ClickUpdate
  <2>1. CASE Push(FrameAt("backup")) /\ noFolder' = noFolder
             /\ IF UpdateUnderWay THEN UNCHANGED <<written, table, cancelled>>
                                  ELSE written' = {} /\ table' = "old" /\ cancelled' = FALSE
    BY <1>1, <1>2, <1>a, <2>1, PushType, UpdateStarts
  <2>2. CASE Push(FrameAt("asking")) /\ noFolder' = TRUE
             /\ UNCHANGED <<written, table, cancelled>>
    <3>1. StackOK'
      BY <1>1, <1>2, <2>2, PushType
    <3>2. /\ ~uploading /\ uploading' /\ ~refresh' /\ next /\ next' = next /\ info' = "none"
          /\ UNCHANGED <<zbHH, busy, closing, fault>>
      BY <1>a DEF ClickUpdate, port
    <3>3. \A k \in 1 .. n : ~Updating(k) \/ cancelled
      BY <3>2 DEF Rest, Alone
    <3>4. Rest'
      BY <2>2, <3>2, <3>3, Pushed
    <3> QED  BY <3>1, <3>4
  <2> QED  BY <1>a, <2>1, <2>2 DEF ClickUpdate
<1>b. ASSUME NEW box \in {"asking", "askingClose"}, Ask(box) PROVE StackOK' /\ Rest'
  <2>1. /\ Push(FrameAt(box)) /\ uploading /\ uploading' = uploading /\ ~refresh'
        /\ UNCHANGED <<written, table, zbHH, cancelled, busy, closing, fault, info, next, finish,
                       noFolder>>
    BY <1>b DEF Ask, device, port, update, buttons, history
  <2>2. StackOK'
    BY <1>1, <1>2, <2>1, PushType
  <2>3. Rest'
    BY <1>1, <2>1, Pushed
  <2> QED  BY <2>2, <2>3
<1>c. CASE Close \/ ClickFinish \/ ClickLink
  <2>1. /\ UNCHANGED <<n, frames, written, table, uploading, zbHH, refresh, cancelled, noFolder,
                       fault, busy>>
        /\ info' \in {info, "none"} /\ (closing => closing') /\ (next' \/ finish')
    BY <1>1, <1>c DEF Close, ClickFinish, ClickLink, device, port, update, buttons, history, stack
  <2>2. FreedOnlyUnderTheUser'
    BY <1>1, <2>1 DEF FreedOnlyUnderTheUser
  <2> QED  BY <1>1, <2>1, <2>2, SameStack DEF StackOK
<1>d. CASE Escape
  <2>1. UNCHANGED n /\ frames' \in {frames, Freed}
    BY <1>d DEF Escape
  <2>2. StackOK'
    BY <1>1, <2>1, DeletedType DEF StackOK
  <2> QED  BY <1>d, <2>2, EscapeKeeps
<1> QED  BY <1>a, <1>b, <1>c, <1>d DEF User, ClickCancelUpdate, ClickClose

LEMMA Step == ASSUME IInv, [Next]_vars PROVE IInv'
<1>1. TypeOK /\ Rest /\ StackOK /\ (next \/ finish)
  BY DEF IInv, Rest, TypeOK, StackOK, Undone
<1>2. ASSUME Next, StackOK', Rest' PROVE IInv'
  BY <1>1, <1>2, TypeStep DEF IInv, Rest
<1>3. {"checking", "searching"} \subseteq Position
  BY DEF Position, Services, Interruptible, Waits, Boxes, Straight, Refresh
<1>4. {"asking", "askingClose", "checking", "searching"} \subseteq NotUpdating
  BY DEF NotUpdating, Refresh
<1>a. CASE OnWizNext /\ Next
  <2>1. CASE Ending
    BY <1>1, <1>2, <1>a, <2>1, PopType, EndingKeeps DEF Ending, At
  <2> QED  BY <1>a, <2>1, StepsKeep
<1>b. CASE Answer /\ Next
  <2>1. /\ n > 0 /\ Top.at \in {"asking", "askingClose"} /\ Pop
        /\ UNCHANGED <<written, table, zbHH, noFolder, fault, info, busy, refresh>>
        /\ (cancelled => cancelled') /\ (uploading' => uploading)
        /\ (uploading => uploading' \/ cancelled')
        /\ (closing => closing') /\ (next' \/ finish')
    <3>1. /\ n > 0 /\ Top.at \in {"asking", "askingClose"} /\ Pop
          /\ UNCHANGED <<written, table, zbHH, noFolder, fault, info, busy, refresh, next>>
      BY <1>b DEF Answer, At, device
    <3>2. \/ UNCHANGED <<interrupt, finish, uploading, cancelled, closing>>
          \/ /\ finish' = TRUE /\ uploading' = FALSE /\ cancelled' = TRUE
             /\ closing' = (closing \/ Top.at = "askingClose")
      BY <1>b DEF Answer
    <3>3. closing' = (closing \/ Top.at = "askingClose") => (closing => closing')
      OBVIOUS
    <3> QED  BY <1>1, <3>1, <3>2, <3>3
  <2>2. Top.at \in NotUpdating /\ Top.at \notin Services /\ Top.at # "checking"
    BY <1>4, <2>1, Positions
  <2>3. Rest'
    BY <1>1, <2>1, <2>2, Popped
  <2> QED  BY <1>1, <1>2, <1>b, <2>1, <2>3, PopType
<1>c. CASE Checked /\ Next
  <2>1. /\ n > 0 /\ Top.at = "checking" /\ Pop /\ ~busy' /\ refresh' = TRUE
        /\ UNCHANGED <<written, table, zbHH, noFolder, fault, info, cancelled, uploading,
                       closing, next, finish>>
    BY <1>c DEF Checked, At, PortClose, device, update, buttons, history
  <2>2. Rest'
    BY <1>1, <1>4, <2>1, Popped
  <2> QED  BY <1>1, <1>2, <1>c, <2>1, <2>2, PopType
<1>d. CASE Searched /\ Next
  <2>1. /\ n > 0 /\ Top.at = "searching" /\ Pop
        /\ UNCHANGED <<written, table, zbHH, noFolder, fault, info, cancelled, uploading,
                       closing, next, finish, busy, refresh>>
    BY <1>d DEF Searched, At, device, port, update, buttons, timers, history
  <2>2. Top.at \in NotUpdating /\ Top.at \notin Services /\ Top.at # "checking"
    BY <1>4, <2>1, Positions
  <2>3. Rest'
    BY <1>1, <2>1, <2>2, Popped
  <2> QED  BY <1>1, <1>2, <1>d, <2>1, <2>3, PopType
<1>e. CASE UseFreed /\ Next
  <2>1. /\ n \in 1 .. n /\ Top.stale
        /\ fault' = IF Top.at = "pausing" THEN "freedTable" ELSE "freedPort"
        /\ UNCHANGED <<n, frames, written, table, uploading, zbHH, refresh, cancelled, noFolder,
                       info, busy, closing, next, finish>>
    BY <1>1, <1>e, TAScopeUpdateAssumption
       DEF UseFreed, device, port, update, buttons, timers, stack, StackOK
  <2>2. FreedOnlyUnderTheUser'
    <3>1. \/ Top.at = "pausing" /\ cancelled
          \/ Top.at \in Services /\ closing
      BY <1>1, <2>1 DEF Rest, Alive, Top
    <3>2. "pausing" \notin Services
      BY Positions
    <3> QED  BY <2>1, <3>1, <3>2 DEF FreedOnlyUnderTheUser
  <2>3. Rest'
    BY <1>1, <2>1, <2>2, SameStack
  <2> QED  BY <1>1, <1>2, <1>e, <2>1, <2>3 DEF StackOK
<1>f. CASE User /\ Next
  BY <1>1, <1>2, <1>f, UserKeeps
<1>g. CASE (PanelTimer \/ Plug) /\ Next
  <2>1. /\ UNCHANGED <<n, frames, written, table, uploading, zbHH, refresh, cancelled, noFolder,
                       fault, info, closing, next, finish>>
        /\ busy' = busy
    BY <1>g DEF PanelTimer, Plug, Silent, device, port, update, buttons, timers, stack, history
  <2>2. FreedOnlyUnderTheUser'
    BY <1>1, <2>1 DEF Rest, FreedOnlyUnderTheUser
  <2>3. Rest'
    BY <1>1, <2>1, <2>2, SameStack
  <2> QED  BY <1>1, <1>2, <1>g, <2>1, <2>3 DEF StackOK
<1>h. CASE CheckForUpdate /\ Next
  <2>1. StackOK'
    <3>1. TablesDeleted \in [Depth -> Frame]
      BY <1>1, DeletedType
    <3>2. FrameAt("checking") \in Frame
      BY <1>3 DEF Frame, FrameAt
    <3> QED  BY <1>1, <1>h, <3>1, <3>2, TAScopeUpdateAssumption
             DEF CheckForUpdate, StackOK, Depth
  <2> QED  BY <1>1, <1>2, <1>h, <2>1, CheckForUpdateKeeps
<1>i. CASE FoundTAScopePortCom /\ Next
  <2>1. /\ Push(FrameAt("searching"))
        /\ UNCHANGED <<written, table, zbHH, cancelled, busy, closing, fault, info, next, finish,
                       refresh, noFolder, uploading>>
    BY <1>i DEF FoundTAScopePortCom, device, update, buttons, timers, history
  <2>2. StackOK'
    BY <1>1, <1>3, <2>1, PushType
  <2>3. Rest'
    BY <1>1, <2>1, Pushed
  <2> QED  BY <1>2, <1>i, <2>2, <2>3
<1>j. CASE UNCHANGED vars
  BY <1>j DEF IInv, TypeOK, Writes, Alone, Alive, Undone, TableTellsTruth, SuccessIsHonest,
     FreedOnlyUnderTheUser, Updating, vars, device, port, update, buttons, timers, stack, history
<1> QED
  BY <1>a, <1>b, <1>c, <1>d, <1>e, <1>f, <1>g, <1>h, <1>i, <1>j DEF Next, Window

\* The inductive invariant, the types among it, holds at every moment.
THEOREM TAScopeUpdateInvariance == Spec => []IInv
<1>1. Init => IInv
  BY InitIInv
<1>2. IInv /\ [Next]_vars => IInv'
  BY Step
<1> QED  BY <1>1, <1>2, PTL DEF Spec

\* The file table that an update wrote tells what files the handheld has.
THEOREM TAScopeTableTellsTruth == Spec => []TableTellsTruth
BY TAScopeUpdateInvariance, PTL DEF IInv

\* The message of success is not shown for what was not written.
THEOREM TAScopeSuccessIsHonest == Spec => []SuccessIsHonest
BY TAScopeUpdateInvariance, PTL DEF IInv

\* Nothing that was freed is used but under what the user did.
THEOREM TAScopeFreedOnlyUnderTheUser == Spec => []FreedOnlyUnderTheUser
BY TAScopeUpdateInvariance, PTL DEF IInv

\* When no handler is left, everything is as before the first one.
THEOREM TAScopeNothingLeftOn == Spec => []NothingLeftOn
<1>1. IInv => NothingLeftOn
  <2> SUFFICES ASSUME IInv, n = 0, ~noFolder PROVE ~uploading /\ refresh /\ ~busy /\ (next \/ finish)
    BY DEF NothingLeftOn
  <2>1. 1 .. n = {}
    OBVIOUS
  <2> QED  BY <2>1 DEF IInv, Undone
<1> QED  BY <1>1, TAScopeUpdateInvariance, PTL
-----------------------------------------------------------------------------
(***************************************************************************)
(* Why the handlers end.  UpdateEnds itself rests on the fairness of Spec  *)
(* and on a user who answers the boxes, and stays with TLC; here is the    *)
(* argument under it: every step of the topmost handler brings it nearer   *)
(* its end, and nothing else sets a handler back.                          *)
(***************************************************************************)

\* A loop is at one of its files.
InRange(f) ==
    /\ f.at # "none"
    /\ f.at = "reading" => f.file <= BackupCount
    /\ f.at \in {"writing", "pausing"} => f.file <= FileCount

Ranges == \A k \in 1 .. n : InRange(frames[k])

\* Files that a loop over count files has left, the one that it is at among them.
Left(file, count) == IF file <= count THEN count + 1 - file ELSE 0
FilesToGo(f) == 12 + 3 * Left(f.file, FileCount)
BackupToGo(f) == 14 + 3 * FileCount + 2 * Left(f.file, BackupCount)

\* An upper bound of the steps that a handler makes before it ends.
ToGo(f) ==
    CASE f.at = "backup" -> BackupToGo(f) + 1
      [] f.at = "reading" -> BackupToGo(f)
      [] f.at = "files" -> FilesToGo(f) + 2
      [] f.at = "writing" -> FilesToGo(f) + 1
      [] f.at = "pausing" -> FilesToGo(f)
      [] f.at = "table" -> 12
      [] f.at = "programming" -> 11
      [] f.at = "offline" -> 10
      [] f.at = "sensor" -> 9
      [] f.at = "radio" -> 8
      [] f.at = "settling" -> 7
      [] f.at = "wireless" -> 6
      [] f.at = "settled" -> 5
      [] f.at = "cleaning" -> 4
      [] f.at = "rebooting" -> 3
      [] f.at = "ending" -> 2
      [] OTHER -> 1

\* The step of a handler ends it, or brings it nearer its end, but for the user
\* who answers Retry to the box about the sensor.
Nearer ==
    Window =>
        \/ fault' # "none"
        \/ n' = n - 1
        \/ n' = n /\ ToGo(frames'[n]) \in Nat /\ ToGo(frames'[n]) < ToGo(frames[n])
        \/ n' = n /\ At("offline") /\ frames' = frames

\* The user, the timers and the handheld put handlers on top of the stack and
\* set none back, and a handler does nothing to those that it is on top of.
OnlyTop ==
    \A k \in 1 .. n : k < n \/ ~Window => k <= n' /\ ToGo(frames'[k]) = ToGo(frames[k])

LEMMA Lefts ==
    ASSUME NEW i \in Nat, NEW count \in Nat
    PROVE  /\ Left(i, count) \in Nat /\ Left(1, count) = count
           /\ i <= count => Left(i, count) = Left(i + 1, count) + 1
           /\ i > count => Left(i, count) = 0
BY DEF Left

\* The bound at each position.
LEMMA Bounds ==
    ASSUME NEW f \in Frame
    PROVE  /\ f.at = "backup" => ToGo(f) = 15 + 3 * FileCount + 2 * Left(f.file, BackupCount)
           /\ f.at = "reading" => ToGo(f) = 14 + 3 * FileCount + 2 * Left(f.file, BackupCount)
           /\ f.at = "files" => ToGo(f) = 14 + 3 * Left(f.file, FileCount)
           /\ f.at = "writing" => ToGo(f) = 13 + 3 * Left(f.file, FileCount)
           /\ f.at = "pausing" => ToGo(f) = 12 + 3 * Left(f.file, FileCount)
           /\ f.at = "table" => ToGo(f) = 12
           /\ f.at = "programming" => ToGo(f) = 11
           /\ f.at = "offline" => ToGo(f) = 10
           /\ f.at = "sensor" => ToGo(f) = 9
           /\ f.at = "radio" => ToGo(f) = 8
           /\ f.at = "settling" => ToGo(f) = 7
           /\ f.at = "wireless" => ToGo(f) = 6
           /\ f.at = "settled" => ToGo(f) = 5
           /\ f.at = "cleaning" => ToGo(f) = 4
           /\ f.at = "rebooting" => ToGo(f) = 3
           /\ f.at = "ending" => ToGo(f) = 2
<1>1. f.file \in Nat /\ Left(f.file, FileCount) \in Nat /\ Left(f.file, BackupCount) \in Nat
  BY Lefts, TAScopeUpdateAssumption DEF Frame
<1> QED  BY <1>1, TAScopeUpdateAssumption DEF ToGo, FilesToGo, BackupToGo

\* What a step of OnWizNext makes of its frame.
Advances(f) ==
    /\ f \in Frame /\ Become(f) /\ InRange(f) /\ ToGo(f) \in Nat
    /\ ToGo(f) < ToGo(Top) \/ (f = Top /\ At("offline"))

LEMMA StepsAdvance ==
    ASSUME TypeOK, Ranges, OnWizNext, ~Ending
    PROVE  \E f : Advances(f)
<1> USE DEF At, GoTo
<1>1. n \in Depth /\ Top \in Frame /\ ~Top.stale /\ Top.ok \in BOOLEAN
     /\ Top.file \in Nat /\ Top.file + 1 \in Nat
  <2>1. n > 0 /\ ~Top.stale
    BY DEF OnWizNext, BackupFile, FileRead, StartUploading, UploadFile, FileWritten, NextFile,
       UploadTable, FilesDone, TableWritten, UploadFailed, Programming, SensorOffline,
       SensorProgrammed, Radio, ProgramRadio, RadioProgrammed, Settled, Reboot, Rebooted
  <2> QED  BY <2>1, TopType DEF TypeOK, StackOK, Frame
<1>2. InRange(Top)
  BY <1>1 DEF Ranges, Top, Depth
<1> DEFINE To(p) == [Top EXCEPT !.at = p]
           Fail(p) == [Top EXCEPT !.at = p, !.ok = FALSE]
           Count(p, i) == [Top EXCEPT !.at = p, !.file = i]
<1>3. ASSUME NEW p \in UpdatePosition
      PROVE  /\ To(p) \in Frame /\ To(p).at = p /\ To(p).file = Top.file
             /\ Fail(p) \in Frame /\ Fail(p).at = p /\ Fail(p).file = Top.file
  BY <1>1 DEF Frame, UpdatePosition
<1>4. ASSUME NEW p \in UpdatePosition, NEW i \in Nat
      PROVE  Count(p, i) \in Frame /\ Count(p, i).at = p /\ Count(p, i).file = i
  <2>1. Count(p, i) \in Frame
    BY <1>1, Counted DEF UpdatePosition
  <2> QED  BY <1>1, <2>1 DEF Frame
<1>5. Top.at = "backup" => \A i \in Nat : [Top EXCEPT !.file = i] = Count("backup", i)
  BY <1>1 DEF Frame
<1>6. Top.at = "offline" => To("offline") = Top
  BY <1>1 DEF Frame
<1> HIDE DEF To, Fail, Count
<1>7. /\ Left(Top.file, FileCount) \in Nat /\ Left(Top.file, BackupCount) \in Nat
      /\ Left(Top.file + 1, FileCount) \in Nat /\ Left(Top.file + 1, BackupCount) \in Nat
      /\ Left(1, FileCount) = FileCount /\ FileCount \in Nat /\ BackupCount \in Nat
      /\ Top.file <= FileCount => Left(Top.file, FileCount) = Left(Top.file + 1, FileCount) + 1
      /\ Top.file <= BackupCount =>
             Left(Top.file, BackupCount) = Left(Top.file + 1, BackupCount) + 1
      /\ Top.file > BackupCount => Left(Top.file, BackupCount) = 0
  <2>1. FileCount \in Nat /\ BackupCount \in Nat
    BY TAScopeUpdateAssumption
  <2> QED  BY <1>1, <2>1, Lefts
<1>8. ASSUME NEW f \in Frame, Become(f), InRange(f), ToGo(f) \in Nat,
             ToGo(f) < ToGo(Top) \/ (f = Top /\ Top.at = "offline")
      PROVE  Advances(f)
  BY <1>1, <1>8 DEF Advances, Depth
<1>a. CASE BackupFile
  <2> DEFINE f == Count("backup", Top.file + 1)
  <2>1. /\ Top.at = "backup" /\ Top.file <= BackupCount
        /\ Become(To("reading")) \/ Become([Top EXCEPT !.file = Top.file + 1])
    BY <1>a DEF BackupFile, To
  <2>2. [Top EXCEPT !.file = Top.file + 1] = f
    BY <1>1, <1>5, <2>1
  <2>3. f \in Frame /\ f.at = "backup" /\ f.file = Top.file + 1
    BY <1>1, <1>4, Positions
  <2> HIDE DEF f
  <2>4. ToGo(f) \in Nat /\ ToGo(f) < ToGo(Top) /\ InRange(f)
    BY <1>1, <1>7, <2>1, <2>3, Bounds DEF InRange
  <2>5. ToGo(To("reading")) \in Nat /\ ToGo(To("reading")) < ToGo(Top) /\ InRange(To("reading"))
    BY <1>1, <1>3, <1>7, <2>1, Bounds, Positions DEF InRange
  <2>6. Advances(To("reading")) \/ Advances(f)
    BY <1>3, <1>8, <2>1, <2>2, <2>3, <2>4, <2>5, Positions
  <2> QED  BY <2>6
<1>b. CASE FileRead
  <2> DEFINE f == Count("backup", Top.file + 1)
  <2>1. Top.at = "reading" /\ Become(f)
    BY <1>b DEF FileRead, Count
  <2>2. f \in Frame /\ f.at = "backup" /\ f.file = Top.file + 1
    BY <1>1, <1>4, Positions
  <2> HIDE DEF f
  <2>3. ToGo(f) \in Nat /\ ToGo(f) < ToGo(Top) /\ InRange(f)
    BY <1>1, <1>2, <1>7, <2>1, <2>2, Bounds DEF InRange
  <2> QED  BY <1>8, <2>1, <2>2, <2>3
<1>c. CASE StartUploading
  <2> DEFINE f == Count("files", 1)
  <2>1. Top.at = "backup" /\ Top.file > BackupCount /\ Become(f)
    BY <1>c DEF StartUploading, Count
  <2>2. f \in Frame /\ f.at = "files" /\ f.file = 1
    BY <1>4, Positions
  <2> HIDE DEF f
  <2>3. ToGo(f) \in Nat /\ ToGo(f) < ToGo(Top) /\ InRange(f)
    BY <1>1, <1>7, <2>1, <2>2, Bounds DEF InRange
  <2> QED  BY <1>8, <2>1, <2>2, <2>3
<1>d. CASE UploadFile
  <2>1. /\ Top.at = "files" /\ Top.file <= FileCount
        /\ Become(To("writing")) \/ Become(Fail("pausing"))
    BY <1>d, <1>1, <1>7 DEF UploadFile, File, To, Fail
  <2>2. ToGo(To("writing")) \in Nat /\ ToGo(To("writing")) < ToGo(Top) /\ InRange(To("writing"))
    BY <1>1, <1>3, <1>7, <2>1, Bounds, Positions DEF InRange
  <2>3. ToGo(Fail("pausing")) \in Nat /\ ToGo(Fail("pausing")) < ToGo(Top)
        /\ InRange(Fail("pausing"))
    BY <1>1, <1>3, <1>7, <2>1, Bounds, Positions DEF InRange
  <2>4. Advances(To("writing")) \/ Advances(Fail("pausing"))
    BY <1>3, <1>8, <2>1, <2>2, <2>3, Positions
  <2> QED  BY <2>4
<1>e. CASE FileWritten
  <2>1. Top.at = "writing" /\ (Become(To("pausing")) \/ Become(Fail("pausing")))
    BY <1>e DEF FileWritten, To, Fail
  <2>2. ToGo(To("pausing")) \in Nat /\ ToGo(To("pausing")) < ToGo(Top) /\ InRange(To("pausing"))
    BY <1>1, <1>2, <1>3, <1>7, <2>1, Bounds, Positions DEF InRange
  <2>3. ToGo(Fail("pausing")) \in Nat /\ ToGo(Fail("pausing")) < ToGo(Top)
        /\ InRange(Fail("pausing"))
    BY <1>1, <1>2, <1>3, <1>7, <2>1, Bounds, Positions DEF InRange
  <2>4. Advances(To("pausing")) \/ Advances(Fail("pausing"))
    BY <1>3, <1>8, <2>1, <2>2, <2>3, Positions
  <2> QED  BY <2>4
<1>f. CASE NextFile
  <2> DEFINE f == Count("files", Top.file + 1)
  <2>1. Top.at = "pausing" /\ Become(f)
    BY <1>f DEF NextFile, Count
  <2>2. f \in Frame /\ f.at = "files" /\ f.file = Top.file + 1
    BY <1>1, <1>4, Positions
  <2> HIDE DEF f
  <2>3. ToGo(f) \in Nat /\ ToGo(f) < ToGo(Top) /\ InRange(f)
    BY <1>1, <1>2, <1>7, <2>1, <2>2, Bounds DEF InRange
  <2> QED  BY <1>8, <2>1, <2>2, <2>3
<1>g. CASE UploadTable
  <2>1. /\ Top.at = "files"
        /\ Become(To("table")) \/ Become(Fail("programming"))
    BY <1>g DEF UploadTable, FilesDone, To, Fail
  <2>2. ToGo(To("table")) \in Nat /\ ToGo(To("table")) < ToGo(Top)
        /\ InRange(To("table"))
    BY <1>1, <1>3, <1>7, <2>1, Bounds, Positions DEF InRange
  <2>3. ToGo(Fail("programming")) \in Nat /\ ToGo(Fail("programming")) < ToGo(Top)
        /\ InRange(Fail("programming"))
    BY <1>1, <1>3, <1>7, <2>1, Bounds, Positions DEF InRange
  <2>4. Advances(To("table")) \/ Advances(Fail("programming"))
    BY <1>3, <1>8, <2>1, <2>2, <2>3, Positions
  <2> QED  BY <2>4
<1>h. CASE TableWritten
  <2>1. /\ Top.at = "table"
        /\ Become(To("programming")) \/ Become(Fail("programming"))
    BY <1>h DEF TableWritten, To, Fail
  <2>2. ToGo(To("programming")) \in Nat /\ ToGo(To("programming")) < ToGo(Top)
        /\ InRange(To("programming"))
    BY <1>1, <1>3, <1>7, <2>1, Bounds, Positions DEF InRange
  <2>3. ToGo(Fail("programming")) \in Nat /\ ToGo(Fail("programming")) < ToGo(Top)
        /\ InRange(Fail("programming"))
    BY <1>1, <1>3, <1>7, <2>1, Bounds, Positions DEF InRange
  <2>4. Advances(To("programming")) \/ Advances(Fail("programming"))
    BY <1>3, <1>8, <2>1, <2>2, <2>3, Positions
  <2> QED  BY <2>4
<1>i. CASE UploadFailed
  <2>1. Top.at = "files" /\ Become(To("ending"))
    BY <1>i DEF UploadFailed, FilesDone, To
  <2>2. ToGo(To("ending")) \in Nat /\ ToGo(To("ending")) < ToGo(Top)
        /\ InRange(To("ending"))
    BY <1>1, <1>3, <1>7, <2>1, Bounds, Positions DEF InRange
  <2>3. Advances(To("ending"))
    BY <1>3, <1>8, <2>1, <2>2, Positions
  <2> QED  BY <2>3
<1>j. CASE Programming
  <2>1. /\ Top.at = "programming"
        /\ Become(To("sensor")) \/ Become(To("radio")) \/ Become(To("offline"))
    BY <1>j DEF Programming, To
  <2>2. ToGo(To("sensor")) \in Nat /\ ToGo(To("sensor")) < ToGo(Top)
        /\ InRange(To("sensor"))
    BY <1>1, <1>3, <1>7, <2>1, Bounds, Positions DEF InRange
  <2>3. ToGo(To("radio")) \in Nat /\ ToGo(To("radio")) < ToGo(Top)
        /\ InRange(To("radio"))
    BY <1>1, <1>3, <1>7, <2>1, Bounds, Positions DEF InRange
  <2>4. ToGo(To("offline")) \in Nat /\ ToGo(To("offline")) < ToGo(Top)
        /\ InRange(To("offline"))
    BY <1>1, <1>3, <1>7, <2>1, Bounds, Positions DEF InRange
  <2>5. Advances(To("sensor")) \/ Advances(To("radio")) \/ Advances(To("offline"))
    BY <1>3, <1>8, <2>1, <2>2, <2>3, <2>4, Positions
  <2> QED  BY <2>5
<1>k. CASE SensorOffline
  <2>1. /\ Top.at = "offline"
        /\ Become(To("sensor")) \/ Become(To("radio")) \/ Become(To("offline"))
    BY <1>k DEF SensorOffline, To
  <2>2. ToGo(To("sensor")) \in Nat /\ ToGo(To("sensor")) < ToGo(Top)
        /\ InRange(To("sensor"))
    BY <1>1, <1>3, <1>7, <2>1, Bounds, Positions DEF InRange
  <2>3. ToGo(To("radio")) \in Nat /\ ToGo(To("radio")) < ToGo(Top)
        /\ InRange(To("radio"))
    BY <1>1, <1>3, <1>7, <2>1, Bounds, Positions DEF InRange
  <2>4. To("offline") = Top /\ ToGo(Top) \in Nat /\ InRange(Top)
    BY <1>1, <1>2, <1>6, <2>1, Bounds
  <2>5. Advances(To("sensor")) \/ Advances(To("radio")) \/ Advances(To("offline"))
    BY <1>3, <1>8, <2>1, <2>2, <2>3, <2>4, Positions
  <2> QED  BY <2>5
<1>l. CASE SensorProgrammed
  <2>1. Top.at = "sensor" /\ Become(To("radio"))
    BY <1>l DEF SensorProgrammed, To
  <2>2. ToGo(To("radio")) \in Nat /\ ToGo(To("radio")) < ToGo(Top)
        /\ InRange(To("radio"))
    BY <1>1, <1>3, <1>7, <2>1, Bounds, Positions DEF InRange
  <2>3. Advances(To("radio"))
    BY <1>3, <1>8, <2>1, <2>2, Positions
  <2> QED  BY <2>3
<1>m. CASE Radio
  <2>1. /\ Top.at = "radio"
        /\ Become(To("settling")) \/ Become(To("cleaning"))
    BY <1>m DEF Radio, To
  <2>2. ToGo(To("settling")) \in Nat /\ ToGo(To("settling")) < ToGo(Top)
        /\ InRange(To("settling"))
    BY <1>1, <1>3, <1>7, <2>1, Bounds, Positions DEF InRange
  <2>3. ToGo(To("cleaning")) \in Nat /\ ToGo(To("cleaning")) < ToGo(Top)
        /\ InRange(To("cleaning"))
    BY <1>1, <1>3, <1>7, <2>1, Bounds, Positions DEF InRange
  <2>4. Advances(To("settling")) \/ Advances(To("cleaning"))
    BY <1>3, <1>8, <2>1, <2>2, <2>3, Positions
  <2> QED  BY <2>4
<1>n. CASE ProgramRadio
  <2>1. /\ Top.at = "settling"
        /\ Become(To("wireless")) \/ Become(Fail("settled"))
    BY <1>n DEF ProgramRadio, To, Fail
  <2>2. ToGo(To("wireless")) \in Nat /\ ToGo(To("wireless")) < ToGo(Top)
        /\ InRange(To("wireless"))
    BY <1>1, <1>3, <1>7, <2>1, Bounds, Positions DEF InRange
  <2>3. ToGo(Fail("settled")) \in Nat /\ ToGo(Fail("settled")) < ToGo(Top)
        /\ InRange(Fail("settled"))
    BY <1>1, <1>3, <1>7, <2>1, Bounds, Positions DEF InRange
  <2>4. Advances(To("wireless")) \/ Advances(Fail("settled"))
    BY <1>3, <1>8, <2>1, <2>2, <2>3, Positions
  <2> QED  BY <2>4
<1>o. CASE RadioProgrammed
  <2>1. PICK success \in {Served, FALSE} : Become([Top EXCEPT !.at = "settled", !.ok = success])
    BY <1>o DEF RadioProgrammed
  <2> DEFINE f == [Top EXCEPT !.at = "settled", !.ok = success]
  <2>2. Top.at = "wireless" /\ f \in Frame /\ f.at = "settled"
    BY <1>o, <1>1, Positions DEF RadioProgrammed, Frame, UpdatePosition, Served
  <2>3. Become(f)
    BY <2>1
  <2> HIDE DEF f
  <2>4. ToGo(f) \in Nat /\ ToGo(f) < ToGo(Top) /\ InRange(f)
    BY <1>1, <2>2, Bounds DEF InRange
  <2> QED  BY <1>8, <2>2, <2>3, <2>4
<1>p. CASE Settled
  <2>1. Top.at = "settled" /\ Become(To("cleaning"))
    BY <1>p DEF Settled, To
  <2>2. ToGo(To("cleaning")) \in Nat /\ ToGo(To("cleaning")) < ToGo(Top)
        /\ InRange(To("cleaning"))
    BY <1>1, <1>3, <1>7, <2>1, Bounds, Positions DEF InRange
  <2>3. Advances(To("cleaning"))
    BY <1>3, <1>8, <2>1, <2>2, Positions
  <2> QED  BY <2>3
<1>q. CASE Reboot
  <2>1. Top.at = "cleaning" /\ Become(To("rebooting"))
    BY <1>q DEF Reboot, To
  <2>2. ToGo(To("rebooting")) \in Nat /\ ToGo(To("rebooting")) < ToGo(Top)
        /\ InRange(To("rebooting"))
    BY <1>1, <1>3, <1>7, <2>1, Bounds, Positions DEF InRange
  <2>3. Advances(To("rebooting"))
    BY <1>3, <1>8, <2>1, <2>2, Positions
  <2> QED  BY <2>3
<1>r. CASE Rebooted
  <2>1. Top.at = "rebooting" /\ Become(To("ending"))
    BY <1>r DEF Rebooted, To
  <2>2. ToGo(To("ending")) \in Nat /\ ToGo(To("ending")) < ToGo(Top)
        /\ InRange(To("ending"))
    BY <1>1, <1>3, <1>7, <2>1, Bounds, Positions DEF InRange
  <2>3. Advances(To("ending"))
    BY <1>3, <1>8, <2>1, <2>2, Positions
  <2> QED  BY <2>3
<1> QED
  BY <1>a, <1>b, <1>c, <1>d, <1>e, <1>f, <1>g, <1>h, <1>i, <1>j, <1>k, <1>l, <1>m, <1>n,
     <1>o, <1>p, <1>q, <1>r DEF OnWizNext

\* Where a handler starts, but for the one that checks for an update.
Starts == {"backup", "asking", "askingClose", "searching"}

\* Every step, seen from the stack: what it does to the frames.
LEMMA Moves ==
    ASSUME TypeOK, Ranges, Next
    PROVE  \/ Window /\ n > 0 /\ \E f : Advances(f)
           \/ Window /\ n > 0 /\ Pop
           \/ Window /\ n > 0 /\ fault' # "none" /\ UNCHANGED stack
           \/ ~Window /\ \E p \in Starts : Push(FrameAt(p))
           \/ ~Window /\ /\ n' = n \/ (n' = n + 1 /\ n < MaxFrames
                                       /\ frames'[n + 1] = FrameAt("checking"))
                         /\ \A k \in 1 .. n : /\ frames'[k].at = frames[k].at
                                              /\ frames'[k].file = frames[k].file
<1> USE DEF At
<1>1. StackOK /\ n \in Nat
  BY TAScopeUpdateAssumption DEF TypeOK, StackOK
<1>2. CASE Window
  <2>1. CASE OnWizNext /\ ~Ending
    <3>1. PICK f : Advances(f)
      BY <2>1, StepsAdvance
    <3>2. n > 0
      BY <1>1, <2>1
         DEF OnWizNext, BackupFile, FileRead, StartUploading, UploadFile, FileWritten, NextFile,
             UploadTable, FilesDone, TableWritten, UploadFailed, Programming, SensorOffline,
             SensorProgrammed, Radio, ProgramRadio, RadioProgrammed, Settled, Reboot, Rebooted
    <3> QED  BY <1>2, <3>1, <3>2
  <2>2. CASE Ending
    BY <1>2, <2>2 DEF Ending
  <2>3. CASE Answer \/ Checked \/ Searched
    BY <1>2, <2>3 DEF Answer, Checked, Searched
  <2>4. CASE UseFreed
    BY <1>2, <2>4 DEF UseFreed
  <2> QED  BY <1>2, <2>1, <2>2, <2>3, <2>4 DEF Window
<1>3. CASE ~Window
  <2>1. CASE ClickUpdate \/ ClickCancelUpdate \/ ClickClose \/ FoundTAScopePortCom
    BY <1>3, <2>1
       DEF Starts, ClickUpdate, ClickCancelUpdate, ClickClose, Ask, FoundTAScopePortCom
  <2>2. CASE Close \/ ClickFinish \/ ClickLink \/ PanelTimer \/ Plug
    BY <1>3, <2>2 DEF Close, ClickFinish, ClickLink, PanelTimer, Plug, stack
  <2>3. CASE Escape
    <3>1. UNCHANGED n /\ frames' \in {frames, Freed}
      BY <2>3 DEF Escape
    <3>2. \A k \in 1 .. n : frames'[k].at = frames[k].at /\ frames'[k].file = frames[k].file
      BY <1>1, <3>1, TAScopeUpdateAssumption DEF StackOK, Freed, Depth, Frame
    <3> QED  BY <1>3, <3>1, <3>2
  <2>4. CASE CheckForUpdate
    <3>1. \/ n' = n /\ frames' = TablesDeleted
          \/ /\ n < MaxFrames /\ n' = n + 1
             /\ frames' = [TablesDeleted EXCEPT ![n + 1] = FrameAt("checking")]
      BY <2>4 DEF CheckForUpdate
    <3>2. \A k \in 1 .. n : /\ TablesDeleted[k].at = frames[k].at
                            /\ TablesDeleted[k].file = frames[k].file
      BY <1>1, TAScopeUpdateAssumption DEF StackOK, TablesDeleted, Depth, Frame
    <3>3. \A k \in 1 .. n : frames'[k] = TablesDeleted[k]
      BY <1>1, <3>1, TAScopeUpdateAssumption DEF TablesDeleted, Depth
    <3>4. n' = n \/ (n' = n + 1 /\ n < MaxFrames /\ frames'[n + 1] = FrameAt("checking"))
      BY <1>1, <3>1, TAScopeUpdateAssumption DEF TablesDeleted, Depth
    <3> QED  BY <1>3, <3>2, <3>3, <3>4
  <2> QED  BY <1>3, <2>1, <2>2, <2>3, <2>4 DEF Next, User
<1> QED  BY <1>2, <1>3

LEMMA RangesStep == ASSUME IInv, Ranges, [Next]_vars PROVE Ranges'
<1>1. TypeOK /\ StackOK /\ n \in Nat
  BY TAScopeUpdateAssumption DEF IInv, TypeOK, StackOK
<1>2. ASSUME NEW f, Advances(f), n > 0 PROVE Ranges'
  <2>1. n' = n /\ frames' = [frames EXCEPT ![n] = f] /\ InRange(f)
    BY <1>2 DEF Advances, Become
  <2> QED  BY <1>1, <2>1, TAScopeUpdateAssumption DEF Ranges, StackOK, Depth
<1>3. ASSUME Pop, n > 0 PROVE Ranges'
  <2>1. \A k \in 1 .. n' : k \in 1 .. n /\ frames'[k] = frames[k]
    BY <1>1, <1>3, TAScopeUpdateAssumption DEF Pop, StackOK, Depth
  <2> QED  BY <2>1 DEF Ranges
<1>4. ASSUME NEW p \in Starts, Push(FrameAt(p)) PROVE Ranges'
  <2>1. InRange(FrameAt(p))
    BY DEF Starts, InRange, FrameAt
  <2>2. \A k \in 1 .. n : frames'[k] = frames[k]
    BY <1>1, <1>4 DEF Push, StackOK, Depth
  <2>3. n' = n + 1 /\ frames'[n + 1] = FrameAt(p)
    <3>1. n + 1 \in 1 .. MaxFrames
      BY <1>1, <1>4, TAScopeUpdateAssumption DEF Push
    <3> QED  BY <1>1, <1>4, <3>1 DEF Push, StackOK, Depth
  <2>4. \A k \in 1 .. n' : k \in 1 .. n \/ k = n + 1
    BY <1>1, <2>3
  <2> QED  BY <2>1, <2>2, <2>3, <2>4 DEF Ranges
<1>5. ASSUME n' = n \/ (n' = n + 1 /\ n < MaxFrames /\ frames'[n + 1] = FrameAt("checking")),
             \A k \in 1 .. n : frames'[k].at = frames[k].at /\ frames'[k].file = frames[k].file
      PROVE  Ranges'
  <2>1. InRange(FrameAt("checking"))
    BY DEF InRange, FrameAt
  <2>2. \A k \in 1 .. n' : k \in 1 .. n \/ (k = n + 1 /\ frames'[k] = FrameAt("checking"))
    BY <1>1, <1>5
  <2> QED  BY <1>5, <2>1, <2>2 DEF Ranges, InRange
<1>6. CASE UNCHANGED vars
  BY <1>6 DEF Ranges, vars, stack
<1>7. CASE Next
  <2>1. CASE UNCHANGED stack
    BY <2>1 DEF Ranges, stack
  <2> QED  BY <1>1, <1>2, <1>3, <1>4, <1>5, <1>7, <2>1, Moves
<1> QED  BY <1>6, <1>7

\* A loop over the files of the backup or of the update never leaves them.
THEOREM TAScopeLoopsInRange == Spec => []Ranges
<1>1. Init => Ranges
  BY DEF Init, Ranges
<1>2. IInv /\ Ranges /\ [Next]_vars => Ranges'
  BY RangesStep
<1> QED  BY <1>1, <1>2, TAScopeUpdateInvariance, PTL DEF Spec

\* The core of UpdateEnds: whatever the handheld answers or leaves unanswered,
\* the topmost handler goes on to its end in a number of steps that the files
\* bound, unless the user keeps answering Retry.
THEOREM TAScopeHandlerComesNearer == Spec => [][Nearer]_vars
<1>1. ASSUME IInv, Ranges, Next, Window PROVE Nearer
  <2>1. TypeOK /\ StackOK /\ n \in Nat
    BY <1>1, TAScopeUpdateAssumption DEF IInv, TypeOK, StackOK
  <2>2. ASSUME NEW f, Advances(f), n > 0 PROVE Nearer
    <3>1. /\ n' = n /\ frames' = [frames EXCEPT ![n] = f] /\ ToGo(f) \in Nat
          /\ ToGo(f) < ToGo(Top) \/ (f = Top /\ At("offline"))
      BY <2>2 DEF Advances, Become
    <3>2. n \in Depth /\ frames'[n] = f /\ Top = frames[n]
      BY <2>1, <2>2, <3>1 DEF StackOK, Depth, Top
    <3>3. f = Top => frames' = frames
      BY <2>1, <3>1, <3>2 DEF StackOK
    <3> QED  BY <3>1, <3>2, <3>3 DEF Nearer
  <2> QED  BY <1>1, <2>1, <2>2, Moves DEF Nearer, Pop
<1>2. IInv /\ Ranges /\ [Next]_vars => [Nearer]_vars
  BY <1>1 DEF Nearer
<1> QED  BY <1>2, TAScopeUpdateInvariance, TAScopeLoopsInRange, PTL DEF Spec

\* The other half of that core: what comes in through the message pump of a
\* handler takes nothing of its way back.
THEOREM TAScopeOnlyTopMoves == Spec => [][OnlyTop]_vars
<1>1. ASSUME IInv, Ranges, Next PROVE OnlyTop
  <2>1. TypeOK /\ StackOK /\ n \in Nat
    BY <1>1, TAScopeUpdateAssumption DEF IInv, TypeOK, StackOK
  <2> SUFFICES ASSUME NEW k \in 1 .. n, k < n \/ ~Window
               PROVE  k <= n' /\ ToGo(frames'[k]) = ToGo(frames[k])
    BY DEF OnlyTop
  <2>2. ASSUME NEW f, Advances(f), k < n PROVE k <= n' /\ frames'[k] = frames[k]
    <3>1. n' = n /\ frames' = [frames EXCEPT ![n] = f]
      BY <2>2 DEF Advances, Become
    <3> QED  BY <2>1, <2>2, <3>1 DEF StackOK, Depth
  <2>3. ASSUME Pop, k < n PROVE k <= n' /\ frames'[k] = frames[k]
    BY <2>1, <2>3 DEF Pop, StackOK, Depth
  <2>4. ASSUME NEW p, Push(FrameAt(p)) PROVE k <= n' /\ frames'[k] = frames[k]
    BY <2>1, <2>4 DEF Push, StackOK, Depth
  <2>5. ASSUME frames'[k].at = frames[k].at, frames'[k].file = frames[k].file
        PROVE  ToGo(frames'[k]) = ToGo(frames[k])
    BY <2>5 DEF ToGo, FilesToGo, BackupToGo
  <2>6. CASE Window
    BY <1>1, <2>1, <2>2, <2>3, <2>6, Moves DEF stack
  <2>7. CASE ~Window
    BY <1>1, <2>1, <2>4, <2>5, <2>7, Moves DEF stack
  <2> QED  BY <2>6, <2>7
<1>2. IInv /\ Ranges /\ [Next]_vars => [OnlyTop]_vars
  BY <1>1
<1> QED  BY <1>2, TAScopeUpdateInvariance, TAScopeLoopsInRange, PTL DEF Spec
=============================================================================
