--------------------------- MODULE DocumentProofs ---------------------------
(***************************************************************************)
(* Proofs about Document, for any names, files and editions.  The          *)
(* inductive invariant says where each of the two files stands while the   *)
(* other one is written, and what is known of the project on the way from  *)
(* a question to what it was asked for.                                    *)
(***************************************************************************)
EXTENDS Document, TLAPS

\* What each step of the user interface is the step of.
Flow ==
    /\ step = "idle" => then = "nothing"
    /\ step = "openDialog" => then = "open"
    /\ step = "ask" => modified
    /\ step = "ending" => then \in {"queryEnd", "end"}
    /\ step \in {"proceed", "down"} => write = NULL

\* The user's saves go to any file, the automatic ones never to the document's.
Writing ==
    write # NULL =>
        /\ pipeTab
        /\ write.auto => modified /\ write.file # path
        /\ ~write.auto => step \in {"idle", "ask", "saveAs"}

\* From the end of the session on, the mark may have been cleared.
Honest ==
    /\ ~modified /\ write = NULL /\ step \notin {"ending", "down"} /\ then # "end"
    /\ harm \cap {"writeFailed", "sessionGoesOn"} = {}
    => Intact(path, mem) \/ (path = NewPath /\ mem = 0)

\* The file of the document and that of its automatic save are two files, and
\* only the one being written can be torn.
Untouched(f) == write = NULL \/ write.file # f
SavedThere == step # "down" /\ saved # NULL /\ Untouched(path) => Intact(path, saved)
AutoThere ==
    step # "down" /\ auto # NULL =>
        /\ auto.file # path
        /\ Untouched(auto.file) => Intact(auto.file, auto.edition)
Kept == SavedThere /\ AutoThere /\ CrashSparesOne

\* Past the question.
GivenUp ==
    /\ step \in {"proceed", "openDialog", "ending"} /\ ~agreed /\ harm \subseteq {"copyFailed"}
    /\ mem # 0
    => Intact(path, mem) /\ ~modified

IInv == TypeOK /\ Flow /\ Writing /\ Honest /\ PipesAreInTheFile /\ Kept /\ GivenUp
-----------------------------------------------------------------------------
(* Types.                                                                  *)

LEMMA Files == NewPath \in File
  BY DocumentAssumption DEF File, NewPath

\* The automatic save is never the document's own file.
LEMMA Apart ==
    ASSUME NEW f \in File, AutoSaveName(f) \in File
    PROVE  AutoSaveName(f) # f
  BY DocumentAssumption DEF File, AutoSaveName

LEMMA StartWriteTypes ==
    ASSUME TypeOK, NEW f \in File, NEW isAuto \in BOOLEAN, StartWrite(f, isAuto)
    PROVE  /\ disk' \in [File -> Content \cup {Absent, Torn}]
           /\ pipeTab' \in BOOLEAN /\ write' \in Writes
  BY DEF TypeOK, StartWrite, Writes

LEMMA WrittenTypes ==
    ASSUME TypeOK, NEW good \in BOOLEAN, write # NULL, Written(good)
    PROVE  /\ disk' \in [File -> Content \cup {Absent, Torn}]
           /\ pipeTab' \in BOOLEAN /\ write' \in Writes \cup {NULL}
  <1>1. write.file \in File
    BY DEF TypeOK, Writes
  <1>2. [edition |-> mem, pipes |-> pipeTab] \in Content
    BY DEF TypeOK, Content
  <1>3. disk' \in [File -> Content \cup {Absent, Torn}]
    BY <1>1, <1>2 DEF TypeOK, Written
  <1> QED BY <1>3 DEF TypeOK, Written

LEMMA TypeInit == Init => TypeOK
  <1> SUFFICES ASSUME Init PROVE TypeOK OBVIOUS
  <1>1. disk \in [File -> Content \cup {Absent, Torn}]
    BY Files DEF Init
  <1>2. NewPath \in File BY Files
  <1>3. 0 \in 0 .. MaxEdits BY DocumentAssumption
  <1> QED BY <1>1, <1>2, <1>3 DEF Init, TypeOK

LEMMA LoadedTypes ==
    ASSUME TypeOK, NEW f \in File, NEW e \in 0 .. MaxEdits, NEW last \in (0 .. MaxEdits) \cup {NULL},
           Loaded(f, e, last), UNCHANGED <<disk, edits, write>>
    PROVE  TypeOK'
  BY DocumentAssumption DEF TypeOK, Loaded

LEMMA LoadedNew ==
    ASSUME TypeOK, Loaded(NewPath, 0, NULL), UNCHANGED <<disk, edits, write>>
    PROVE  TypeOK'
  <1>1. NewPath \in File BY Files
  <1>2. 0 \in 0 .. MaxEdits BY DocumentAssumption
  <1> QED BY <1>1, <1>2, LoadedTypes

LEMMA TypeNext == TypeOK /\ [Next]_vars => TypeOK'
  <1> SUFFICES ASSUME TypeOK, [Next]_vars PROVE TypeOK' OBVIOUS
  <1> USE DocumentAssumption
  <1>1. CASE Edit
    BY <1>1 DEF TypeOK, Edit, Idle, ui, past
  <1>2. CASE AutoSave
    BY <1>2, Apart, StartWriteTypes DEF TypeOK, AutoSave, ui
  <1>5. CASE OnFileSave
    BY <1>5, StartWriteTypes DEF TypeOK, OnFileSave, StartSave, Idle, past
  <1>3. CASE AutoSaveEnds
    <2>1. PICK good \in BOOLEAN : Written(good) /\ AutoSaved(good)
      BY <1>3 DEF AutoSaveEnds
    <2>3. auto' \in Edition \cup {NULL}
      BY <1>3, <2>1 DEF AutoSaveEnds, AutoSaved, TypeOK, Writes, Edition
    <2>2. /\ disk' \in [File -> Content \cup {Absent, Torn}]
          /\ pipeTab' \in BOOLEAN /\ write' \in Writes \cup {NULL}
      BY <1>3, <2>1, WrittenTypes DEF AutoSaveEnds
    <2> QED BY <1>3, <2>1, <2>2, <2>3 DEF TypeOK, AutoSaveEnds, ui, Written
  <1>4. CASE SaveEnds
    <2>1. PICK good \in BOOLEAN :
              /\ Written(good) /\ saved' = IF good THEN mem ELSE NULL
              /\ harm' = IF good THEN {} ELSE harm \cup {"writeFailed"}
      BY <1>4 DEF SaveEnds
    <2>2. /\ disk' \in [File -> Content \cup {Absent, Torn}]
          /\ pipeTab' \in BOOLEAN /\ write' \in Writes \cup {NULL}
      BY <1>4, <2>1, WrittenTypes DEF SaveEnds
    <2>3. write.file \in File BY <1>4 DEF TypeOK, Writes, SaveEnds
    <2> QED BY <1>4, <2>1, <2>2, <2>3 DEF TypeOK, SaveEnds, Written
  <1>6. CASE OnFileSaveAs
    BY <1>6 DEF TypeOK, OnFileSaveAs, Idle, tads, past
  <1>7. CASE SaveAsChosen
    BY <1>7, StartWriteTypes DEF TypeOK, SaveAsChosen, ui, past
  <1>8. CASE SaveAsCancelled
    BY <1>8 DEF TypeOK, SaveAsCancelled, tads
  <1>9. CASE OnCommand
    BY <1>9 DEF TypeOK, OnCommand, Ask, tads, past
  <1>10. CASE AnswerYes
    BY <1>10, StartWriteTypes DEF TypeOK, AnswerYes, StartSave, past
  <1>11. CASE AnswerNo
    BY <1>11 DEF TypeOK, AnswerNo, tads, past
  <1>12. CASE AnswerCancel
    BY <1>12 DEF TypeOK, AnswerCancel, tads
  <1>13. CASE Proceed
    <2>1. CASE then = "new"
      <3>1. Loaded(NewPath, 0, NULL) /\ UNCHANGED <<disk, edits, write>>
        BY <1>13, <2>1 DEF Proceed
      <3> QED BY <3>1, LoadedNew
    <2>2. CASE then # "new"
      BY <1>13, <2>2 DEF TypeOK, Proceed, tads, past
    <2> QED BY <2>1, <2>2
  <1>14. CASE OnEndSession
    BY <1>14 DEF TypeOK, OnEndSession, Ask, tads
  <1>15. CASE OpenChosen
    <2>1. PICK f \in File : \/ disk[f] \in Content /\ Loaded(f, disk[f].edition, disk[f].edition)
                            \/ disk[f] = Torn /\ Loaded(NewPath, 0, NULL)
      BY <1>15 DEF OpenChosen
    <2>2. UNCHANGED <<disk, edits, write>> BY <1>15 DEF OpenChosen
    <2>3. CASE disk[f] \in Content /\ Loaded(f, disk[f].edition, disk[f].edition)
      <3>1. disk[f].edition \in 0 .. MaxEdits BY <2>3 DEF Content
      <3> QED BY <2>2, <2>3, <3>1, LoadedTypes
    <2> QED BY <2>1, <2>2, <2>3, LoadedNew
  <1>16. CASE OpenCancelled
    BY <1>16 DEF TypeOK, OpenCancelled, tads, past
  <1>17. CASE Crash
    BY <1>17 DEF TypeOK, Crash, tads, past
  <1>18. CASE Start
    <2>1. Loaded(NewPath, 0, NULL) /\ UNCHANGED <<disk, edits, write>> BY <1>18 DEF Start
    <2> QED BY <2>1, LoadedNew
  <1>19. CASE UNCHANGED vars
    BY <1>19 DEF TypeOK, vars
  <1>20. QED
    BY <1>1, <1>2, <1>3, <1>4, <1>5, <1>6, <1>7, <1>8, <1>9, <1>10, <1>11, <1>12,
       <1>13, <1>14, <1>15, <1>16, <1>17, <1>18, <1>19 DEF Next
-----------------------------------------------------------------------------
(* The user interface.                                                     *)

LEMMA FlowNext == TypeOK /\ Flow /\ Writing /\ [Next]_vars => Flow'
  <1> SUFFICES ASSUME TypeOK, Flow, Writing, [Next]_vars PROVE Flow' OBVIOUS
  <1> USE DEF Flow, ui, tads, past
  <1>1. CASE Edit
    BY <1>1 DEF Edit, Idle
  <1>2. CASE AutoSave
    BY <1>2 DEF AutoSave, Dispatching
  <1>3. CASE AutoSaveEnds
    BY <1>3 DEF AutoSaveEnds, Written
  <1>4. CASE SaveEnds
    BY <1>4 DEF SaveEnds, Written
  <1>5. CASE OnFileSave
    BY <1>5 DEF OnFileSave, StartSave, StartWrite, Idle
  <1>6. CASE OnFileSaveAs
    BY <1>6 DEF OnFileSaveAs, Idle
  <1>7. CASE SaveAsChosen
    BY <1>7 DEF SaveAsChosen
  <1>8. CASE SaveAsCancelled
    BY <1>8 DEF SaveAsCancelled
  <1>9. CASE OnCommand
    BY <1>9 DEF OnCommand, Ask, Idle
  <1>10. CASE AnswerYes
    BY <1>10 DEF AnswerYes, StartSave
  <1>11. CASE AnswerNo
    BY <1>11 DEF AnswerNo
  <1>12. CASE AnswerCancel
    BY <1>12 DEF AnswerCancel
  <1>13. CASE Proceed
    BY <1>13 DEF Proceed, Loaded
  <1>14. CASE OnEndSession
    BY <1>14 DEF OnEndSession, Ask
  <1>15. CASE OpenChosen
    BY <1>15 DEF OpenChosen, Loaded
  <1>16. CASE OpenCancelled
    BY <1>16 DEF OpenCancelled
  <1>17. CASE Crash
    BY <1>17 DEF Crash
  <1>18. CASE Start
    BY <1>18 DEF Start, Loaded
  <1>19. CASE UNCHANGED vars
    BY <1>19 DEF vars
  <1>20. QED
    BY <1>1, <1>2, <1>3, <1>4, <1>5, <1>6, <1>7, <1>8, <1>9, <1>10, <1>11, <1>12,
       <1>13, <1>14, <1>15, <1>16, <1>17, <1>18, <1>19 DEF Next

\* A write begins: into another file than the document's if it is automatic.
LEMMA WritingNext == TypeOK /\ Flow /\ Writing /\ [Next]_vars => Writing'
  <1> SUFFICES ASSUME TypeOK, Flow, Writing, [Next]_vars PROVE Writing' OBVIOUS
  <1> USE DEF Writing, ui, tads, past
  <1>1. CASE Edit
    BY <1>1 DEF Edit, Idle
  <1>2. CASE AutoSave
    <2>1. path \in File BY DEF TypeOK
    <2> QED BY <1>2, <2>1, Apart DEF AutoSave, Dispatching, StartWrite
  <1>3. CASE AutoSaveEnds
    BY <1>3 DEF AutoSaveEnds, Written
  <1>4. CASE SaveEnds
    BY <1>4 DEF SaveEnds, Written
  <1>5. CASE OnFileSave
    BY <1>5 DEF OnFileSave, StartSave, StartWrite, Idle
  <1>6. CASE OnFileSaveAs
    BY <1>6 DEF OnFileSaveAs, Idle
  <1>7. CASE SaveAsChosen
    BY <1>7 DEF SaveAsChosen, StartWrite
  <1>8. CASE SaveAsCancelled
    BY <1>8 DEF SaveAsCancelled
  <1>9. CASE OnCommand
    BY <1>9 DEF OnCommand, Ask, Idle
  <1>10. CASE AnswerYes
    BY <1>10 DEF AnswerYes, StartSave, StartWrite
  <1>11. CASE AnswerNo
    BY <1>11 DEF AnswerNo
  <1>12. CASE AnswerCancel
    BY <1>12 DEF AnswerCancel
  <1>13. CASE Proceed
    BY <1>13 DEF Proceed
  <1>14. CASE OnEndSession
    BY <1>14 DEF OnEndSession
  <1>15. CASE OpenChosen
    BY <1>15 DEF OpenChosen
  <1>16. CASE OpenCancelled
    BY <1>16 DEF OpenCancelled
  <1>17. CASE Crash
    BY <1>17 DEF Crash
  <1>18. CASE Start
    BY <1>18 DEF Start, Flow
  <1>19. CASE UNCHANGED vars
    BY <1>19 DEF vars
  <1>20. QED
    BY <1>1, <1>2, <1>3, <1>4, <1>5, <1>6, <1>7, <1>8, <1>9, <1>10, <1>11, <1>12,
       <1>13, <1>14, <1>15, <1>16, <1>17, <1>18, <1>19 DEF Next
-----------------------------------------------------------------------------
(* The files.                                                              *)

\* A write that the user has asked for, or agreed to, begins.
Begins ==
    /\ step # "down"
    /\ \E f \in File :
        /\ StartWrite(f, FALSE) /\ write = NULL
        /\ UNCHANGED <<path, step, harm, saved, auto>>

\* A project is read, or a new one is made.
Opens ==
    /\ write = NULL /\ UNCHANGED <<disk, write>>
    /\ \/ Loaded(NewPath, 0, NULL)
       \/ \E f \in File : disk[f] \in Content /\ Loaded(f, disk[f].edition, disk[f].edition)

Quiet ==
    /\ UNCHANGED <<disk, path, saved, auto, pipeTab>>
    /\ \/ step' = "down"
       \/ step # "down" /\ UNCHANGED write /\ harm \subseteq harm'
       \/ UNCHANGED <<step, write, harm>>

LEMMA WriteIs ==
    ASSUME NEW f \in File, NEW isAuto \in BOOLEAN, StartWrite(f, isAuto)
    PROVE  write' # NULL /\ write'.auto = isAuto /\ write'.file = f
  <1>1. PICK opened \in BOOLEAN : write' = [file |-> f, auto |-> isAuto, opened |-> opened]
    BY DEF StartWrite
  <1>2. write' \in Writes BY <1>1 DEF Writes
  <1>3. NULL \notin Writes BY DocumentAssumption
  <1> QED BY <1>1, <1>2, <1>3

\* What the steps do to the files.
LEMMA StepKinds ==
    ASSUME TypeOK, Flow, [Next]_vars
    PROVE  AutoSave \/ AutoSaveEnds \/ SaveEnds \/ Begins \/ Opens \/ Quiet
  <1> USE DEF ui, tads, past
  <1>1. CASE Edit \/ OnFileSaveAs \/ OnCommand
    BY <1>1 DEF Edit, OnFileSaveAs, OnCommand, Idle, Quiet
  <1>2. CASE OnFileSave
    BY <1>2 DEF OnFileSave, StartSave, Idle, Quiet, Begins, TypeOK
  <1>3. CASE AnswerYes
    BY <1>3 DEF AnswerYes, StartSave, Quiet, Begins, TypeOK
  <1>4. CASE SaveAsChosen
    BY <1>4 DEF SaveAsChosen, Begins
  <1>5. CASE SaveAsCancelled \/ AnswerNo \/ AnswerCancel \/ OnEndSession \/ OpenCancelled
    BY <1>5 DEF SaveAsCancelled, AnswerNo, AnswerCancel, OnEndSession, OpenCancelled, Quiet
  <1>6. CASE Proceed
    BY <1>6 DEF Proceed, Opens, Quiet
  <1>7. CASE OpenChosen
    BY <1>7 DEF OpenChosen, Opens
  <1>8. CASE Crash
    BY <1>8 DEF Crash, Quiet
  <1>9. CASE UNCHANGED vars
    BY <1>9 DEF vars, Quiet
  <1>10. CASE Start
    BY <1>10 DEF Start, Opens, Flow
  <1> QED
    BY <1>1, <1>2, <1>3, <1>4, <1>5, <1>6, <1>7, <1>8, <1>9, <1>10 DEF Next

LEMMA SavedThereNext == TypeOK /\ Flow /\ Writing /\ SavedThere /\ [Next]_vars => SavedThere'
  <1> SUFFICES ASSUME TypeOK, Flow, Writing, SavedThere, [Next]_vars PROVE SavedThere' OBVIOUS
  <1> USE DEF SavedThere, Intact, Untouched
  <1>1. CASE AutoSave
    <2>1. AutoSaveName(path) # path BY <1>1, Apart DEF AutoSave, TypeOK
    <2> QED BY <1>1, <2>1 DEF AutoSave, StartWrite, ui, TypeOK, Dispatching
  <1>2. CASE AutoSaveEnds
    BY <1>2 DEF AutoSaveEnds, Written, ui, Writing, TypeOK
  <1>3. CASE SaveEnds
    <2>1. PICK good \in BOOLEAN :
              /\ good => write.opened
              /\ Written(good) /\ saved' = IF good THEN mem ELSE NULL
      BY <1>3 DEF SaveEnds
    <2>2. write.file \in File BY <1>3 DEF SaveEnds, TypeOK, Writes
    <2>3. [edition |-> mem, pipes |-> pipeTab] \in Content BY DEF TypeOK, Content
    <2> QED BY <1>3, <2>1, <2>2, <2>3 DEF SaveEnds, Written, TypeOK
  <1>4. CASE Begins
    <2>1. PICK f \in File : StartWrite(f, FALSE) BY <1>4 DEF Begins
    <2>2. write' # NULL /\ write'.file = f BY <2>1, WriteIs
    <2>3. \A g \in File : g # f => disk'[g] = disk[g] BY <2>1 DEF StartWrite, TypeOK
    <2> QED BY <1>4, <2>2, <2>3 DEF Begins, TypeOK
  <1>5. CASE Opens
    BY <1>5 DEF Opens, Loaded
  <1>6. CASE Quiet
    BY <1>6 DEF Quiet
  <1> QED BY <1>1, <1>2, <1>3, <1>4, <1>5, <1>6, StepKinds

LEMMA AutoThereNext == TypeOK /\ Flow /\ Writing /\ AutoThere /\ [Next]_vars => AutoThere'
  <1> SUFFICES ASSUME TypeOK, Flow, Writing, AutoThere, [Next]_vars PROVE AutoThere' OBVIOUS
  <1> USE DEF AutoThere, Intact, Untouched
  <1>0. auto # NULL => auto.file \in File BY DEF TypeOK, Edition
  <1>7. ASSUME NEW f \in File, NEW isAuto \in BOOLEAN, StartWrite(f, isAuto), write = NULL,
               step # "down", UNCHANGED <<path, auto>>
        PROVE  AutoThere'
    <2>1. write' # NULL /\ write'.file = f BY <1>7, WriteIs
    <2>2. \A g \in File : g # f => disk'[g] = disk[g] BY <1>7 DEF StartWrite, TypeOK
    <2> QED BY <1>0, <1>7, <2>1, <2>2
  <1>1. CASE AutoSave
    <2>1. step # "down" /\ write = NULL BY <1>1 DEF AutoSave, Dispatching
    <2>2. CASE UNCHANGED <<disk, write>>
      BY <1>1, <2>1, <2>2 DEF AutoSave, ui
    <2>3. CASE StartWrite(AutoSaveName(path), TRUE)
      BY <1>1, <1>7, <2>1, <2>3 DEF AutoSave
    <2> QED BY <1>1, <2>2, <2>3 DEF AutoSave
  <1>2. CASE AutoSaveEnds
    <2>1. PICK good \in BOOLEAN : (good => write.opened) /\ Written(good) /\ AutoSaved(good)
      BY <1>2 DEF AutoSaveEnds
    <2>2. write.file \in File BY <1>2 DEF AutoSaveEnds, TypeOK, Writes
    <2>3. [edition |-> mem, pipes |-> pipeTab] \in Content BY DEF TypeOK, Content
    <2>4. write.file # path BY <1>2 DEF AutoSaveEnds, Writing
    <2> QED BY <1>2, <2>1, <2>2, <2>3, <2>4 DEF AutoSaveEnds, AutoSaved, Written, TypeOK
  <1>3. CASE SaveEnds
    <2>1. write # NULL /\ ~write.auto /\ path' = write.file
      BY <1>3 DEF SaveEnds
    <2>2. auto' # NULL => auto' = auto /\ auto.file # write.file
      BY <1>3 DEF SaveEnds
    <2>3. \A f \in File : f # write.file => disk'[f] = disk[f]
      BY <1>3 DEF SaveEnds, Written, TypeOK
    <2>4. step # "down" BY <2>1 DEF Writing
    <2> QED BY <1>0, <2>1, <2>2, <2>3, <2>4
  <1>4. CASE Begins
    BY <1>4, <1>7 DEF Begins
  <1>5. CASE Opens
    BY <1>5 DEF Opens, Loaded
  <1>6. CASE Quiet
    BY <1>6 DEF Quiet
  <1> QED BY <1>1, <1>2, <1>3, <1>4, <1>5, <1>6, StepKinds

LEMMA Spares == SavedThere /\ AutoThere /\ step # "down" => CrashSparesOne
  <1> SUFFICES ASSUME SavedThere, AutoThere, step # "down", saved # NULL, auto # NULL
               PROVE  Intact(path, saved) \/ Intact(auto.file, auto.edition)
    BY DEF CrashSparesOne
  <1>1. CASE Untouched(path)
    BY <1>1 DEF SavedThere
  <1>2. CASE ~Untouched(path)
    BY <1>2 DEF AutoThere, Untouched
  <1> QED BY <1>1, <1>2

LEMMA KeptNext == TypeOK /\ Flow /\ Writing /\ Kept /\ [Next]_vars => Kept'
  <1> SUFFICES ASSUME TypeOK, Flow, Writing, Kept, [Next]_vars PROVE Kept' OBVIOUS
  <1>1. SavedThere' /\ AutoThere' BY SavedThereNext, AutoThereNext DEF Kept
  <1>2. CASE step' # "down"
    <2>1. (SavedThere /\ AutoThere /\ step # "down" => CrashSparesOne)' BY Spares, PTL
    <2> QED BY <1>1, <1>2, <2>1 DEF Kept
  <1>3. CASE step' = "down"
    <2>1. ~(AutoSave \/ AutoSaveEnds \/ SaveEnds \/ Begins \/ Opens)
      BY <1>3 DEF AutoSave, AutoSaveEnds, SaveEnds, Begins, Opens, Loaded, Dispatching, ui, Flow
    <2>2. UNCHANGED <<disk, path, saved, auto>>
      BY <2>1, StepKinds DEF Quiet
    <2> QED BY <1>1, <2>2 DEF Kept, CrashSparesOne, Intact
  <1> QED BY <1>2, <1>3

\* Every write puts the user pipes in the file, and takes them out of memory.
LEMMA PipesNext == TypeOK /\ Flow /\ Writing /\ PipesAreInTheFile /\ [Next]_vars => PipesAreInTheFile'
  <1> SUFFICES ASSUME TypeOK, Flow, Writing, PipesAreInTheFile, [Next]_vars
               PROVE  PipesAreInTheFile'
    OBVIOUS
  <1> USE DEF PipesAreInTheFile
  <1>0. Torn \notin Content BY DocumentAssumption
  <1>1. ASSUME NEW f \in File, NEW isAuto \in BOOLEAN, StartWrite(f, isAuto)
        PROVE  PipesAreInTheFile'
    <2>1. write' # NULL BY <1>1, WriteIs
    <2> QED BY <1>0, <1>1, <2>1 DEF StartWrite, TypeOK
  <1>2. ASSUME NEW good \in BOOLEAN, write # NULL, Written(good)
        PROVE  PipesAreInTheFile'
    BY <1>0, <1>2 DEF Written, Writing, TypeOK
  <1>3. CASE AutoSave
    BY <1>1, <1>3 DEF AutoSave
  <1>4. CASE AutoSaveEnds
    BY <1>2, <1>4 DEF AutoSaveEnds
  <1>5. CASE SaveEnds
    BY <1>2, <1>5 DEF SaveEnds
  <1>6. CASE Begins
    BY <1>1, <1>6 DEF Begins
  <1>7. CASE Opens
    BY <1>7 DEF Opens, Loaded
  <1>8. CASE Quiet
    BY <1>8 DEF Quiet
  <1> QED BY <1>3, <1>4, <1>5, <1>6, <1>7, <1>8, StepKinds
-----------------------------------------------------------------------------
(* The mark.                                                               *)

LEMMA HonestNext == TypeOK /\ Flow /\ Writing /\ Honest /\ [Next]_vars => Honest'
  <1> SUFFICES ASSUME TypeOK, Flow, Writing, Honest, [Next]_vars PROVE Honest' OBVIOUS
  <1> USE DEF Honest, ui, tads, past, Intact
  <1>1. CASE Edit
    BY <1>1 DEF Edit
  <1>2. CASE AutoSave
    BY <1>2 DEF AutoSave
  <1>3. CASE AutoSaveEnds
    BY <1>3 DEF AutoSaveEnds, Writing
  <1>4. CASE SaveEnds
    <2>1. PICK good \in BOOLEAN :
              /\ good => write.opened
              /\ Written(good) /\ harm' = IF good THEN {} ELSE harm \cup {"writeFailed"}
      BY <1>4 DEF SaveEnds
    <2>2. write.file \in File BY <1>4 DEF SaveEnds, TypeOK, Writes
    <2>3. [edition |-> mem, pipes |-> pipeTab] \in Content BY DEF TypeOK, Content
    <2> QED BY <1>4, <2>1, <2>2, <2>3 DEF SaveEnds, Written, TypeOK
  <1>5. CASE OnFileSave
    <2>1. CASE path = NewPath
      BY <1>5, <2>1 DEF OnFileSave, StartSave, Idle, Flow
    <2>2. CASE path # NewPath
      BY <1>5, <2>2, WriteIs DEF OnFileSave, StartSave, TypeOK
    <2> QED BY <2>1, <2>2
  <1>6. CASE OnFileSaveAs
    BY <1>6 DEF OnFileSaveAs, Idle, Flow
  <1>7. CASE SaveAsChosen
    BY <1>7, WriteIs DEF SaveAsChosen
  <1>8. CASE SaveAsCancelled
    BY <1>8 DEF SaveAsCancelled
  <1>9. CASE OnCommand
    BY <1>9 DEF OnCommand, Ask, Idle, Flow
  <1>10. CASE AnswerYes
    BY <1>10, WriteIs DEF AnswerYes, StartSave, TypeOK, Flow
  <1>11. CASE AnswerNo
    BY <1>11 DEF AnswerNo, Flow
  <1>12. CASE AnswerCancel
    BY <1>12 DEF AnswerCancel, Flow
  <1>13. CASE Proceed
    BY <1>13 DEF Proceed, Loaded
  <1>14. CASE OnEndSession
    BY <1>14 DEF OnEndSession, Ask
  <1>15. CASE OpenChosen
    BY <1>15, Files DEF OpenChosen, Loaded
  <1>16. CASE OpenCancelled
    BY <1>16 DEF OpenCancelled, Flow
  <1>17. CASE Crash
    BY <1>17 DEF Crash
  <1>18. CASE Start
    BY <1>18 DEF Start, Loaded
  <1>19. CASE UNCHANGED vars
    BY <1>19 DEF vars
  <1>20. QED
    BY <1>1, <1>2, <1>3, <1>4, <1>5, <1>6, <1>7, <1>8, <1>9, <1>10, <1>11, <1>12,
       <1>13, <1>14, <1>15, <1>16, <1>17, <1>18, <1>19 DEF Next

LEMMA GivenUpNext == TypeOK /\ Flow /\ Writing /\ Honest /\ GivenUp /\ [Next]_vars => GivenUp'
  <1> SUFFICES ASSUME TypeOK, Flow, Writing, Honest, GivenUp, [Next]_vars PROVE GivenUp' OBVIOUS
  <1> USE DEF GivenUp, ui, tads, past, Intact
  <1>1. CASE Edit
    BY <1>1 DEF Edit, Idle
  <1>2. CASE AutoSave
    BY <1>2 DEF AutoSave
  <1>3. CASE AutoSaveEnds
    BY <1>3 DEF AutoSaveEnds, Written, Writing
  <1>4. CASE SaveEnds
    <2>1. PICK good \in BOOLEAN :
              /\ good => write.opened
              /\ Written(good) /\ harm' = IF good THEN {} ELSE harm \cup {"writeFailed"}
      BY <1>4 DEF SaveEnds
    <2>2. write.file \in File BY <1>4 DEF SaveEnds, TypeOK, Writes
    <2>3. [edition |-> mem, pipes |-> pipeTab] \in Content BY DEF TypeOK, Content
    <2> QED BY <1>4, <2>1, <2>2, <2>3 DEF SaveEnds, Written, TypeOK
  <1>5. CASE OnFileSave
    BY <1>5 DEF OnFileSave, StartSave, Idle
  <1>6. CASE OnFileSaveAs
    BY <1>6 DEF OnFileSaveAs
  <1>7. CASE SaveAsChosen
    BY <1>7 DEF SaveAsChosen
  <1>8. CASE SaveAsCancelled
    BY <1>8 DEF SaveAsCancelled
  <1>9. CASE OnCommand
    BY <1>9 DEF OnCommand, Ask, Idle, Flow, Honest
  <1>10. CASE AnswerYes
    BY <1>10 DEF AnswerYes, StartSave
  <1>11. CASE AnswerNo
    BY <1>11 DEF AnswerNo
  <1>12. CASE AnswerCancel
    BY <1>12 DEF AnswerCancel
  <1>13. CASE Proceed
    BY <1>13 DEF Proceed, Loaded
  <1>14. CASE OnEndSession
    BY <1>14 DEF OnEndSession, Ask
  <1>15. CASE OpenChosen
    BY <1>15 DEF OpenChosen, Loaded
  <1>16. CASE OpenCancelled
    BY <1>16 DEF OpenCancelled
  <1>17. CASE Crash
    BY <1>17 DEF Crash
  <1>18. CASE Start
    BY <1>18 DEF Start, Loaded
  <1>19. CASE UNCHANGED vars
    BY <1>19 DEF vars
  <1>20. QED
    BY <1>1, <1>2, <1>3, <1>4, <1>5, <1>6, <1>7, <1>8, <1>9, <1>10, <1>11, <1>12,
       <1>13, <1>14, <1>15, <1>16, <1>17, <1>18, <1>19 DEF Next

LEMMA IInvInit == Init => IInv
  <1> SUFFICES ASSUME Init PROVE IInv OBVIOUS
  <1>1. Absent \notin Content BY DocumentAssumption
  <1>2. \A f \in File : disk[f] = Absent BY DEF Init
  <1>3. TypeOK BY TypeInit
  <1>4. Flow /\ Writing /\ Honest /\ GivenUp
    BY DEF Init, Flow, Writing, Honest, GivenUp
  <1>5. PipesAreInTheFile BY <1>1, <1>2 DEF Init, PipesAreInTheFile
  <1>6. Kept BY DEF Init, Kept, SavedThere, AutoThere, CrashSparesOne
  <1> QED BY <1>3, <1>4, <1>5, <1>6 DEF IInv

LEMMA IInvNext == IInv /\ [Next]_vars => IInv'
  BY TypeNext, FlowNext, WritingNext, HonestNext, PipesNext, KeptNext, GivenUpNext DEF IInv

\* The inductive invariant, for any names and any number of automatic saves;
\* the type invariant is its first part.
THEOREM Invariance == Spec => []IInv
  <1>1. Init => IInv BY IInvInit
  <1>2. IInv /\ [Next]_vars => IInv' BY IInvNext
  <1> QED BY <1>1, <1>2, PTL DEF Spec

\* Every file, the project in memory and what the user interface is at have
\* their types, whatever is opened, saved or torn.
THEOREM TypeCorrect == Spec => []TypeOK
  <1>1. IInv => TypeOK BY DEF IInv
  <1> QED BY <1>1, Invariance, PTL

\* A project not marked as modified is the one in its file, or a new one: what
\* OnFileNew, OnFileOpen and CloseTASelect rely on when they do not ask.
THEOREM ModifiedHonest == Spec => []ModifiedIsHonest
  <1>1. IInv => ModifiedIsHonest
    <2> SUFFICES ASSUME IInv PROVE ModifiedIsHonest OBVIOUS
    <2>1. step \in {"idle", "openDialog"} => then # "end" BY DEF IInv, Flow
    <2>2. step = "ask" => modified BY DEF IInv, Flow
    <2> QED BY <2>1, <2>2 DEF IInv, Honest, ModifiedIsHonest
  <1> QED BY <1>1, Invariance, PTL

\* FileSave truncates a file in place, but a crash never tears both the
\* project's file and its automatic save, unless the user has saved the project
\* over the latter.
THEOREM OneFileSpared == Spec => []CrashSparesOne
  <1>1. IInv => CrashSparesOne BY DEF IInv, Kept
  <1> QED BY <1>1, Invariance, PTL

\* Every file holds the user pipes the project needs, and the TADS does not
\* keep the copies FileSave and AutoSave put there for the writing.
THEOREM PipesInEveryFile == Spec => []PipesAreInTheFile
  <1>1. IInv => PipesAreInTheFile BY DEF IInv
  <1> QED BY <1>1, Invariance, PTL

\* OnFileNew, OnFileOpen, CloseTASelect and the end of the session give up work
\* that is in no file only after the user has answered so.
THEOREM GivenUpAgreed == Spec => GivenUpOnlyIfAgreed
  <1> DEFINE Step == LeavesProject /\ mem # 0 /\ ~agreed /\ harm \subseteq {"copyFailed"}
                       => \E f \in File : Intact(f, mem)
  <1>1. IInv /\ [Next]_vars => [Step]_vars
    <2> SUFFICES ASSUME IInv, LeavesProject, mem # 0, ~agreed, harm \subseteq {"copyFailed"}
                 PROVE  \E f \in File : Intact(f, mem)
      OBVIOUS
    <2>1. Intact(path, mem) BY DEF IInv, GivenUp, LeavesProject
    <2>2. path \in File BY DEF IInv, TypeOK
    <2> QED BY <2>1, <2>2
  <1> QED BY <1>1, Invariance, PTL DEF Spec, GivenUpOnlyIfAgreed
=============================================================================
