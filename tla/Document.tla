------------------------------ MODULE Document ------------------------------
(***************************************************************************)
(* The life of a project document (CTASelectDoc): new, open, save, save    *)
(* as, close, the end of the Windows session, and the automatic save that  *)
(* a timer of the main window starts every ten minutes.                    *)
(*                                                                         *)
(* All run in the one thread of the user interface.  Message boxes and     *)
(* file dialogs dispatch messages while they wait, the timer's among them, *)
(* so the automatic save comes between a question and its answer; nothing  *)
(* comes in while a file is written, but a crash or a power failure.       *)
(*                                                                         *)
(* The contents of a project are the number of the edition that made them, *)
(* 0 for a new project, and whether the user pipes it uses are with it.    *)
(* Selection parameters of the tabs, the one-byte format, the clipboard    *)
(* and the repairs made on reading are left out.                           *)
(*                                                                         *)
(* A definition placed just before another one that it resembles is that   *)
(* one with a mistake in it (AutoSaveNameFixed before AutoSaveName): no    *)
(* action uses it, it is there to show that a property would notice.       *)
(***************************************************************************)
EXTENDS Naturals

CONSTANTS Name,         \* names of project files
          Default,      \* IDS_FILENONAME, the name of a project never saved
          MaxIndex,     \* bound on the index of an automatic save
          MaxEdits,     \* bound on the editions
          Absent, Torn, \* a file that is not there, one not wholly written
          NULL

\* Index 0 is a project file, 1 its "-autosave", 2 its "-autosave(1)", ...
File == (Name \cup {Default}) \X (0 .. MaxIndex)
Content == [edition : 0 .. MaxEdits, pipes : BOOLEAN]
NewPath == <<Default, 0>>
Writes == [file : File, auto : BOOLEAN, opened : BOOLEAN]
Edition == [file : File, edition : 0 .. MaxEdits]

ASSUME DocumentAssumption ==
    /\ Default \notin Name /\ Absent # Torn
    /\ MaxIndex \in Nat /\ MaxEdits \in Nat
    /\ NULL \notin Nat \cup Writes \cup Edition /\ {Absent, Torn} \cap Content = {}

VARIABLES disk,         \* what is in each file
          mem, pipeTab, \* the TADS: its edition, and whether it has a PIPE_TAB
          modified,     \* CDataBase::m_IsModified
          path,         \* the document's path name
          edits,        \* editions made so far
          step, then,   \* what the user interface is at, and goes on to
          write,        \* the file being written, NULL if none
          agreed,       \* the user has answered to leave the project unsaved
          harm,         \* what has gone wrong since the last good save
          saved,        \* the edition last saved, which is in the document's path
          auto          \* the one last saved automatically and the file it went to,
                        \* NULL once the user has saved over that file

vars == <<disk, mem, pipeTab, modified, path, edits, step, then, write,
          agreed, harm, saved, auto>>
ui == <<step, then, agreed>>
past == <<harm, saved, auto>>
tads == <<mem, pipeTab, modified>>

TypeOK ==
    /\ disk \in [File -> Content \cup {Absent, Torn}]
    /\ mem \in 0 .. MaxEdits /\ pipeTab \in BOOLEAN /\ modified \in BOOLEAN
    /\ path \in File /\ edits \in 0 .. MaxEdits
    /\ step \in {"idle", "ask", "saveAs", "openDialog", "proceed", "ending", "down"}
    /\ then \in {"nothing", "new", "open", "close", "queryEnd", "end"}
    /\ write \in Writes \cup {NULL}
    /\ agreed \in BOOLEAN
    /\ harm \subseteq {"writeFailed", "copyFailed", "dialogCancelled", "cancelIgnored",
                       "sessionGoesOn"}
    /\ saved \in (0 .. MaxEdits) \cup {NULL} /\ auto \in Edition \cup {NULL}

\* A project is in memory, as the file f holds it: the history starts anew.
Loaded(f, edition, last) ==
    /\ mem' = edition /\ pipeTab' = FALSE /\ modified' = FALSE /\ path' = f
    /\ step' = "idle" /\ then' = "nothing" /\ agreed' = FALSE
    /\ harm' = {} /\ saved' = last /\ auto' = NULL

Init ==
    /\ disk = [f \in File |-> Absent]
    /\ mem = 0 /\ pipeTab = FALSE /\ modified = FALSE /\ path = NewPath /\ edits = 0
    /\ step = "idle" /\ then = "nothing" /\ write = NULL
    /\ agreed = FALSE /\ harm = {} /\ saved = NULL /\ auto = NULL

\* The timer's message is dispatched: at rest, in a dialog, or between the two
\* messages of the end of the session.
Dispatching ==
    /\ write = NULL
    /\ \/ step \in {"idle", "ask", "saveAs", "openDialog"}
       \/ step = "ending" /\ then = "queryEnd"
Idle == write = NULL /\ step = "idle"

Edit ==
    /\ Idle /\ edits < MaxEdits
    /\ edits' = edits + 1 /\ mem' = edits + 1 /\ modified' = TRUE
    /\ UNCHANGED <<disk, pipeTab, path, write>> /\ UNCHANGED ui /\ UNCHANGED past
-----------------------------------------------------------------------------
(* FileSave.                                                               *)

StartWriteManualPipes(f, isAuto) ==
    /\ pipeTab' = ~isAuto
    /\ \E opened \in BOOLEAN :
         /\ write' = [file |-> f, auto |-> isAuto, opened |-> opened]
         /\ disk' = IF opened THEN [disk EXCEPT ![f] = Torn] ELSE disk

\* The user pipes are added to the TADS, and the file is truncated in place, if
\* it can be opened.
StartWrite(f, isAuto) ==
    /\ pipeTab' = TRUE
    /\ \E opened \in BOOLEAN :
         /\ write' = [file |-> f, auto |-> isAuto, opened |-> opened]
         /\ disk' = IF opened THEN [disk EXCEPT ![f] = Torn] ELSE disk

\* The name of the automatic save, always the same for a project.
AutoSaveNameFixed(f) == <<f[1], 1>>

\* An index is added when the project was opened from an automatic save.
AutoSaveName(f) == <<f[1], f[2] + 1>>

\* The copy that is written is made by DuplicateDataBaseTO; if that fails the
\* user pipes stay in the TADS.
AutoSave ==
    /\ Dispatching /\ modified
    /\ AutoSaveName(path) \in File
    /\ \/ StartWrite(AutoSaveName(path), TRUE) /\ UNCHANGED harm
       \/ /\ pipeTab' = TRUE /\ harm' = harm \cup {"copyFailed"}
          /\ UNCHANGED <<disk, write>>
    /\ UNCHANGED <<mem, modified, path, edits, saved, auto>> /\ UNCHANGED ui

\* Neither a stream that has not opened nor one that has failed throws: the
\* end of FileSave is the same.
Written(good) ==
    /\ disk' = IF ~write.opened THEN disk
               ELSE [disk EXCEPT ![write.file] =
                        IF good THEN [edition |-> mem, pipes |-> pipeTab] ELSE Torn]
    /\ pipeTab' = FALSE /\ write' = NULL
    /\ UNCHANGED <<mem, edits>>

AutoSaved(good) ==
    auto' = IF good THEN [file |-> write.file, edition |-> mem] ELSE NULL

AutoSaveEndsClearing ==
    /\ write # NULL /\ write.auto
    /\ \E good \in BOOLEAN :
         /\ good => write.opened
         /\ Written(good) /\ AutoSaved(good)
    /\ modified' = FALSE
    /\ UNCHANGED <<path, harm, saved>> /\ UNCHANGED ui

\* The flag is put back as it was.
AutoSaveEnds ==
    /\ write # NULL /\ write.auto
    /\ \E good \in BOOLEAN :
         /\ good => write.opened
         /\ Written(good) /\ AutoSaved(good)
    /\ UNCHANGED <<modified, path, harm, saved>> /\ UNCHANGED ui

\* A save the user has asked for, or agreed to; after "save as", SetPathName.
\* It may have gone over the last automatic save, which then is no more.
SaveEnds ==
    /\ write # NULL /\ ~write.auto
    /\ \E good \in BOOLEAN :
         /\ good => write.opened
         /\ Written(good)
         /\ saved' = IF good THEN mem ELSE NULL
         /\ harm' = IF good THEN {} ELSE harm \cup {"writeFailed"}
    /\ auto' = IF auto # NULL /\ auto.file = write.file THEN NULL ELSE auto
    /\ modified' = FALSE /\ path' = write.file
    /\ step' = IF then = "nothing" THEN "idle" ELSE "proceed"
    /\ UNCHANGED <<then, agreed>>

\* OnFileSave: a project without a name gets one first.  The automatic save of
\* one has a name, without the ".tsp" the test looks for ("Untitled.tsp").
StartSave ==
    \/ path = NewPath /\ step' = "saveAs" /\ UNCHANGED <<disk, write, pipeTab>>
    \/ path # NewPath /\ StartWrite(path, FALSE) /\ UNCHANGED step
-----------------------------------------------------------------------------
(* Commands.                                                               *)

OnFileSave ==
    /\ Idle /\ StartSave
    /\ UNCHANGED <<mem, modified, path, edits, then, agreed>> /\ UNCHANGED past

OnFileSaveAs ==
    /\ Idle /\ step' = "saveAs"
    /\ UNCHANGED <<disk, path, edits, then, write, agreed>>
    /\ UNCHANGED tads /\ UNCHANGED past

\* The file dialog of "save as" is closed: any file can be chosen, an automatic
\* save too, one of this very project among them.
SaveAsChosen ==
    /\ write = NULL /\ step = "saveAs"
    /\ \E f \in File : StartWrite(f, FALSE)
    /\ UNCHANGED <<mem, modified, path, edits>> /\ UNCHANGED ui /\ UNCHANGED past

\* OnFileSave returns nothing: those that have called it go on.
SaveAsCancelled ==
    /\ write = NULL /\ step = "saveAs"
    /\ IF then = "nothing" THEN step' = "idle" /\ UNCHANGED harm
       ELSE step' = "proceed" /\ harm' = harm \cup {"dialogCancelled"}
    /\ UNCHANGED <<disk, path, edits, write, then, agreed, saved, auto>> /\ UNCHANGED tads

AskUnnamed(next) ==
    then' = next /\ step' = IF modified /\ path = NewPath THEN "ask" ELSE "proceed"

\* "Save the current file?" is asked if the project is modified.
Ask(next) == then' = next /\ step' = IF modified THEN "ask" ELSE "proceed"

OnCommand ==
    /\ Idle /\ \E next \in {"new", "open", "close", "queryEnd"} : Ask(next)
    /\ UNCHANGED <<disk, path, edits, write, agreed>> /\ UNCHANGED tads /\ UNCHANGED past

AnswerYes ==
    /\ write = NULL /\ step = "ask" /\ StartSave
    /\ UNCHANGED <<mem, modified, path, edits, then, agreed>> /\ UNCHANGED past

AnswerNo ==
    /\ write = NULL /\ step = "ask"
    /\ step' = "proceed" /\ agreed' = TRUE
    /\ UNCHANGED <<disk, path, edits, write, then>> /\ UNCHANGED tads /\ UNCHANGED past

\* Only CloseTASelect has a cancel button.  OnQueryEndSession returns TRUE all
\* the same, and OnEndSession asks again, to no more avail.
AnswerCancel ==
    /\ write = NULL /\ step = "ask" /\ then \in {"close", "queryEnd", "end"}
    /\ IF then = "close" THEN step' = "idle" /\ then' = "nothing" /\ UNCHANGED harm
       ELSE step' = "ending" /\ UNCHANGED then /\ harm' = harm \cup {"cancelIgnored"}
    /\ UNCHANGED <<disk, path, edits, write, agreed, saved, auto>> /\ UNCHANGED tads

\* The rest of OnFileNew, OnFileOpen and CloseTASelect.
Proceed ==
    /\ write = NULL /\ step = "proceed"
    /\ \/ then = "new" /\ Loaded(NewPath, 0, NULL)
       \/ /\ then = "open" /\ step' = "openDialog"
          /\ UNCHANGED <<path, then, agreed>> /\ UNCHANGED tads /\ UNCHANGED past
       \/ /\ then \in {"close", "queryEnd", "end"}
          /\ modified' = FALSE
          /\ step' = IF then = "close" THEN "down" ELSE "ending"
          /\ UNCHANGED <<mem, pipeTab, path, then, agreed>> /\ UNCHANGED past
    /\ UNCHANGED <<disk, edits, write>>

\* Windows tells, after OnQueryEndSession, whether the session does end: the
\* program asks again in either case, if the project is still modified.
OnEndSession ==
    /\ write = NULL /\ step = "ending"
    /\ \/ then = "queryEnd" /\ Ask("end") /\ UNCHANGED <<agreed, harm>>
       \/ then = "end" /\ step' = "down" /\ UNCHANGED <<then, agreed, harm>>
       \/ /\ then = "end" /\ step' = "idle" /\ then' = "nothing" /\ agreed' = FALSE
          /\ harm' = harm \cup {"sessionGoesOn"}
    /\ UNCHANGED <<disk, path, edits, write, saved, auto>> /\ UNCHANGED tads

\* FileOpen.  A file not wholly written is refused by its header, or the
\* reading throws and the document is replaced by a new one.
OpenChosen ==
    /\ write = NULL /\ step = "openDialog"
    /\ \E f \in File :
         \/ disk[f] \in Content /\ Loaded(f, disk[f].edition, disk[f].edition)
         \/ disk[f] = Torn /\ Loaded(NewPath, 0, NULL)
    /\ UNCHANGED <<disk, edits, write>>

OpenCancelled ==
    /\ write = NULL /\ step = "openDialog"
    /\ step' = "idle" /\ then' = "nothing" /\ agreed' = FALSE
    /\ UNCHANGED <<disk, path, edits, write>> /\ UNCHANGED tads /\ UNCHANGED past

Crash ==
    /\ step # "down"
    /\ step' = "down" /\ write' = NULL
    /\ UNCHANGED <<disk, path, edits, then, agreed>> /\ UNCHANGED tads /\ UNCHANGED past

Start ==
    /\ step = "down" /\ Loaded(NewPath, 0, NULL)
    /\ UNCHANGED <<disk, edits, write>>

Next ==
    \/ Edit \/ AutoSave \/ AutoSaveEnds \/ SaveEnds
    \/ OnFileSave \/ OnFileSaveAs \/ SaveAsChosen \/ SaveAsCancelled
    \/ OnCommand \/ AnswerYes \/ AnswerNo \/ AnswerCancel
    \/ Proceed \/ OnEndSession \/ OpenChosen \/ OpenCancelled
    \/ Crash \/ Start

Spec == Init /\ [][Next]_vars
-----------------------------------------------------------------------------
Intact(f, edition) == disk[f] \in Content /\ disk[f].edition = edition

\* A project that is not marked as modified, and so can be left without a
\* question, is the one in its file, or a new one.  It takes a last save that
\* has not failed unnoticed, and a session whose end was not called off after
\* the program had already cleared the mark.
ModifiedIsHonest ==
    /\ ~modified /\ write = NULL /\ step \in {"idle", "ask", "openDialog"}
    /\ harm \cap {"writeFailed", "sessionGoesOn"} = {}
    => Intact(path, mem) \/ (path = NewPath /\ mem = 0)

\* Files are written in place, and a crash leaves the one that was being
\* written torn.  Never the other one: once a project has been saved and saved
\* automatically since it was opened, one of the two is there at any moment.
\* It takes an automatic save the user has not since saved over: "save as" lets
\* the project's own be chosen, and the next save then truncates the only file.
CrashSparesOne ==
    saved # NULL /\ auto # NULL => Intact(path, saved) \/ Intact(auto.file, auto.edition)

\* Work that is in no file is given up, for a new project, another one or the
\* end of the program, only if the user has answered so; otherwise the file
\* dialog was cancelled, a save has failed or the session was ended, three
\* cases in which the program goes on all the same.
LeavesProject ==
    \/ step \in {"proceed", "openDialog"} /\ step' = "idle" /\ (path' # path \/ mem' # mem)
    \/ step \in {"proceed", "ending"} /\ step' = "down" /\ modified' = FALSE
GivenUpOnlyIfAgreed ==
    [][LeavesProject /\ mem # 0 /\ ~agreed /\ harm \subseteq {"copyFailed"}
         => \E f \in File : Intact(f, mem)]_vars

\* A project can be opened where its user pipes are not known: every file has
\* them, and between two saves the TADS has no copy of its own that could
\* differ from the pipes of the program, unless an automatic save has failed.
PipesAreInTheFile ==
    /\ \A f \in File : disk[f] \in Content => disk[f].pipes
    /\ pipeTab /\ write = NULL /\ step # "down" => "copyFailed" \in harm
=============================================================================
