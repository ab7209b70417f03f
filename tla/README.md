# HySelect: TLA+ verification of the database, document, project tree and device updates

HySelect is a Windows (MFC, C++) program for the design of hydronic networks. A
project is a tree of objects (hydronic modules, pipes, valves, selected
products) kept in an in-memory object database, which also holds the product
catalogues. A document saves it, by hand and automatically; a project tree
rearranges it. Apart from all this, one window upgrades the firmware of a
DpS-Visio measuring device, and a wizard exchanges files with a TA-Scope handheld
over a serial port and updates it. This directory holds TLA+ models of these parts, the
TLC runs that check them on small instances, and TLAPS proofs that hold for
every value of the constants.

    tlc -workers 2 -config MCDataBase.cfg MCDataBase      # a run
    tlapm DataBaseProofs.tla                              # a proof module

Line numbers below refer to `src/TASelect/`.

## 1. Inventory

### Components

**Data list, `CDataList`** (DataBase.cpp 607-857, DataBase.h).
State: a heap array of pointers to records sorted by ID (`m_ppDataArray`), the
number of records (`m_usDataAmount`, unsigned short), the size of the allocation
(`m_usArraySize`, unsigned short, in steps of 16), one loop cursor
(`m_sCursor`, a *short*). Operations: `Insert`, `Remove`, `Locate` (a
dichotomy), `GetFirst`/`GetNext`/`SetPos` and `MakeEmpty`. Every table and the
database itself are built on it. Correct when: the array stays strictly sorted
(otherwise `Locate` misses objects silently); accesses stay inside the
allocation; the dichotomy terminates and gives the index or the insertion
point; a `GetFirst`/`GetNext` loop hands out every record once although its body
removes records and runs loops on the same list.

**Object database, `CDataBase`, `CTable`, `CData`** (DataBase.cpp).
State: the set of live objects (`m_DataSet`); for every table the list of what
it holds, with one cursor and one class name (`m_CNAccess`) for all the walks on
it; for every object the parent pointer `PP` and the list of owners that
lock it (`m_pOwners`, IDs). Operations: creation, `CTable::Insert`/`Remove`,
walks over the records of a class, `DeleteObject`, `DeleteObjectRecursive`,
`VerifyDataSetIntegrity`, `MakeEmpty` (destruction) and `Init`, file reading and
writing, `DuplicateDataBaseTO`.
The same relation is stored three times (list, PP, owners), raw pointers cross
it, and the operations update the copies one after the other. Correct when: the
copies agree, no pointer leads to freed memory, tables form a forest, a
deletion takes exactly what must go, and a walk ends.

**Ruled tables and product locks** (DataBObj.cpp). Catalogue tables list
products without being their parent; a product locks the shared characteristic
it uses. They add a second kind of link to the three above.

**Document, `CTASelectDoc`** (TASelectDoc.cpp, MainFrm.cpp). State: the path, the
modified flag of the database, and the files. Operations: new, open, save, save
as, close, the end of the Windows session, and the automatic save, which a timer
starts every ten minutes and which comes in while a message box or a file
dialog waits. A save truncates the file in place; it adds the user pipes of the
project to the tree, writes, and takes them away again. Correct when the flag
never says "saved" of a change that is not on disk, and when work is given up
only by the user.

**Project tree** (`CTADatastruct`, DataStruct.cpp; `CProjTreeCtrl`,
ProjTreeCtrl.cpp; DlgLeftTabProject.cpp, DlgCreateModule.cpp, DlgPasteHM.cpp,
SheetHMCalc.cpp). State: parent, position, level and name of every module and
circuit; the clipboard table; the last operation (`m_eLastOperation`) and the
`TVIS_CUT` marks of the tree control. Operations: creation, edition of a
position, deletion, copy, cut, paste, connection, drag and drop. It is the main
caller of `CTable::Insert`/`Remove`, and what those do not check (a cycle, a
double listing) is its duty.

**DpS-Visio firmware upgrade** (DlgDpSVisio.cpp and the two running dialogs,
DlgDpSVisioHIDUpgradeRunning.cpp and DlgDpSVisioDFUUpgradeRunning.cpp). State:
the communication object of the connected device, the dialog shown, the state
engine of the running dialog, its worker thread, its critical section and its
stop event, the messages posted to the window. The worker takes a turn of the
engine every 300 ms; device notifications, posted messages, a timer and the
user come through the window thread. It is one of the two concurrent parts of the program.
Correct when a turn never works with an object that is gone, when a dialog is
not deleted under its thread, when a success means a programmed device, and when
neither thread waits for good.

**TA-Scope serial port, `CSerialPort`** (SerialLibTAScope/SerialPort.cpp).
State: a block of memory (`SERIALCOM_HANDLE`) that two threads share, with a
circular buffer of one packet, its two pointers and its count, the mark
`fRunning` and three events. Operations: `PortOpen`, `PortClose`, `ReadBuffer`
(called a character at a time) and the loop of the receiving thread. Correct when
the bytes come out once and in order, when no wait outlasts the device, and when
the block is not freed under the thread.

**TA-Scope update** (DlgPanelTAScopeUpdate.cpp in the wizard DlgWizTAScope.cpp,
with the timer of DlgPanelTAScopeStart.cpp). State: the flags of the wizard and
its panels (`m_fComPortBusy`, `m_iComNumber`, `m_fRefreshVersion`,
`m_fUploadInCourse`, `m_bComInterruptRequested`, the states of the radio and
sensor updates), its buttons, its timers, and the file tables. One thread; but
services and waits pump messages, so that handlers run on top of one another:
a backup, the upload of files and of their table, the programming of the radio
and of the sensor, a reboot, questions, two timers, the close box and Escape.
Correct when the handheld gets a new table only with its files, when a success
is one, when nothing is freed under a handler that goes on, and when nothing is
left switched off at the end.

**TA-Scope packets, services and data panels** (Packet.cpp, ServiceManager.cpp,
DlgPanelTAScopeDownload.cpp, -Upload.cpp, -Maintenance.cpp): framing with a
checksum, one request and one answer at a time. `CCom` (SerialCom.cpp) is
another serial port, whose receiving thread nothing starts.

**Spreadsheet messages** (MessageManager.cpp): shared buffers with a counter of
readers. **Product files and user pipes** (FileTableMng.cpp,
PipeUserDatabase.cpp, DeletedProductHelper.cpp). **Hydronic calculation and
selection** (HydroMod.cpp, Select.cpp, CurvFit.cpp). **User interface**
(MainFrm.cpp and some hundred dialogs).

Third-party code in the repository (TeeChart, Spread, ZipArchive, SQLite, the
DFU library, JsonParser, CppUnit) is not considered.

### Interactions

    UI -> ProjTreeCtrl -> CTADatastruct -> CTable -> CDataList
                              |               |
    Document (save, autosave) +-> CDataBase --+-> CDataList (m_DataSet)
                                      |
    Ruled tables, products -----------+   owners: locks between objects

    Windows (device events, timer) -> DpS-Visio window <-> worker thread -> device
                  critical section, posted messages, SendMessage, stop event

    TA-Scope wizard (handlers nested by the pump) -> services -> CSerialPort
    CSerialPort: window thread <-> receiving thread -> device
                  critical section, three events, one shared block

The first group is synchronous calls in one thread. Its hard behaviours are not
data races but *re-entrance and protocol*: a loop body that changes the list it
loops on, an automatic save between a question and its answer, an exception
thrown between two updates, pointers left behind by a removal, a search by name
that meets another module, sequences of legal calls that end in an illegal
state. The second group has two threads, and every order of their steps. The
third has both: two threads below the port, nested handlers above it.

### Hazards

`PROJECT.json` lists them under `hazards`, each at its line with the properties
that would catch it. Five have no property, and a note says why: `ChangeID`
(DataBase.cpp 3674), the selection parameters (TASelectDoc.cpp 492), what the
automatic copy leaves out (DataBase.cpp 1246), waits in real time
(DlgDpSVisioHIDUpgradeRunning.cpp 222), and the class name that nested walks
share (DataBase.cpp 4096).

## 2. Plan

| state | module | models | checked and proved |
|---|---|---|---|
| done | `SortedList`, `Locate`, `DataList`, `DataSet` | `CDataList` | sorted, allocated, searched, looped over; refinement of `DataSet`; all safety proved, and that a search comes nearer its end |
| done | `DataBase`, `ObjectTree` | links between objects, deletion, destruction | six invariants and the refinement of trees of objects, all proved |
| done | `TableLoop` | walks over the records of a class | a violated run |
| done | `DpSVisio`, `HIDUpgrade`, `DFUUpgrade`, `DpSVisioUpgrade` | window and worker of the upgrade | four safety properties, all proved; three liveness properties, with the argument under them proved |
| done | `ProjectTree` | the network and the commands that change it | six properties, all proved |
| done | `Document` | saving, leaving, crashing | four properties, all proved |
| done | `ByteQueue`, `SerialPort` | the serial port of the TA-Scope and its thread | two invariants and the refinement of a queue, proved; one liveness property, with the argument under it proved |
| done | `TAScopeUpdate` | the update of a TA-Scope under nested handlers | four safety properties, all proved; one liveness property, with the argument under it proved |
| left | `TAScopeServices` | packets and services: an answer that comes after its time-out, blocks that are refused | |
| left | in `ProjectTree` | selections of several items, automatic names | |
| left | in `Document` | selection parameters of the tabs; the reading of a file and the duplicate as functions of `ObjectTree` | |
| left | in `DataList` | `ChangeID` | |

The messages of `CMessageManager` were planned and dropped: every sheet
registers one window for a notification, so that a buffer has one reader
whenever it is read, and there is no order of steps to explore.

`DataList` and `DataBase` are not composed in one state space: `DataList` is
shown (and proved) to implement `DataSet`, a set with a loop, and `DataBase`
uses that set. A table of `DataBase` is a `DataList` whose cursor is left out
because, by `NothingSkipped` and `ImplementsDataSet`, a loop visits each member.
In the same way `ProjectTree` uses tables that `DataBase` has shown to hold
together, and `Document` a project whose contents are one value. The upgrade is
composed: its window, both engines, the worker and the devices are one
specification. `SerialPort` and `TAScopeUpdate` meet at `PortOpen` and
`PortClose`: the first shows that they return, which lets the second take them,
and the short services that do not pump, as steps.

## 3. The models

### SortedList
Operators shared by the next two modules: an array is a function from
`0 .. n-1`; `IsPosition(a, n, id, p)` says that `p` is where `id` is or would go
(what `Locate` returns), `ShiftUp`/`ShiftDown` are the copy loops of `Insert`
and `Remove`. The first lemmas of `DataListProofs` say what they do to order and
content.

### Locate
One behaviour is one call of `CDataList::Locate` (799-857): `Init` chooses the
list and the ID, `LocateInEmptyList`/`StartSearch` are the tests before the
loop, `Halve` one turn of it, `Decide` the comparisons after it in the code's
order. `Contract` is what the callers rely on; `DataList` uses exactly that
contract (`IsPosition`) in place of the loop, so the two modules together cover
the code.

### DataList and DataSet
`DataList` has one action per operation. `array`, `amount`, `arraySize`,
`cursor` are the fields; `slots` is the size really passed to `new`, which the
code does not remember and which differs by one between `Insert` and `Remove`.
Conversions to `short` and `unsigned short` wrap (`Short`, `UShort`), with the
width given by `ShortMax`.

Three ghost variables describe the user: `current`, the record its loop is at;
`tracked`, whether nothing but the removal of that record has happened since;
`pending`, what the loop still owes. `GetNext` (the cursor version) is allowed
only while `tracked`: that is how the code uses it, and after any other change
callers use `CTable::GetNext(CData*)`, `GetNextOf`, which finds its position
again. `InnerLoop` is any other loop on the same list in the loop's body.
`Remove` is a removal through `CDataBase`, `TableRemove` through `CTable`,
which steps the cursor back.

`DataSet` is the abstract specification: a set, and a loop that hands out its
members in order while it changes. `ImplementsDataSet` maps `ids` to the
records of the array and `last` to `current`.

### DataBase
IDs stand for objects and for pointers to them. `alive` is `m_DataSet`,
`pp`/`stale` the parent pointer and whether the table it points to was freed,
`owners` and `members` the two lists. `phase` follows the two loops of
`CDataBase::MakeEmpty` (warn everything, then free everything) with `remaining`
still to visit; the order of the visits is left open.

An operation is one action with everything it calls. The recursion of
`DeleteObjectRecursive` is the set `Branch({o})`, the least set closed under
"lists"; a branch is freed in one step because nothing runs in between.
Use of freed memory is a phase that stops the behaviour: `freedTableUsed` when
a method of a freed table would be called, `freedItemRead` when
`CTable::GetNext` reads the ID of the object just freed (which can go either
way, hence the two disjuncts of `FreeBranch`).

What the code leaves to its callers stands in separate guards:

| guard | meaning | why |
|---|---|---|
| `CallerInTree(t)` | insertions are in a table that hangs on the root | `Insert` does not look; without it cycles appear. Every command of the project tree respects it but a drop on an own child, which `ProjectTree` shows |
| `removed before` (in `Insert`) | an object listed in a true table is removed before it is inserted in another | as `MoveHydroMod` and the clipboard do |
| `CallerOneInFlight(o)` | what was removed is inserted or deleted before something else is removed | the moves of the project tree are of this form |
| `CallerSparesRuled(S)` | products listed in catalogue tables are not deleted while listed | the catalogues are not edited |
| `emptied before`, `not a listed product` (in `DeleteObject`) | a table is emptied before a deletion without force | the forced, recursive deletion is for the other case |

`ObjectTree` is the abstract specification: objects that hang in trees, each
under at most one other, and that others can hold. An object that hangs or is
held is not discarded; `Prune` takes exactly what hangs under an object; nothing
is hung under itself; at the end everything lets go before the first object goes.
It has one function where the code has three lists to keep in step.
`ImplementsObjectTree` maps `parent` to the table that PP points to while that
table lists the object (`ParentOf`), `holders` to the owners that are products
(the tables among the owners are the parent again), and `closing` to the phases
of `MakeEmpty`. A ruled table hangs somewhere like any object; what it lists
is held by no one and is no part of the abstract state.

### TableLoop
A table as a set of IDs with the cursor of its list and the class name
`m_CNAccess`, which every `GetFirst`, `IsExist` and `GetItemCount` overwrites.
`at` is the record that a walk holds: `GetNext` goes on from the cursor,
`GetNextOf` (`GetNext( CData * )`) from `at`. The guard of `GetNext` leaves out
calls before `GetFirst` and after the end of a walk, which the code does not
make.

### DpSVisio, HIDUpgrade, DFUUpgrade, DpSVisioUpgrade
`DpSVisio` is the window (`CDlgDpSVisio`) and what both running dialogs share,
`HIDUpgrade` and `DFUUpgrade` the two state engines, `DpSVisioUpgrade` their
composition with the devices and the properties.

| variable | code |
|---|---|
| `plugged`, `news` | the devices as Windows sees them, and the notifications not handled yet; a device in HID mode may leave without one (the comment at the time-out of the DFU engine says so) |
| `comm` | `m_pclDpSVisioCommunication`, with the mode and the device it was opened on |
| `dialog`, `update`, `cancel`, `popup` | `m_pCurrentDialog`, the buttons, the dialog over the DFU dialog |
| `posted` | the message queue, first in first out |
| `ui` | what the window thread is at: idle, waiting for the critical section in one of its handlers, waiting for the thread to stop, about to free the object, or gone |
| `engine`, `counter`, `left`, `msgs`, `status`, `saved` | the fields of the running dialog |
| `worker`, `cs`, `pcl`, `reply` | where in its turn the thread is, who holds the critical section, the object the turn took a pointer to, the answer it reports |
| `refused`, `programmed` | history |

A turn that does not talk to the device is one step, for it holds the critical
section throughout. A turn that talks is several: it takes the object, waits for
the device, writes the answer into a control of the dialog (a `SendMessage`,
which waits until the window takes messages) and ends. The packets go out in one
turn outside the critical section, packet by packet, so everything else can
happen between two of them. A use of freed or NULL memory, or the deletion of a
dialog whose thread is alive, sets `fault` and ends the behaviour. The wait of
the window for the thread (a second) can give up when the worker is in a step
that may take longer (`Busy`); a turn without such a step ends well within it.
An answer of the device is an acknowledgement, a refusal or silence, and in DFU
mode done, busy or an error, in any order.

`DropDialogMessages` stands for the messages that Windows throws away with their
dialog; the type invariant shows that there are none.

### ProjectTree
`net` is the network: kind, parent, position, level and name of each object.
`Insert`, `VerifyNewPos` (makes room), `RemoveIndexHole` (closes the hole),
`SetHMLevel` (levels of a branch), `MoveBranch`, `ConnectBranch` are functions
from network to network in the words of the code, and a command composes them in
the order the code calls them: one action per command of the menu, of the
dialogs and of the mouse. The order in which `CDataList` hands out the objects of
a level is that of IDs which have been taken and returned, so a search by name
(`FindHydroMod`) returns any of those that are found first on their way down.
`clip` is the copy of a branch in the clipboard, `cut` the marks that the menus
look at to forbid pasting a branch in itself. What a move in the own branch and
a freed destination table do is `failure`, which ends the program. A connection
to a circuit of the own branch does not end it: `ConnectBranch` takes the branch
off the network, as a ring, and the commands that follow go on without it.

### Document
The contents of a project are the number of the edition that made them and
whether the user pipes are with it. `step` and `then` are what the user
interface is at and goes on to: idle, asking whether to save, in the file dialog
of Save As, proceeding with the command, in the dialog of Open, ending, or down.
`write` is the file being written: it is truncated when the writing starts, and
whole when it has ended well, so that a `Crash` between the two leaves a torn
file; a writing that fails, in the open or later, is reported by nobody. The
automatic save is possible at every wait of the user interface (`Dispatching`).
Save As writes in any file, the automatic saves of this very project among them.
`saved` and `auto` are history: the edition last saved, which is in the
document's path, and the one last saved automatically with the file it went to,
which is forgotten when the user saves over that file.
`harm` records what went wrong since the last good save, and is only used by the
properties to name the cases in which the code promises less.

### ByteQueue and SerialPort
`ByteQueue` is the promise: what was sent since the opening comes out of
`ReadChar` in order, each byte once. In `SerialPort` a byte is its number since
the opening. `window` is where the thread of the caller is, `thread` where that
of the port is; `running` and the three events are fields of the block, and
`fifo`, `bufferIn`, `bufferOut`, `bytesInBuffer` its circular buffer, whose
pointers are counted from 0. A critical section only holds memory accesses and is one step,
together with an access just before it that no other thread writes; the count
that `ReadBuffer` reads outside of it (365) is a step of its own (`ReadChar`).
"closed" also stands for an opening that failed, which leaves nothing behind.
A thread whose block was freed goes to `orphans`, and its next step is a fault;
so is the `DebugBreak` of a full buffer.

### TAScopeUpdate
`frames` is the stack of handlers, with for each where it is (`at`), whether
what it did succeeded (`ok`, the code's `fSuccess`), the file it is at, and
whether the port or the table it holds was freed (`stale`). A step is what a
handler does from one pump to the next: `BackupFile` to `Ending` follow
`OnWizNext` downwards, `Ask` and `Answer` are its question, and every other
action is a message that the pump dispatches. Only the frame on top moves.
`Begin` is `IsTAScopeAvailable` and `PortOpen`, which do not pump, with the
service that begins; `Refused` is each way in which they or the service fail at
once; a service that has begun is at a pump between two blocks, and `Served` says
when it may still succeed. A message box disables the wizard but not its timers.
`cancelled`, `noFolder` and `fault` are history: Yes was answered during this
update, the folder of the backup was refused, something freed was used.
`next` stands for a button that is shown, `enabled` for one that can be pressed.

Left out: the boot mode, more than one port to search, files that are missing on
the disk, the boxes that only inform (the delayed firmware, the new DpS-Visio
firmware), the forced off-line mode, texts and progress bars.

### Mutated definitions
A definition that stands just before another one that it resembles is that one
with a plausible mistake (`EnlargeLate` before `Enlarge`). No action uses it.
Put in the place of the right one, it makes the property named in
`PROJECT.json` fail under the same configuration, which shows that the property
has something to say.

## 4. Runs

| run | result | states | bounds |
|---|---|---|---|
| `MCLocate.cfg` | passes | 19 359 | every sorted list of 0 to 6 records of 9 IDs: two to three turns of the loop, odd and even windows, IDs before, between and after |
| `MCDataList.cfg` | passes | 21 652 | 6 IDs, 5 records, step 2: the array grows three times, shrinks, and alternates at a step; `ShortMax` 5, as many records as a short can index |
| `MCDataBase.cfg` | passes | 263 966 | root, two true tables that can be nested either way, one ruled table, a product and a characteristic: three levels, two orphans at once, a lock of each kind |
| `DataBaseSiblingNames.cfg` | violated | | as above |
| `DataBaseFreedItem.cfg` | violated | | as above |
| `TableLoopNull.cfg` | violated | | IDs 1 to 4 of two classes, A (1, 4) around B (2, 3): a walk over B has records of A before and after it |
| `MCProjectTree.cfg` | passes | 36 398 | 4 objects, 2 names, 4 positions, 7 commands: a branch of three levels with a second branch to drop it on, a circuit below itself to connect it to, or cut from under it; copies with the name of their original; positions with a hole in the middle; symmetry of objects and of names |
| `MCDocument.cfg` | passes | 7 897 538 | one file name beside the default, 2 automatic copies of each, 2 editions, at most 3 files and 2 kinds of `harm` at a time: saving over one's own file, over another and over one's own automatic save, automatic saves at every wait, an edition between two saves |
| `MCDpSVisio.cfg` | passes | 474 325 | one device that needs the upgrade and one that does not, 3 plug and unplug events, 2 packets, one turn of waiting (`WaitUSBEventTimeout`, 70 in the code) |
| `DpSVisioPackets.cfg` | violated | | as above |
| `MCSerialPort.cfg` | passes | 21 708 | a buffer of 3 bytes and 8 bytes sent: the pointers go round twice, the buffer is empty, full and overrun; any number of openings |
| `MCTAScopeUpdate.cfg` | passes | 695 216 | two files, the firmware of the sensor and that of the radio, one file to read back, two handlers on top of one another |

Every bound is a constant: the sizes of the sets, `MaxAmount` (guard of
`Insert`), `MaxCommands` and `MaxPos` of the project tree, `MaxIndex` and
`MaxEdits` of the document, `MaxFiles` and `MaxHarm` of its run, `MaxChanges`,
`PacketCount` and `WaitUSBEventTimeout` of the upgrade, `FIFOSize` and `MaxBytes` of the port,
`MaxFrames` of the TA-Scope update. Three files are the project's, an automatic
save and one more, which can be of the other name; what they leave out is many
projects side by side, which no step compares. The length of the wait and the number of
packets only decide how often a turn repeats itself: two packets have a first, a
next and a last one, with everything else possible between; three device events
are a device that leaves, another that comes and leaves again. Two handlers are
an update with any other handler on it, a second update in a cancelled one
included; an update that brings no firmware for the radio is a case of the
theorems only; the safety properties also held in a trial with three (19.7
million states), which only adds handlers on those. The safety properties are
proved for all values of these constants, so there the runs only guard against a
specification that says nothing.

Symmetry is used in `ProjectTree`, where objects and names are only compared for
equality. IDs are ordered in `DataList` and `TableLoop`, the
objects of `DataBase` and the devices play different parts.

`CHECK_DEADLOCK FALSE` stands where the system really may stop: `DataBase` and
`TableLoop` (freed memory read, NULL followed), `ProjectTree` (a failure, and
the last command), the upgrade (the window is closed; and worker and window
do wait for each other, see `OnlyReportsBlockTheWindow`), the serial port (the
breakpoint, a freed block used) and the TA-Scope update (the wizard is closed,
something freed was used). `DataList`, `Locate`
and `Document` are checked for deadlock.

### What the passing runs show
* `Locate`: `SearchWindow` (no comparison reads outside the list), `Contract`,
  `Terminates`.
* `DataList`: `InOrder`; `Capacity` (no write outside the allocation, also when
  insertions and removals alternate at the edge of a step); `NothingSkipped` (a
  loop hands out what it has to, whatever its body does to the list);
  `ImplementsDataSet`.
* `DataBase`: `VerifyTable` (the code's own cross-check never throws);
  `ListedIsLocked`; `NoDanglingLink` (what is listed and what a parent pointer
  leads to is alive); `Acyclic`; `NoFreedTableUsed`; `UnlinkedBeforeFree`
  (destruction in any order is safe); `ImplementsObjectTree` (lists, parent
  pointers and owners, updated one after the other, behave as one relation).
* `ProjectTree`: `NothingLost` (what was found from the network through
  modules still is after every command, but for what a module connected below
  itself has held); `LevelIsDepth`; `PositionsKept` (no two modules of a
  table at one position, no hole but those that a position taken in another
  table, a copy or a paste leaves); `SiblingsKeepOrder`; `CutLosesNothing`;
  `DeleteTakesTheSelected` (up to a module of the same name).
* `Document`: `ModifiedIsHonest` (an unmodified document is on disk);
  `CrashSparesOne` (a crash while a file is written leaves the other one of the
  last save and the last automatic save, as long as they are two files); `PipesAreInTheFile`; `GivenUpOnlyIfAgreed`.
* Upgrade: `SuccessIsProgrammed`; `TalksToLiveDevice` (the object the worker
  talks to is not freed under it); `RegularEndIsClean` (a dialog that ends by
  itself is deleted after its thread); `NullOnlyAfterPackets` (the one way to a
  NULL object); `OnlyReportsBlockTheWindow` (the one way to a deadlock);
  `EndIsShown`; `StopEnds`.
* `SerialPort`: `ImplementsByteQueue`; `EventTellsData` (a wait for a byte is
  neither missed nor woken for nothing, although the count is read outside the
  critical section and one event serves all bytes); `OnlyUnmarkedOrphans` (the
  one moment at which the block is freed under its thread); `CallsReturn` (the
  waits without time-out end, with a silent device or none).
* `TAScopeUpdate`: `TableTellsTruth`, `SuccessIsHonest`,
  `FreedOnlyUnderTheUser`, `NothingLeftOn`, `UpdateEnds`. Each names the user's
  Yes, or the refused folder, as the only way out; see below what happens then.

### What the violated runs show
* `SiblingNamesDiffer`: DataBase.h 979 promises that two tables of the same name
  cannot be inserted in one table; the loop (3954) goes through the children of
  the inserted table instead.
* `NoFreedItemRead`: `DeleteObjectRecursive` (1394) asks for the item after the
  one its body has deleted, and `CTable::GetNext` reads the ID in it (4093).
* `NoNullFollowed`: the loops that skip the records of other classes in
  `GetNext( CData * )` (4098) and `GetNextID( strID )` (4163) test the end of the
  table before they start and not at each turn: past the last record of the
  class they follow a NULL pointer. `CDS_LogTable::VerifyLogExist`
  (DataStruct.cpp 30300) walks this way.
* `FirmwareWellSent`: the loop over the packets (DlgDpSVisioHIDUpgradeRunning.cpp
  391) looks only for the error -1; a packet the device refuses or does not
  answer counts as sent.

### Defects that the properties make room for
Where the code departs from what one would like to state, the property names
the exception, so that it holds and says exactly how far the code goes.

* A new module's position is verified in the table the dialog was opened for and
  not in the one chosen under "Located in" (DlgLeftTabProject.cpp 3917-3918), and
  the dialog offers the positions of another table in edition
  (DlgCreateModule.cpp 383). Copies keep positions, holes included.
* Copies keep the user's names although "Name, Uid are reseted"
  (DataStruct.cpp 4803); the deletion and the second half of a cut remove by
  name, and may take another module, or the fresh copy.
* A drag resets the `TVIS_CUT` marks while the last operation stays Cut: pasting
  a branch into itself is allowed again, everything cut is deleted, and the
  destination is used after it is freed (DlgLeftTabProject.cpp 4665).
* A drop on a child of the dragged module is refused while the mouse moves
  (ProjTreeCtrl.cpp 263) and not checked when it is released (329). Moved there,
  `SetHMLevel` recurses without end. Connected to a circuit there, it returns, for
  the circuit becomes a module only afterwards (DataStruct.cpp 5803-5807) and
  circuits are not entered (4174-4181): the module is deleted, what was in it is a
  ring that hangs nowhere and that no command reaches, and the program goes on.
  `NothingLost` names it `ConnectedBelow`.
* A circuit can be dropped on the network (ProjTreeCtrl.cpp 341-343), where it is
  cast to a module.
* `OnFileSave` returns nothing: a cancelled Save As or a failed write still goes
  on to New, Open or Close. `OnQueryEndSession` ignores Cancel (MainFrm.cpp
  3278), and the modified flag stays cleared when the end of the session is
  called off. A stream that fails while writing is not noticed.
* Save As accepts the automatic save of the project itself (TASelectDoc.cpp
  463-485). From then on the edition last saved and the one last saved
  automatically are in one file, which the next Save truncates in place (570): a
  crash then spares neither. `CrashSparesOne` holds until then, and again from the
  next automatic save on, which takes another name.
* One class name per table for all walks on it, although DataBase.h 1005 says
  "authorize overlap loops", and `IsExist` calls `GetFirst`, although
  DataBase.h 1025 says it does not.

* `CDataList::Insert` allocates one cell more than the size because the loop of
  `Remove` reads it (DataBase.cpp 687, 753: "Size of DataArray should be
  m_ArraySize+1"); `Remove` itself allocates without it (731). Grow past 16
  records, shrink, fill to 16, remove: one cell is read past the array. The value
  read is copied past the records and is not used. `Capacity` therefore says
  `slots \in arraySize .. arraySize + 1`.
* The state `VerifyDevice` of the HID engine (519, and 903 in the DFU engine) has
  no `break` and falls into `Finished`: a wrong device ends the upgrade instead
  of being waited out, as the comment at 511 has it.
* The receiving thread signals `hStartEvent` (SerialPort.cpp 681) before it sets
  `fRunning` (682), and `PortClose` (273) waits only for a thread that has set
  it: a port closed at once is freed under its thread.
* Yes to the question of an update while it reads the backup, or in a wait
  between two files, does not end it as a failure: `BackupTASCOPEFiles` returns
  true whatever its reads return, `fSuccess` is still true, and `OnWizNext` skips
  the files, writes the new file table, reboots the handheld and shows the
  message of success (DlgPanelTAScopeUpdate.cpp 541-550, 692).
* A service sets the flag of interruption back when it starts (ServiceManager.cpp
  1243, 1381), so that a Yes between two services is forgotten by the next one.
* After that Yes the button starts a second update inside the first; when it ends
  it turns the refresh on again, and the timer of the start panel, which is not
  killed when the panel changes, can delete the file tables that the first one
  still loops over (512, DlgWizTAScope.cpp 1056).
* A backup folder that cannot be created asks "stop uploading?"; No leaves
  `m_fUploadInCourse` set with nothing running, and either answer leaves the
  refresh off.
* The close box and Yes end the dialog while the update goes on behind it; Escape
  closes the port under the service that uses it (DlgWizTAScope.cpp 1002).
* `UpdateZBsw` has no `break` after the sensor (457): its update always counts as
  done. A radio that was programmed makes a success of a file table that was not
  written (640). After an update that leaves a firmware for the next one, Finish
  stays disabled (716-719).

### Fairness
`Locate`: weak fairness of the steps of the loop, which is straight-line code
without a wait. Upgrade: weak fairness of `Window` and of `Worker` (Windows
schedules both threads and delivers every posted message and notification; a
device answers or its read times out). There is none for the user, the
devices and the timer, which need not act. `SerialPort`: weak fairness of both
threads. `TAScopeUpdate`: strong fairness of the frame on top, for each depth of
the stack: a service or a wait is ended by the clock or a time-out, but only
goes on when what its pump dispatched has returned, and there may be always
something more to dispatch. `UpdateEnds` assumes that the user answers the boxes.
The other specifications describe
what callers may do and need not do, so they state safety only.

## 5. Proofs

All theorems are `Spec => ...` for every value of the constants that satisfies
the named assumptions (`LocateAssumption`, `DataListAssumption`,
`DataBaseAssumption`, `ProjectTreeAssumption`, `DocumentAssumption`,
`DpSVisioAssumption`, `PacketCountAssumption`, `WaitUSBEventTimeoutAssumption`,
`SerialPortAssumption`, `TAScopeUpdateAssumption`); TLC evaluates those in the
passing runs. Every safety property of every passing run is proved, and so is
the type correctness of every component, which the runs leave to the proofs
(except that of `TableLoop`).

* **LocateProofs**: `LocateContract`, `LocateWindow`, `LocateTypeCorrect`, from
  one invariant: types, the list is sorted, the window, and the contract.
* **DataListProofs**: first lemmas on sorted arrays: inserting at a position and
  deleting there keep the order and change the set of IDs as expected; a
  position exists for every ID and is unique. Then the list, under `MaxAmount <=
  ShortMax`: past the largest short the cursor wraps (the count is meant to
  reach 65536, DataBase.cpp 776) and a loop reads before the array. The
  invariant `IInv` is `StorageInv` (types, `InOrder`, `Capacity`, `Slack`) and
  `LoopInv` (the ranges of `cursor` and `current`, `pending \subseteq Elements`,
  `CursorTracks`, `NothingSkipped`). No part of the loop is inductive alone:
  `CursorTracks` needs the order of the array, and `NothingSkipped` needs
  `CursorTracks` and that what is pending is still listed. One lemma per action.
  Then `DataListImplementsDataSet`: every step maps to a step of the set or to a
  stutter, again one action at a time, with `PositionExists` and the lemmas on
  the shifts. `Slack` (memory is given back) and `CursorTracks` (removing the
  record a loop is at keeps its place) are theorems of their own.
* **DataBaseProofs**: the invariant `IInv` is `TypeOK`, `Links` (list, parent
  and owners agree, and what is listed is alive), `Undone` (what the objects
  already warned in `MakeEmpty` have let go) and `UnlinkedBeforeFree`. `Undone`
  is what makes `UnlinkedBeforeFree` inductive: it is the invariant of the first
  loop of `MakeEmpty`. One lemma per action; `FreeLinks` is the common part of
  the deletions. `DeletionLeavesNoOrphan` (a deletion leaves every survivor the
  owners it had) follows from `Links` and from `BranchClosed`
  (`SurvivorsKeepOwners`).
  A second invariant in the same module gives `NoDanglingLink`, `Acyclic` and
  `NoFreedTableUsed`: `Forest` (`RuledListItems`, `Acyclic` and, while the database
  is open, `DeadIsBare`, `OneFloating`, `Rooted`), `NoStale`, `Emptied` and
  `NoFreedTableUsed`. Where one would reason by induction on the depth of a
  branch, the proof uses that a branch is the *least* set closed under "lists":
  a smaller closed set that holds its roots is the branch.
  `DataBaseImplementsObjectTree` rests on both invariants, on `Counted` (what
  `MakeEmpty` has left to free is what there is) and on `HangsUnder`: an object
  hangs under the tables that list it and under no others. What
  `DeleteObjectRecursive` takes, the least set closed under "lists", is then what
  hangs under the object, the least set closed under "parent" (`BelowInBranch`,
  `BranchIsBelow`), and the deletion is a `Prune` (`FreeTakes`); the circle that
  `Attach` excludes is excluded by `Acyclic`.
* **ProjectTreeProofs**: `IInv` is `TypeOK`, and until a failure `Tree` (`Bare`,
  `InModules`, `Levels`), `ClipTree` and `Marked`; least closed sets again take the
  place of induction. That everything hangs in the network is no invariant, for a
  connection below itself breaks it. `NothingLost` is proved step by step: every
  command but that one leaves no more `Apart` from the network than there was
  (`Kept`), and since everything is in modules, what is apart is what is
  `Detached`. Positions are followed table by table
  (`Filled`) through what the commands are made of: open, close, swap, shift and
  copy. The proof found that an earlier form of `PositionsKept` was false in
  larger instances than the run's: a copy taken while a table has a hole brings
  the hole back later, hence the exception for what the clipboard fills.
* **DocumentProofs**: `IInv` is `TypeOK`, `Flow` (what each wait was entered
  from), `Writing` (which files can be torn), `Honest`, `PipesAreInTheFile`,
  `Kept` and `GivenUp`. `Kept` is `SavedThere` and `AutoThere`, which say that the
  last saved edition and the last automatic one are in their files unless these are
  being written, and that the two files differ; it does not restrict what Save As
  writes in, for saving over the automatic save ends `auto`.
* **DpSVisioProofs**: two invariants. The first, `IInv`, follows the ways in
  which the communication object can go (`Excluded`, `Talking`, `Reporting`,
  `Deleting`, `Disconnected`, `Detaching`, `Connected`, ...), and gives
  `TalksToLiveDevice` and `NullOnlyAfterPackets`. The second, `Promises`, is
  `TypeOK`, `SuccessIsProgrammed`, `RegularEndIsClean` and `Flow`: until a fault,
  the messages of a dialog come in order (those sent before its engine runs, its
  own, its end), and from the first message of the end the engine is in states
  whose turns are short.

* **SerialPortProofs**: `IInv` is `TypeOK`, `Threads` (what each thread knows of
  the other from the events and the mark), `Buffered` (the buffer holds the bytes
  between the last one taken and the last one read, slot by slot), `Told` and
  `OnlyUnmarkedOrphans`. `Buffered` makes `Take` a step of the queue.
* **TAScopeUpdateProofs**: `IInv` is `TypeOK`, `Writes`, `Alone`, `Alive`,
  `Undone` and the first three properties. An update that the user did not stop
  is alone on the stack: `m_fUploadInCourse` keeps a second one out and the
  refresh it has switched off keeps the tables in place (`Alone`); then where its
  frame is says what was written (`Reached`). `Undone` says, for everything that
  is not as it was at rest, which frame will put it back, which gives
  `NothingLeftOn` when no frame is left. The number of files, of handlers and of
  files read back is arbitrary.

### The argument under the liveness properties
Fairness is out of the prover's reach, so the liveness properties themselves
stay with TLC. What they rest on is a statement about states and steps, and is
proved for every value of the constants: whoever is waited for has a step to
take, and every step it takes brings it nearer its end.

| property | proved under it |
|---|---|
| `Terminates` | `LocateComesNearer`: every step lowers a number; `LocateHalvesWindow`: a turn leaves half of the window |
| `CallsReturn` | `SerialPortCallCanGoOn`: no call waits for a thread that waits; `SerialPortClosingNearer`: a thread told to stop has at most six steps left, whatever the device sends |
| `EndIsShown` | `EndIsComing`: an engine that waits to be killed has its message pending, and no dialog is handed a message it has no code for |
| `StopEnds` | `StopGoesOn`: the wait for the thread times out, or the thread has a step that nothing bars; `StopComesNearer`: it has at most four |
| `OnlyReportsBlockTheWindow` | `WindowEnters`: the critical section is free, or held by a turn that can end, or by one that reports; `WorkerEntersSeldom`: the worker takes it at most twice more before the window does |
| `UpdateEnds` | `TAScopeHandlerComesNearer`: every step of the topmost handler ends it or lowers a number bounded by the files, but for an answer of Retry; `TAScopeOnlyTopMoves`: nothing else takes anything back |

For the upgrade these need a third invariant, `Flows`: while no memory has been
misused, the worker is where its own dialog has code for it, a handler waits for
the critical section only while an upgrade runs, and the end of an upgrade is on
its way to the window (`Places`, `EndOnItsWay`). For the TA-Scope update they
need that a loop is at one of its files (`TAScopeLoopsInRange`).

What is left to TLC is the last step: that a step which stays possible, and of
which only so many can be taken, is taken in the end by a fair scheduler. In
`UpdateEnds` it is also that the pump of the topmost handler, which may push
another handler, lets it go on again and again; in `OnlyReportsBlockTheWindow`
and `EndIsShown`, that the messages before the one in question are handled.

Only model-checked: the liveness properties `Terminates`,
`OnlyReportsBlockTheWindow`, `EndIsShown`, `StopEnds`, `CallsReturn` and
`UpdateEnds`, in this last step.

## 6. Not modelled

* Of `CDataBase`: reading and writing of files, `DuplicateDataBaseTO`, the
  generation of IDs (`CreateID`), `ChangeID`.
* The payload of objects: numbers and product data; names only where code
  searches by them.
* Exceptions end the operation that throws; that the caller reports the error
  and goes on is assumed.
* Project tree: selections of several items, automatic names (those that start
  with `*`) and renaming, the marks and menus of the sheet, the circuit wizard,
  the corrections of return mode and temperature.
* Document: the selection parameters of the tabs, one-byte files, the clipboard's
  own file, the repairs made on reading, the openings of the start page and of the
  import (MainFrm.cpp 3622, RViewStartPage.cpp 856), the save in the exception
  handler.
* Upgrade: the end of the firmware file, nested message boxes, the polling timer
  of the DFU page, the inside of the DFU driver and of its installer, and
  `FISNISHDLGUNPLUGPLUG`, which nothing posts.
* Serial port: writing, which is one call that waits for its end, the settings of
  the port, and a caller in a second thread (there is none).
* TA-Scope packets and services (Packet.cpp, ServiceManager.cpp): a request has
  one answer and no number, so that an answer that comes after its time-out can be
  taken for that of the next request; a block that is refused ends the loop of
  `service_F_WRITE` and the message that the file is complete follows all the same
  (1312-1336). What the device makes of either is not in this repository.
* The other TA-Scope panels, which run the same services one after the other.
* Spreadsheet messages: every sheet registers one window for a notification, so a
  buffer has one reader whenever it is read and there is no order of steps to
  explore.
* Product files and user pipes: file input and output.
* Calculations and selection: floating-point algorithms without control state.
* User interface and third-party code.
