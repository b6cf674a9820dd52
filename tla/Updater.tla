------------------------------ MODULE Updater ------------------------------
(***************************************************************************)
(* The update from Git (model/updater/git_updater.go), asked for in the    *)
(* console (webui/system_update.go) and applied by scripts/apply-update.sh.*)
(* One operation at a time fetches origin, fast-forwards the work tree and *)
(* runs the script, which builds the executable and the front end, puts    *)
(* each in place of the old one, and goes back when a step fails.  The     *)
(* process runs what it was started from until it is started again.        *)
(*                                                                         *)
(* Commits of origin are numbered; 0 is no commit and no file.  The macOS  *)
(* bundle and the plain executable are replaced alike.                     *)
(***************************************************************************)
EXTENDS Integers

CONSTANTS
    MaxCommit,     \* bound: commits of origin
    MaxKills       \* bound: times an update is killed

ASSUME UpdaterConstants == MaxCommit \in Nat \ {0} /\ MaxKills \in Nat

VARIABLES
    remote,      \* the commit of the branch at origin
    tracked,     \* refs/remotes/origin/<branch>
    head,        \* HEAD of the work tree
    tree,        \* the work tree: "clean", or why it cannot be updated
    op,          \* where the operation is that holds operationMu
    target,      \* targetCommit of the operation
    exe, front,  \* the executable and the front end: installed, and the backup
    running,     \* runningCommit; 0 when the process is down
    restartRequired,
    kills,
    hurt         \* history: a killed swap or a failed way back was not made good

repository == <<remote, tracked, head, tree>>
files == <<exe, front>>
process == <<running, restartRequired>>
updaterVars == <<repository, op, target, files, process, kills, hurt>>

Commits == 0 .. MaxCommit
Copies == [installed : Commits, backup : Commits]
Swapping == {"keepExe", "placeExe", "keepFront", "placeFront", "undoFront", "undoExe",
             "record"}

UpdaterInit ==
    /\ remote = 1 /\ tracked = 1 /\ head = 1 /\ tree = "clean"
    /\ op = "idle" /\ target = 0
    /\ exe = [installed |-> 1, backup |-> 0]
    /\ front = [installed |-> 1, backup |-> 0]
    /\ running = 1 /\ restartRequired = FALSE
    /\ kills = 0 /\ hurt = FALSE

-----------------------------------------------------------------------------
\* Around the updater

Push ==
    /\ remote < MaxCommit /\ remote' = remote + 1
    /\ UNCHANGED <<tracked, head, tree, op, target, files, process, kills, hurt>>

\* Someone works in the work tree, on another branch, or tidies up.
Operator ==
    /\ tree' \in {"clean", "dirty", "diverged", "detached"} \ {tree}
    /\ UNCHANGED <<remote, tracked, head, op, target, files, process, kills, hurt>>

\* The process is started again from what is installed; its operation is over.
RestartProcess ==
    /\ op = "idle" /\ exe.installed # 0
    /\ running' = exe.installed /\ restartRequired' = FALSE
    /\ UNCHANGED <<repository, op, target, files, kills, hurt>>

\* systemUpdateTimeout ends the script, a signal the process as well.
Kill ==
    /\ op # "idle" /\ kills < MaxKills
    /\ op' = "idle" /\ kills' = kills + 1
    /\ hurt' = (hurt \/ op \in Swapping)
    /\ UNCHANGED process \/ (running' = 0 /\ restartRequired' = FALSE)
    /\ UNCHANGED <<repository, target, files>>

-----------------------------------------------------------------------------
\* The operation

OpGoes(there) == op' = there
Refused == OpGoes("idle")

\* recordUpdate: what was required stays required.
RecordUpdate(required) == restartRequired' = (restartRequired \/ required)

\* runApply returned an error
ApplyFails == op' = "idle" /\ RecordUpdate(FALSE)
UpdateGoes(there) == OpGoes(there) /\ UNCHANGED restartRequired

\* Check: fetch, and nothing else
CheckOrigin ==
    /\ running # 0 /\ op = "idle" /\ tree # "detached"
    /\ tracked' = remote
    /\ UNCHANGED <<remote, head, tree, op, target, files, process, kills, hurt>>

\* Update up to the fetch; another operation is refused by TryLock.
BeginUpdate ==
    /\ running # 0 /\ op = "idle" /\ tree \notin {"dirty", "detached"}
    /\ OpGoes("fetch")
    /\ UNCHANGED <<repository, target, files, process, kills, hurt>>

Fetch ==
    /\ op = "fetch"
    /\ \/ tracked' = remote /\ target' = remote /\ OpGoes("merge")
       \/ tracked' \in {tracked, remote} /\ Refused /\ UNCHANGED target
    /\ UNCHANGED <<remote, head, tree, files, process, kills, hurt>>

\* A tree that has diverged is refused, whether before or by --ff-only; one
\* that is dirty may stand in the way.
Merge ==
    /\ op = "merge"
    /\ \/ tree # "diverged" /\ head' = target /\ OpGoes("build")
       \/ Refused /\ UNCHANGED head
    /\ UNCHANGED <<remote, tracked, tree, target, files, process, kills, hurt>>

\* npm, vite and go write beside what is installed; a failure leaves no trace.
Build ==
    /\ op = "build"
    /\ UpdateGoes("keepExe") \/ ApplyFails
    /\ UNCHANGED <<repository, target, files, running, kills, hurt>>

\* rm backup; mv installed backup: either may fail.
Kept(copy) == [installed |-> 0, backup |-> copy.installed]
KeepFails(copy) == {copy, [copy EXCEPT !.backup = 0]}

\* The way back: mv backup installed, if there is a backup.
Restored(copy) ==
    IF copy.backup = 0 THEN [copy EXCEPT !.installed = 0]
    ELSE [installed |-> copy.backup, backup |-> 0]
Lost(copy) == [copy EXCEPT !.installed = 0]

KeepExe ==
    /\ op = "keepExe"
    /\ \/ exe' = Kept(exe) /\ UpdateGoes("placeExe")
       \/ exe' \in KeepFails(exe) /\ ApplyFails
    /\ UNCHANGED <<repository, target, front, running, kills, hurt>>

\* mv staged executable; failing that the backup is moved back, if it can be.
PlaceExe ==
    /\ op = "placeExe"
    /\ \/ exe' = [exe EXCEPT !.installed = target] /\ UpdateGoes("keepFront") /\ UNCHANGED hurt
       \/ exe' = Restored(exe) /\ ApplyFails /\ UNCHANGED hurt
       \/ exe' = Lost(exe) /\ ApplyFails /\ hurt' = TRUE
    /\ UNCHANGED <<repository, target, front, running, kills>>

\* Variant with a defect: without the ERR trap the executable stays swapped.
KeepFrontUntrapped ==
    /\ op = "keepFront"
    /\ \/ front' = Kept(front) /\ UpdateGoes("placeFront")
       \/ front' \in KeepFails(front) /\ ApplyFails
    /\ UNCHANGED <<repository, target, exe, running, kills, hurt>>

\* The ERR trap: the front end was not swapped, the executable was.
KeepFront ==
    /\ op = "keepFront"
    /\ \/ front' = Kept(front) /\ UpdateGoes("placeFront")
       \/ front' \in KeepFails(front) /\ UpdateGoes("undoExe")
    /\ UNCHANGED <<repository, target, exe, running, kills, hurt>>

PlaceFront ==
    /\ op = "placeFront"
    /\ \/ front' = [front EXCEPT !.installed = target] /\ UpdateGoes("record")
       \/ UpdateGoes("undoFront") /\ UNCHANGED front
    /\ UNCHANGED <<repository, target, exe, running, kills, hurt>>

\* rollback, which goes on whatever fails in it
UndoFront ==
    /\ op = "undoFront"
    /\ UpdateGoes("undoExe")
    /\ \/ front' = Restored(front) /\ UNCHANGED hurt
       \/ front' = Lost(front) /\ hurt' = TRUE
    /\ UNCHANGED <<repository, target, exe, running, kills>>

UndoExe ==
    /\ op = "undoExe"
    /\ ApplyFails
    /\ \/ exe' = Restored(exe) /\ UNCHANGED hurt
       \/ exe' = Lost(exe) /\ hurt' = TRUE
    /\ UNCHANGED <<repository, target, front, running, kills>>

Record ==
    /\ op = "record"
    /\ RecordUpdate(TRUE)
    /\ op' = "idle" /\ hurt' = FALSE
    /\ UNCHANGED <<repository, target, files, running, kills>>

UpdaterNext ==
    \/ Push \/ Operator \/ RestartProcess \/ Kill
    \/ CheckOrigin \/ BeginUpdate \/ Fetch \/ Merge \/ Build
    \/ KeepExe \/ PlaceExe \/ KeepFront \/ PlaceFront \/ UndoFront \/ UndoExe \/ Record

UpdaterSpec == UpdaterInit /\ [][UpdaterNext]_updaterVars

-----------------------------------------------------------------------------
UpdaterTypeOK ==
    /\ remote \in Commits /\ tracked \in Commits /\ head \in Commits
    /\ tree \in {"clean", "dirty", "diverged", "detached"}
    /\ op \in {"idle", "fetch", "merge", "build"} \cup Swapping
    /\ target \in Commits /\ exe \in Copies /\ front \in Copies
    /\ running \in Commits /\ restartRequired \in BOOLEAN
    /\ kills \in 0 .. MaxKills /\ hurt \in BOOLEAN

\* Whichever step of an update fails, the executable and the front end are
\* there and of one version, unless the way back failed or it was killed; the
\* next update that goes through makes even that good (apply-update.sh).
AllOrNothing ==
    op = "idle" /\ ~hurt =>
       exe.installed # 0 /\ front.installed = exe.installed

\* A process that is not what is installed says that it must be restarted,
\* also after a later update has failed.
RestartTold ==
    op = "idle" /\ ~hurt /\ running \notin {0, exe.installed} => restartRequired

\* An update is whole or undone, and a process that it left behind says so.
UpdateSafe == UpdaterTypeOK /\ AllOrNothing /\ RestartTold
=============================================================================
