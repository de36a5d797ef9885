------------------------------ MODULE CoreMonitor ------------------------------
(***************************************************************************)
(* The daemon's core monitor (CReporterDaemonMonitor) over the registry of *)
(* core directories (CReporterCoreRegistry, CReporterCoreDir): crash       *)
(* reports appear in the directories at any time, a file system watcher    *)
(* tells the daemon that a directory has changed, and the daemon looks for *)
(* the new report, deletes it if there have been enough like it, or has    *)
(* everything there is uploaded.                                           *)
(*                                                                         *)
(* The daemon is one thread, but the directories are not its own: where it *)
(* looks at them twice in one handler, others may act in between, and the  *)
(* handler is split there.                                                 *)
(***************************************************************************)
EXTENDS Naturals, FiniteSets

CONSTANTS
  Files,        \* crash reports; the name carries the pid, so none comes twice
  Dirs,         \* core directories, <mount point>/core-dumps
  DirOf,        \* the directory of each report
  Classes,      \* similar reports: the same binary and signal
  ClassOf,      \* the class of each report, or NoClass
  NoClass,      \* not a crash, or terminated by the user: never a duplicate
  Max,          \* autoDeleteMaxSimilarCores
  Day,          \* a day, in units of the model's clock
  MaxTime,      \* bound: the clock stops here
  AutoDelete,   \* autoDeleteDuplicates() of the privacy settings
  AutoSend,     \* automaticSendingEnabled(); if not, notifications are enabled
  Reachable,    \* network and battery always allow an upload
  Restarts,     \* the daemon may exit and start again
  Toggles,      \* monitoring may be stopped and started over D-Bus
  Removable     \* directories that may be removed and created by others

ASSUME FilesAssumption ==
  /\ IsFiniteSet(Files)
  /\ DirOf \in [Files -> Dirs] /\ Removable \subseteq Dirs
(* Max is 5 unless the settings say otherwise; the code lets the first of  *)
(* a class pass even if it is zero.                                        *)
ASSUME ClassesAssumption ==
  /\ NoClass \notin Classes
  /\ ClassOf \in [Files -> Classes \cup {NoClass}]
  /\ Max \in Nat \ {0}
ASSUME ClockAssumption == {Day, MaxTime} \subseteq Nat \ {0}
ASSUME SettingsAssumption ==
  {AutoDelete, AutoSend, Reachable, Restarts, Toggles} \subseteq BOOLEAN

VARIABLES
  place,        \* whether a directory is there, or its mount point at least
  disk,         \* the reports there are, on unmounted file systems too
  arrived,      \* the reports there have been
  known,        \* coresAtDirectory of each directory
  misread,      \* those last listed while their file system was away
  watch,        \* watcher.directories(); "dead" until the loss is noticed
  raised,       \* directories with changes the watcher has not read yet
  batch,        \* directories the watcher is signalling, one after another
  parents,      \* directories whose parent's parent parentDirWatcher watches
  parentRaised, \* a change of one of these
  daemon,       \* what the daemon is doing, see TypeOK
  paths,        \* the directories it is doing it with
  now,          \* currentDateTimeUtc(); the clock is never set back
  count,        \* handledRichCores: 0, not in the list
  lastCountReset, \* when the count of each class was started
  requested,    \* reports the auto uploader has been told of
  handled,      \* reports handled as new cores
  again,        \* those handled so more than once
  left          \* when each report was counted and not deleted; 0, never

fsVars    == <<place, disk, arrived>>
watchVars == <<watch, raised, batch, parents, parentRaised>>
listVars  == <<known, misread>>
classVars == <<count, lastCountReset, left>>
vars == <<fsVars, watchVars, listVars, classVars, daemon, paths, now, requested,
          handled, again>>

\* What can be seen in a directory; it is empty while it is not there.
Cores(d) == {f \in disk : DirOf[f] = d /\ place[d] = "there"}

\* collectAllCoreFiles()
AllCores == UNION {Cores(d) : d \in Dirs}

Monitoring == daemon \in {"idle", "updating", "readding"}

-----------------------------------------------------------------------------
(* The directories and the file system watcher                             *)

Init ==
  /\ place \in [Dirs -> {"there", "removed"}]
  /\ disk = {} /\ arrived = {}
  /\ known = [d \in Dirs |-> {}] /\ misread = {}
  /\ watch = [d \in Dirs |-> "off"] /\ raised = {} /\ batch = {}
  /\ parents = {} /\ parentRaised = FALSE
  /\ daemon = "down" /\ paths = {}
  /\ now = 1
  /\ count = [c \in Classes |-> 0] /\ lastCountReset = [c \in Classes |-> 0]
  /\ left = [f \in Files |-> 0]
  /\ requested = {} /\ handled = {} /\ again = {}

\* What the watcher has to read when d changes.
Touched(d) == IF watch[d] = "live" THEN raised \cup {d} ELSE raised

(* The core dumper has written a report.                                   *)
NewCore(f) ==
  /\ f \notin arrived /\ place[DirOf[f]] = "there"
  /\ disk' = disk \cup {f} /\ arrived' = arrived \cup {f}
  /\ raised' = Touched(DirOf[f])
  /\ UNCHANGED <<place, watch, batch, parents, parentRaised, listVars, classVars,
                 daemon, paths, now, requested, handled, again>>

(* The auto uploader or the user has removed one; while its file system is *)
(* away, whoever has mounted it.                                           *)
FileRemoved(f) ==
  /\ f \in disk
  /\ disk' = disk \ {f}
  /\ raised' = Touched(DirOf[f])
  /\ UNCHANGED <<place, arrived, watch, batch, parents, parentRaised, listVars,
                 classVars, daemon, paths, now, requested, handled, again>>

\* What is in d is lost with it, unless its file system is only away.
Lost(d, p) == IF p = "removed" THEN {f \in disk : DirOf[f] = d} ELSE {}

(* A directory goes, alone or with its mount point, and the watch on it    *)
(* with it; the watcher will only find out when it reads the event.        *)
DirectoryRemoved(d) ==
  /\ d \in Removable /\ place[d] # "unmounted"
  /\ \E p \in {"removed", "unmounted"} \ {place[d]} :
       /\ place' = [place EXCEPT ![d] = p]
       /\ disk' = disk \ Lost(d, p)
       /\ parentRaised' = (parentRaised \/ (p = "unmounted" /\ d \in parents))
  /\ raised' = Touched(d)
  /\ watch' = [watch EXCEPT ![d] = IF @ = "live" THEN "dead" ELSE @]
  /\ UNCHANGED <<arrived, batch, parents, listVars, classVars, daemon, paths, now,
                 requested, handled, again>>

(* It comes back, after an unmount with the reports that are still in it;  *)
(* or only the mount point does, for the time being.  What                 *)
(* parentDirWatcher can see is the mount point, not the directory in it.   *)
DirectoryCreated(d) ==
  /\ d \in Removable /\ place[d] # "there"
  /\ \E p \in {"there", "removed"} \ {place[d]} :
       place' = [place EXCEPT ![d] = p] /\ disk' = disk \ Lost(d, p)
  /\ parentRaised' = (parentRaised \/ (place[d] = "unmounted" /\ d \in parents))
  /\ UNCHANGED <<arrived, watch, raised, batch, parents, listVars, classVars,
                 daemon, paths, now, requested, handled, again>>

(* QFileSystemWatcher reads what there is to read in one go and signals    *)
(* each directory once; one that was deleted is no longer watched.         *)
ReadEvents ==
  /\ daemon = "idle" /\ batch = {} /\ raised # {}
  /\ batch' = raised /\ raised' = {}
  /\ watch' = [d \in Dirs |-> IF watch[d] = "dead" THEN "off" ELSE watch[d]]
  /\ UNCHANGED <<fsVars, parents, parentRaised, listVars, classVars, daemon, paths,
                 now, requested, handled, again>>

TimePasses ==
  /\ now < MaxTime /\ now' = now + 1
  /\ UNCHANGED <<fsVars, watchVars, listVars, classVars, daemon, paths, requested,
                 handled, again>>

-----------------------------------------------------------------------------
(* Duplicates                                                              *)

\* fault: the count is not reset when the day is over.
CountUpForever(c) ==
  LET n == count[c] + 1
  IN  [n |-> n, reset |-> IF n = 1 THEN now ELSE lastCountReset[c], excess |-> n > Max]

\* fault: the count is reset when a day has passed, not more than a day.
CountUpFromTheDay(c) ==
  LET anew == count[c] = 0 \/ lastCountReset[c] + Day <= now
      n    == IF anew THEN 1 ELSE count[c] + 1
  IN  [n |-> n, reset |-> IF anew THEN now ELSE lastCountReset[c], excess |-> n > Max]

(* checkForDuplicates(): the new count of a class and when it was started, *)
(* and whether that is one too many.                                       *)
CountUp(c) ==
  LET anew == count[c] = 0 \/ lastCountReset[c] + Day < now
      n    == IF anew THEN 1 ELSE count[c] + 1
  IN  [n |-> n, reset |-> IF anew THEN now ELSE lastCountReset[c], excess |-> n > Max]

-----------------------------------------------------------------------------
(* The daemon's handlers                                                   *)

\* Whether notifyAutoUploader() is called.
MaySend == IF AutoSend /\ Reachable THEN {TRUE} ELSE {AutoSend, FALSE}

\* fault: only the new core is sent.
RequestOne(list, f) == requested \cup {f}

\* The auto uploader has been told of everything there is.
Request(list, f) == requested \cup list

(* handleDirectoryChanged() for a directory with a new core: the first the *)
(* iterator comes to is handled, any others are left for the next change.  *)
HandleCore(d) ==
  /\ daemon = "idle" /\ d \in batch /\ place[d] = "there"
  /\ \E f \in Cores(d) \ known[d] :
       LET c    == ClassOf[f]
           up   == CountUp(c)
           drop == AutoDelete /\ c # NoClass /\ up.excess
       IN  /\ known' = [known EXCEPT ![d] = @ \cup {f}]
           /\ handled' = handled \cup {f} /\ again' = again \cup (handled \cap {f})
           /\ IF AutoDelete /\ c # NoClass
              THEN /\ count' = [count EXCEPT ![c] = up.n]
                   /\ lastCountReset' = [lastCountReset EXCEPT ![c] = up.reset]
                   /\ left' = IF drop THEN left ELSE [left EXCEPT ![f] = now]
              ELSE UNCHANGED classVars
           /\ IF drop
              THEN disk' = disk \ {f} /\ raised' = Touched(d) /\ UNCHANGED requested
              ELSE /\ UNCHANGED <<disk, raised>>
                   /\ \E s \in MaySend :
                        requested' = IF s THEN Request(AllCores, f) ELSE requested
  /\ batch' = batch \ {d}
  /\ UNCHANGED <<place, arrived, misread, watch, parents, parentRaised, daemon,
                 paths, now>>

(* ... without a new core: the list of known cores is to be read anew.     *)
NothingNew(d) ==
  /\ daemon = "idle" /\ d \in batch /\ place[d] = "there"
  /\ Cores(d) \subseteq known[d]
  /\ daemon' = "updating" /\ paths' = {d}
  /\ batch' = batch \ {d}
  /\ UNCHANGED <<fsVars, watch, raised, parents, parentRaised, listVars, classVars,
                 now, requested, handled, again>>

\* fault: the list starts empty.
CoreListEmptied(ds) == [d \in Dirs |-> IF d \in ds THEN {} ELSE known[d]]

\* updateCoreList() of the directories ds.
CoreList(ds) == [d \in Dirs |-> IF d \in ds THEN Cores(d) ELSE known[d]]

ReadCoreLists(ds) ==
  /\ known' = CoreList(ds)
  /\ misread' = (misread \ ds) \cup {d \in ds : place[d] = "unmounted"}

UpdateCoreList ==
  /\ daemon = "updating"
  /\ ReadCoreLists(paths)
  /\ daemon' = "idle" /\ paths' = {}
  /\ UNCHANGED <<fsVars, watchVars, classVars, now, requested, handled, again>>

(* ... of a directory that is no longer there: cd("../..") leads to the    *)
(* directory the mount point is in, which is watched from now on.          *)
DirectoryGone(d) ==
  /\ daemon = "idle" /\ d \in batch /\ place[d] # "there"
  /\ parents' = parents \cup {d}
  /\ batch' = batch \ {d}
  /\ UNCHANGED <<fsVars, watch, raised, parentRaised, listVars, classVars, daemon,
                 paths, now, requested, handled, again>>

Present == {d \in Dirs : place[d] = "there"}

\* getCoreLocationPaths() and refreshRegistry().
Refresh ==
  /\ paths' = Present
  /\ IF Present = {} THEN UNCHANGED listVars ELSE ReadCoreLists(Dirs)

\* addPaths(): only directories that exist and are not in the list.
Added == {d \in paths : place[d] = "there" /\ watch[d] = "off"}
WatchAdded == watch' = [d \in Dirs |-> IF d \in Added THEN "live" ELSE watch[d]]

(* handleParentDirectoryChanged(), up to and including refreshRegistry().  *)
ParentDirectoryChanged ==
  /\ daemon = "idle" /\ parentRaised
  /\ parentRaised' = FALSE
  /\ Refresh
  /\ daemon' = "readding"
  /\ UNCHANGED <<fsVars, watch, raised, batch, parents, classVars, now, requested,
                 handled, again>>

(* ... and the rest: once one directory is watched again, the parents are  *)
(* no longer, whichever of them they were watched for.                     *)
ReAddPaths ==
  /\ daemon = "readding"
  /\ WatchAdded
  /\ IF Added # {}
     THEN parents' = {} /\ parentRaised' = FALSE
     ELSE UNCHANGED <<parents, parentRaised>>
  /\ daemon' = "idle" /\ paths' = {}
  /\ UNCHANGED <<fsVars, raised, batch, listVars, classVars, now, requested, handled,
                 again>>

-----------------------------------------------------------------------------
(* Start and stop                                                          *)

\* createCoreDirectory() of each: where there is a mount point, there will be.
CoreDirectoriesCreated ==
  [d \in Dirs |-> IF place[d] = "removed" THEN "there" ELSE place[d]]

(* initiateDaemon() up to refreshRegistry(): the registry makes the        *)
(* directories, of which there are none but those it starts with.          *)
DaemonStarts ==
  /\ daemon = "down"
  /\ place' = CoreDirectoriesCreated
  /\ ReadCoreLists(Dirs)
  /\ paths' = {d \in Dirs : place'[d] = "there"}
  /\ daemon' = "booting"
  /\ UNCHANGED <<disk, arrived, watchVars, classVars, now, requested, handled, again>>

(* ... and the rest: the watcher is set up, and everything there is, is to *)
(* be uploaded.                                                            *)
DaemonStarted ==
  /\ daemon = "booting"
  /\ WatchAdded
  /\ \E s \in MaySend : requested' = IF s THEN requested \cup AllCores ELSE requested
  /\ daemon' = "idle" /\ paths' = {}
  /\ UNCHANGED <<fsVars, raised, batch, parents, parentRaised, listVars, classVars,
                 now, handled, again>>

\* fault: changes are still signalled to the monitor that was deleted.
DropMonitorKeepsEvents ==
  /\ watch' = [d \in Dirs |-> "off"]
  /\ raised' = {} /\ batch' = batch /\ parents' = {} /\ parentRaised' = FALSE
  /\ count' = [c \in Classes |-> 0] /\ lastCountReset' = [c \in Classes |-> 0]
  /\ paths' = {}

\* The monitor is deleted with its watchers and what it has counted.
DropMonitor ==
  /\ watch' = [d \in Dirs |-> "off"]
  /\ raised' = {} /\ batch' = {} /\ parents' = {} /\ parentRaised' = FALSE
  /\ count' = [c \in Classes |-> 0] /\ lastCountReset' = [c \in Classes |-> 0]
  /\ paths' = {}

(* The daemon is killed, or the device turned off.                         *)
DaemonExits ==
  /\ Restarts /\ daemon # "down"
  /\ DropMonitor
  /\ known' = [d \in Dirs |-> {}] /\ misread' = {}
  /\ daemon' = "down"
  /\ UNCHANGED <<fsVars, left, now, requested, handled, again>>

(* stopCoreMonitoring().  The registry stays.                              *)
StopCoreMonitoring ==
  /\ Toggles /\ daemon = "idle"
  /\ DropMonitor
  /\ daemon' = "unmonitored"
  /\ UNCHANGED <<fsVars, listVars, left, now, requested, handled, again>>

(* startCoreMonitoring() over D-Bus, up to refreshRegistry().              *)
StartCoreMonitoring ==
  /\ daemon = "unmonitored"
  /\ Refresh
  /\ daemon' = "starting"
  /\ UNCHANGED <<fsVars, watchVars, classVars, now, requested, handled, again>>

CoreMonitoringStarted ==
  /\ daemon = "starting"
  /\ WatchAdded
  /\ daemon' = "idle" /\ paths' = {}
  /\ UNCHANGED <<fsVars, raised, batch, parents, parentRaised, listVars, classVars,
                 now, requested, handled, again>>

-----------------------------------------------------------------------------

Environment ==
  \/ \E f \in Files : NewCore(f) \/ FileRemoved(f)
  \/ \E d \in Dirs : DirectoryRemoved(d) \/ DirectoryCreated(d)
  \/ TimePasses
  \/ DaemonExits
  \/ StopCoreMonitoring
  \/ StartCoreMonitoring

DaemonStep ==
  \/ ReadEvents
  \/ \E d \in Dirs : HandleCore(d) \/ NothingNew(d) \/ DirectoryGone(d)
  \/ UpdateCoreList
  \/ ParentDirectoryChanged
  \/ ReAddPaths
  \/ DaemonStarts
  \/ DaemonStarted
  \/ CoreMonitoringStarted

Next == Environment \/ DaemonStep

Spec == Init /\ [][Next]_vars

(* The daemon's event loop goes on; nothing is assumed of the environment. *)
FairSpec == Spec /\ WF_vars(DaemonStep)

-----------------------------------------------------------------------------
(* Properties                                                              *)

(* Type correctness of the directories, the watchers and the monitor.      *)
TypeOK ==
  /\ place \in [Dirs -> {"there", "removed", "unmounted"}]
  /\ disk \subseteq arrived /\ arrived \subseteq Files
  /\ \A f \in disk : place[DirOf[f]] # "removed"
  /\ known \in [Dirs -> SUBSET Files] /\ misread \subseteq Dirs
  /\ watch \in [Dirs -> {"off", "live", "dead"}]
  /\ raised \subseteq Dirs /\ batch \subseteq Dirs /\ parents \subseteq Dirs
  /\ parentRaised \in BOOLEAN
  /\ daemon \in {"down", "booting", "unmonitored", "starting", "idle",
                 "updating", "readding"}
  /\ paths \subseteq Dirs
  /\ now \in Nat \ {0} /\ count \in [Classes -> Nat]
  /\ lastCountReset \in [Classes -> 0 .. now] /\ left \in [Files -> 0 .. now]
  /\ requested \subseteq arrived /\ handled \subseteq arrived /\ again \subseteq handled
  /\ ~Monitoring => /\ raised \cup batch \cup parents = {}
                    /\ \A d \in Dirs : watch[d] = "off"

(* A report that has been handled and is still there is known while the    *)
(* daemon runs: no refresh of the list, removal or remounting of the       *)
(* directory or restart of the monitor has it handled, and counted, a      *)
(* second time.  Only a list that was read while the file system was away  *)
(* has forgotten what is on it, until it is read again.                    *)
HandledStayKnown ==
  daemon # "down" => \A d \in Dirs \ misread : handled \cap Cores(d) \subseteq known[d]

\* Reports of class c counted and not deleted from time t1 to t2.
LeftWithin(c, t1, t2) ==
  {f \in Files : ClassOf[f] = c /\ left[f] # 0 /\ t1 <= left[f] /\ left[f] <= t2}

(* checkForDuplicates() counts from the first report of a class, so the    *)
(* last of one count and the first of the next may be close together: as   *)
(* long as the daemon keeps running, less than 2 * Max reports of a class  *)
(* are left within any day, whenever the day is taken to begin.            *)
LessThanTwiceMax ==
  \A c \in Classes : \A t \in 1 .. now : Cardinality(LeftWithin(c, t, t + Day)) < 2 * Max

(* The daemon deletes a report only if Max like it have been left within   *)
(* the last day, by the clock and not only by its own counting, or one of  *)
(* them has been counted twice: nothing is lost that might be news.        *)
OnlyExcessDeleted ==
  [][\A f \in Files :
       f \in disk \ disk' /\ f \in handled' \ handled =>
         /\ ClassOf[f] # NoClass
         /\ \/ Cardinality({g \in LeftWithin(ClassOf[f], 0, now) : now <= left[g] + Day}) >= Max
            \/ \E g \in again : ClassOf[g] = ClassOf[f]]_vars

(* A report in a watched directory that the daemon has overlooked so far,  *)
(* because it came together with another, is either on its way to the      *)
(* auto uploader or will be found with a change still to be handled.       *)
NoCoreForgotten ==
  AutoSend /\ Reachable /\ daemon = "idle" =>
    \A d \in Dirs : watch[d] = "live" /\ d \notin raised \cup batch =>
      Cores(d) \subseteq known[d] \cup requested

(* creporterdaemonmonitor.cpp: "In auto-upload mode try to upload all      *)
(* crash reports each time a new one appears."                             *)
EveryCoreRequested ==
  \A f \in Files : f \in disk ~> f \in requested \/ f \notin disk

(* creporterdaemonmonitor.cpp: "Re-add core dirs when the parent dir       *)
(* changes, so that monitoring is resumed after USB mass storage mode has  *)
(* been disconnected".  The directory was watched, the daemon has noticed  *)
(* that it is gone and watches its parent's parent in its place, and now   *)
(* it is back.                                                             *)
MonitoringResumes ==
  \A d \in Dirs :
    d \in parents /\ place[d] = "there" ~>
      watch[d] = "live" \/ place[d] # "there" \/ ~Monitoring

(* crash-reporter.qml: "The others, likely duplicate, are deleted without  *)
(* being uploaded to conserve space."                                      *)
DuplicatesAreNotSent ==
  [][\A f \in Files :
       f \in disk \ disk' /\ f \in handled' \ handled => f \notin requested]_vars
=============================================================================
