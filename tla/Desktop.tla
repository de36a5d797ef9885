-------------------------------- MODULE Desktop --------------------------------
(***************************************************************************)
(* What the user sees of the crash reporter besides its uploads: the list  *)
(* of reports with the warning that there are too many (Reports), and the  *)
(* daemon with its notification and its setting on the page (Daemon).      *)
(*                                                                         *)
(* The two share no state, so it is enough to look at each with the other  *)
(* at rest.  turn is the part that runs.                                   *)
(***************************************************************************)
EXTENDS Reports

CONSTANTS MaxExits, MaxFailures, MaxCrashId, MaxCount

VARIABLES
  turn,
  installed, prefs, pidFile, daemon, settings, monitor, page, saved, savedSeen,
  replacesId, crashCount, crashShown, closing, crashNextId, exits, failures,
  crashLost, quickFailures, late, choice

daemonVars == <<installed, prefs, pidFile, daemon, settings, monitor, page, saved,
                savedSeen, replacesId, crashCount, crashShown, closing, crashNextId,
                exits, failures, crashLost, quickFailures, late, choice>>
desktopVars == <<turn, allVars, daemonVars>>

CrashDaemon == INSTANCE Daemon WITH
  MaxId <- MaxCrashId, file <- prefs,
  shown <- crashShown, nextId <- crashNextId, lost <- crashLost

ASSUME DaemonAssumption == CrashDaemon!DaemonAssumption
ASSUME StorageAssumption == Storage!StorageMonAssumption

(* Type correctness of the two parts.                                      *)
DesktopTypeOK ==
  /\ turn \in {"reports", "daemon"}
  /\ ReportsTypeOK
  /\ CrashDaemon!TypeOK

\* The daemon at rest is in any one of its initial states.
DesktopInit ==
  /\ turn \in {"reports", "daemon"}
  /\ ReportsInit /\ CrashDaemon!Init
  /\ turn # "daemon" => installed /\ \A k \in DOMAIN prefs : prefs[k] = "on"

ReportsDo(A) == turn = "reports" /\ A /\ UNCHANGED <<turn, daemonVars>>
DaemonDoes(A) == turn = "daemon" /\ A /\ UNCHANGED <<turn, allVars>>

DesktopNext == ReportsDo(ReportsNext) \/ DaemonDoes(CrashDaemon!Next)

(* Each step of the page and of the storage monitor is taken in the end:   *)
(* their event loops run on, and the timer starts the monitor again.       *)
DesktopFairness ==
  /\ WF_desktopVars(ReportsDo(PageRuns /\ UNCHANGED storageVars))
  /\ WF_desktopVars(ReportsDo(Storage!Process /\ UNCHANGED vars))

DesktopSpec == DesktopInit /\ [][DesktopNext]_desktopVars /\ DesktopFairness

-----------------------------------------------------------------------------
(* Properties of the daemon; see Reports for the others                    *)

(* systemd does not restart the daemon in a tight loop (main, timerEvent). *)
NoBusyRestart == CrashDaemon!NoBusyRestart

(* What a D-Bus client has asked for last, heeded or ignored, decides      *)
(* whether the next daemon monitors, but for a request ignored by a daemon *)
(* that has not read what the page has written (startCoreMonitoring,       *)
(* stopCoreMonitoring).                                                    *)
DBusChoiceSurvives == [][CrashDaemon!HonoursChoice]_daemonVars

(* There is one crash notification, but for daemons that could not save    *)
(* its identifier (CReporterDaemonMonitorPrivate).                         *)
OneCrashNotification == CrashDaemon!OneCrashNotification

(* The count of crashes begins anew once its notification was dismissed    *)
(* (resetCrashCount).                                                      *)
CountsWhatIsShown == CrashDaemon!CountsWhatIsShown
=============================================================================
