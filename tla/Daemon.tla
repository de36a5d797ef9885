-------------------------------- MODULE Daemon --------------------------------
(***************************************************************************)
(* The life of the daemon: it is started by systemd again and again, at    *)
(* once or after a delay, registers on D-Bus, and has a core monitor or    *)
(* none, as the settings and its D-Bus clients ask.  The monitor shows one *)
(* crash notification and keeps its identifier in the saved state.  The    *)
(* settings page is another process with settings of its own.              *)
(***************************************************************************)
EXTENDS Naturals, FiniteSets

CONSTANTS
  MaxExits,     \* bound: ends of a daemon that runs
  MaxFailures,  \* bound: failures to register on D-Bus
  MaxId,        \* bound: notification identifiers
  MaxCount      \* bound: crashes counted

DaemonAssumption == {MaxExits, MaxFailures, MaxId, MaxCount} \subseteq Nat

Keys == {"notifications", "automaticsending"}

Prefs == INSTANCE Settings WITH Default <- [k \in Keys |-> "on"]

VARIABLES
  installed,    \* there is a settings file, or a default to copy
  file,         \* the settings file
  pidFile,      \* /tmp/crash-reporter-daemon.pid exists
  daemon,       \* where the process is
  settings,     \* its settings
  monitor,      \* it has a monitor
  page,         \* the settings of the page
  saved,        \* crashNotificationId in the saved state's file ...
  savedSeen,    \* ... and in the daemon
  replacesId,   \* of the monitor's crash notification
  crashCount,
  shown,        \* crash notifications on the screen
  closing,      \* closed notifications the daemon has not heard of
  nextId,
  exits, failures,      \* history
  lost,                 \* history: daemons gone whose notification is forgotten
  quickFailures,        \* history: failed starts since the last delay
  late,                 \* history: notifications closed late, see Closed
  choice                \* history: what was last asked for over D-Bus, and heeded

startVars == <<installed, pidFile, failures, quickFailures>>
prefVars  == <<file, settings, page, choice>>
noteVars  == <<saved, savedSeen, replacesId, crashCount, shown, closing, nextId, late, lost>>
vars == <<startVars, prefVars, noteVars, daemon, monitor, exits>>

On(s, k) == Prefs!Value(s, k) = "on"

TypeOK ==
  /\ installed \in BOOLEAN /\ pidFile \in BOOLEAN /\ monitor \in BOOLEAN
  /\ file \in Prefs!File /\ settings \in Prefs!Instance /\ page \in Prefs!Instance
  /\ daemon \in {"down", "delayed", "starting", "running", "writing"}
  /\ monitor => daemon \in {"running", "writing"}
  /\ {saved, savedSeen, replacesId} \subseteq 0..MaxId
  /\ shown \subseteq 1..MaxId /\ closing \subseteq 1..MaxId /\ nextId \in 1..MaxId + 1
  /\ crashCount \in 0..MaxCount
  /\ exits \in 0..MaxExits /\ failures \in 0..MaxFailures /\ late \in Nat /\ lost \in Nat
  /\ quickFailures \in Nat
  /\ choice \in Prefs!Switch \cup {"none"}

Init ==
  /\ installed \in BOOLEAN
  /\ \E n, a \in Prefs!Switch \cup {Prefs!Unset} :
       file = [k \in Keys |-> IF k = "notifications" THEN n ELSE a]
  /\ settings = Prefs!Opened(file) /\ page = Prefs!Opened(file)
  /\ pidFile = FALSE /\ daemon = "down" /\ monitor = FALSE
  /\ saved = 0 /\ savedSeen = 0 /\ replacesId = 0 /\ crashCount = 0
  /\ shown = {} /\ closing = {} /\ nextId = 1
  /\ exits = 0 /\ failures = 0 /\ quickFailures = 0 /\ late = 0 /\ lost = 0
  /\ choice = "none"

-----------------------------------------------------------------------------
(* Start                                                                   *)

(* main(): without a PID file the start is delayed, so that the first one  *)
(* does not get in the way of the session's; getPid() leaves one.          *)
Main ==
  /\ daemon = "down"
  /\ daemon' = IF pidFile THEN "starting" ELSE "delayed"
  /\ pidFile' = TRUE
  /\ quickFailures' = IF pidFile THEN quickFailures ELSE 0
  /\ settings' = Prefs!Opened(file)
  /\ savedSeen' = saved
  /\ UNCHANGED <<installed, failures, file, page, choice, saved, replacesId,
                 crashCount, shown, closing, nextId, late, lost, monitor, exits>>

\* The monitor's constructor: the notification of the last one is replaced.
NewMonitor(id) == monitor' = TRUE /\ replacesId' = id /\ crashCount' = 0

(* initiateDaemon() succeeds.  The automatic upload of what is there is    *)
(* part of module CoreMonitor.                                             *)
Initiated ==
  /\ installed
  /\ daemon' = "running" /\ quickFailures' = 0
  /\ IF On(settings, "notifications") \/ On(settings, "automaticsending")
     THEN NewMonitor(savedSeen)
     ELSE UNCHANGED <<monitor, replacesId, crashCount>>
  /\ UNCHANGED <<installed, pidFile, failures, prefVars, saved, savedSeen, shown, closing,
                 nextId, late, lost, exits>>

\* No settings, no session bus, or another daemon has the name.
InitiateFails ==
  /\ IF installed THEN failures < MaxFailures /\ failures' = failures + 1
                  ELSE UNCHANGED failures
  /\ daemon' = "down"
  /\ UNCHANGED <<installed, prefVars, noteVars, monitor, exits>>

\* fault: the PID file stays whenever a start fails.
StartImmediatelyKeepsPid ==
  /\ daemon = "starting"
  /\ \/ Initiated
     \/ InitiateFails /\ quickFailures' = quickFailures + 1 /\ UNCHANGED pidFile

\* A start without delay that fails removes the PID file, to delay the next.
StartImmediately ==
  /\ daemon = "starting"
  /\ \/ Initiated
     \/ InitiateFails /\ quickFailures' = quickFailures + 1 /\ pidFile' = FALSE

\* A delayed one quits, and leaves the PID file.
TimerEvent ==
  /\ daemon = "delayed"
  /\ \/ Initiated
     \/ InitiateFails /\ UNCHANGED <<pidFile, quickFailures>>

-----------------------------------------------------------------------------
(* The end                                                                 *)

\* As the process goes, with its monitor, of whose notification nothing is left
\* but what is in the file.
Gone ==
  /\ lost' = IF (IF monitor THEN replacesId ELSE savedSeen) \in {0, saved'} THEN lost ELSE lost + 1
  /\ exits < MaxExits /\ exits' = exits + 1
  /\ daemon' = "down" /\ monitor' = FALSE
  /\ replacesId' = 0 /\ crashCount' = 0 /\ closing' = {}
  /\ settings' = Prefs!Opened(file)
  /\ UNCHANGED <<installed, failures, quickFailures, shown, nextId, late>>

(* exit(0) after a signal.  The saved state is freed, and written, before  *)
(* the monitor stores its identifier in it: that reaches no file.          *)
Exit ==
  /\ daemon \in {"delayed", "running"}
  /\ saved' = savedSeen /\ UNCHANGED savedSeen
  /\ Gone
  /\ file' = Prefs!Written(file, settings)
  /\ UNCHANGED <<pidFile, page, choice>>

\* Killed at any time, or the device is turned off, which empties /tmp.
Killed ==
  /\ daemon # "down"
  /\ UNCHANGED saved /\ savedSeen' = saved
  /\ Gone
  /\ pidFile' \in {pidFile, FALSE}
  /\ UNCHANGED <<file, page, choice>>

-----------------------------------------------------------------------------
(* Core monitoring over D-Bus                                              *)

\* fault: the next monitor does not know the notification of the last.
DeleteMonitorForgets == monitor' = FALSE /\ replacesId' = 0 /\ crashCount' = 0 /\ UNCHANGED savedSeen

\* The monitor's destructor.
DeleteMonitor ==
  /\ monitor' = FALSE /\ replacesId' = 0 /\ crashCount' = 0
  /\ savedSeen' = replacesId

(* setNotificationsEnabled(), and onNotificationsSettingChanged() which    *)
(* finds the monitor as it should be.                                      *)
Choose(on) ==
  /\ settings' = Prefs!SetValue(settings, "notifications", on)
  /\ daemon' = "writing"

(* A start with a monitor, or a stop without one, is ignored and not      *)
(* written either.  It has been heeded if the daemon knows the file.       *)
Ignored(on) ==
  /\ choice' = IF settings.seen = file THEN on ELSE choice
  /\ UNCHANGED <<startVars, file, settings, page, noteVars, daemon, monitor, exits>>

RequestIgnored ==
  /\ daemon = "running"
  /\ IF monitor THEN Ignored("on") ELSE Ignored("off")

StartCoreMonitoring ==
  /\ daemon = "running" /\ ~monitor
  /\ NewMonitor(savedSeen)
  /\ Choose("on")
  /\ UNCHANGED <<startVars, file, page, choice, saved, savedSeen, shown, closing, nextId, late, lost, exits>>

StopCoreMonitoring ==
  /\ daemon = "running" /\ monitor
  /\ DeleteMonitor /\ closing' = {}
  /\ Choose("off")
  /\ UNCHANGED <<startVars, file, page, choice, saved, shown, nextId, late, lost, exits>>

\* fault: the choice is left to the event loop, and to a later write.
WriteSettingsLater ==
  /\ daemon = "writing"
  /\ choice' = settings.seen["notifications"]
  /\ daemon' = "running"
  /\ UNCHANGED <<startVars, file, settings, page, noteVars, monitor, exits>>

\* The last step of both.
WriteSettings ==
  /\ daemon = "writing"
  /\ file' = Prefs!Written(file, settings) /\ settings' = Prefs!Synced(file, settings)
  /\ choice' = settings.seen["notifications"]
  /\ daemon' = "running"
  /\ UNCHANGED <<startVars, page, noteVars, monitor, exits>>

\* The event loop writes the saved state.
SavedStateWritten ==
  /\ daemon = "running" /\ saved # savedSeen
  /\ saved' = savedSeen
  /\ UNCHANGED <<startVars, prefVars, savedSeen, replacesId, crashCount, shown, closing,
                 nextId, late, lost, daemon, monitor, exits>>

-----------------------------------------------------------------------------
(* The crash notification                                                  *)

\* handleDirectoryChanged() for a report of a crash that is kept.
CrashNotified ==
  /\ daemon = "running" /\ monitor
  /\ On(settings, "automaticsending") /\ On(settings, "notifications")
  /\ crashCount' = IF crashCount < MaxCount THEN crashCount + 1 ELSE crashCount
  /\ IF replacesId # 0
     THEN UNCHANGED <<replacesId, nextId>>
     ELSE nextId <= MaxId /\ replacesId' = nextId /\ nextId' = nextId + 1
  /\ shown' = shown \cup {replacesId'}
  /\ UNCHANGED <<startVars, prefVars, saved, savedSeen, closing, late, lost, daemon, monitor, exits>>

\* By the user; the monitor hears of it later.
Dismissed ==
  /\ \E id \in shown :
       /\ shown' = shown \ {id}
       /\ closing' = IF monitor THEN closing \cup {id} ELSE closing
  /\ UNCHANGED <<startVars, prefVars, saved, savedSeen, replacesId, crashCount, nextId, late, lost,
                 daemon, monitor, exits>>

\* fault: crashes are counted on.
ClosedCountsOn ==
  /\ daemon = "running" /\ monitor
  /\ \E id \in closing :
       /\ closing' = closing \ {id}
       /\ IF id = replacesId
          THEN replacesId' = 0 /\ late' = IF id \in shown THEN late + 1 ELSE late
          ELSE UNCHANGED <<replacesId, late>>
  /\ UNCHANGED <<startVars, prefVars, saved, savedSeen, crashCount, shown, nextId, lost, daemon,
                 monitor, exits>>

(* resetCrashCount(), if it was the monitor's, which then has none.  One   *)
(* that was published again meanwhile is left on the screen.               *)
Closed ==
  /\ daemon = "running" /\ monitor
  /\ \E id \in closing :
       /\ closing' = closing \ {id}
       /\ IF id = replacesId
          THEN /\ replacesId' = 0 /\ crashCount' = 0
               /\ late' = IF id \in shown THEN late + 1 ELSE late
          ELSE UNCHANGED <<replacesId, crashCount, late>>
  /\ UNCHANGED <<startVars, prefVars, saved, savedSeen, shown, nextId, lost, daemon, monitor, exits>>

-----------------------------------------------------------------------------
(* The settings page                                                       *)

(* The user clicks the switch for notifications; automatic sending stays   *)
(* as it is.                                                               *)
PageToggles ==
  /\ page' = Prefs!SetValue(page, "notifications",
                            IF On(page, "notifications") THEN "off" ELSE "on")
  /\ UNCHANGED <<startVars, file, settings, choice, noteVars, daemon, monitor, exits>>

PageWrites ==
  /\ page.changed # {}
  /\ file' = Prefs!Written(file, page) /\ page' = Prefs!Synced(file, page)
  /\ choice' = "none"
  /\ UNCHANGED <<startVars, settings, noteVars, daemon, monitor, exits>>

\* Closed or killed, and opened again.
PageOpens ==
  /\ page' = Prefs!Opened(file)
  /\ UNCHANGED <<startVars, file, settings, choice, noteVars, daemon, monitor, exits>>

-----------------------------------------------------------------------------

Start == Main \/ StartImmediately \/ TimerEvent

Next ==
  \/ Start
  \/ Exit \/ Killed
  \/ StartCoreMonitoring \/ StopCoreMonitoring \/ RequestIgnored
  \/ WriteSettings \/ SavedStateWritten
  \/ CrashNotified \/ Dismissed \/ Closed
  \/ PageToggles \/ PageWrites \/ PageOpens

Spec == Init /\ [][Next]_vars

-----------------------------------------------------------------------------
(* Properties                                                              *)

(* main.cpp: "Remove PID file (to delay next startup)".  However the       *)
(* starts go, with kills and reboots in between, no more than one fails    *)
(* between a delay and the next: systemd does not restart the daemon in a  *)
(* tight loop (getPid, main, timerEvent).                                  *)
NoBusyRestart == quickFailures <= 1

(* What a D-Bus client has asked for last decides whether the next daemon  *)
(* monitors, or automatic sending does, unless the page has written its    *)
(* settings since.  That goes for a request the daemon ignores as well,    *)
(* but for one that comes when the page has written and the daemon has not *)
(* read it: such a request is lost (startCoreMonitoring,                   *)
(* stopCoreMonitoring, initiateDaemon).                                    *)
HonoursChoice ==
  Start /\ daemon' = "running" /\ choice # "none"
    => (monitor' <=> (choice = "on" \/ On(settings, "automaticsending")))

(* There is one crash notification, however often it is dismissed and      *)
(* monitoring is turned off and on; and one more for each daemon that      *)
(* could not save its identifier, and for each that was closed late        *)
(* (CReporterDaemonMonitorPrivate).                                        *)
OneCrashNotification == Cardinality(shown) <= 1 + lost + late

(* The count of crashes begins anew once the user has dismissed the        *)
(* notification that shows it (resetCrashCount).                           *)
CountsWhatIsShown == crashCount > 0 => replacesId \in shown \cup closing
=============================================================================
