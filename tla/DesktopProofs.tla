----------------------------- MODULE DesktopProofs -----------------------------
(***************************************************************************)
(* Proofs about what the user sees besides the uploads: for any number of  *)
(* reports, kills, failures and notifications, whatever the other part     *)
(* does meanwhile.                                                         *)
(***************************************************************************)
EXTENDS Desktop, FiniteSetTheorems, WellFoundedInduction, TLAPS

(* Identifiers but the one that will be used again.                        *)
LEMMA OthersShown ==
  ASSUME NEW n \in Nat, NEW ids \in SUBSET (1..n), NEW id
  PROVE  /\ IsFiniteSet(ids) /\ Cardinality(ids) \in Nat
         /\ Cardinality(ids \ {id}) \in Nat
         /\ Cardinality(ids) <= Cardinality(ids \ {id}) + 1
         /\ id \notin ids => Cardinality(ids) = Cardinality(ids \ {id})
         /\ \A less \in SUBSET ids : Cardinality(less \ {id}) <= Cardinality(ids \ {id})
<1>1. IsFiniteSet(1..n)
  BY FS_Interval
<1>2. IsFiniteSet(ids)
  BY <1>1, FS_Subset
<1>3. /\ IsFiniteSet(ids \ {id})
      /\ Cardinality(ids) \in Nat /\ Cardinality(ids \ {id}) \in Nat
      /\ Cardinality(ids \ {id}) = IF id \in ids THEN Cardinality(ids) - 1 ELSE Cardinality(ids)
  BY <1>2, FS_RemoveElement, FS_CardinalityType, FS_Subset
<1>4. ASSUME NEW less \in SUBSET ids
      PROVE  Cardinality(less \ {id}) <= Cardinality(ids \ {id})
  <2>1. less \ {id} \subseteq ids \ {id}
    OBVIOUS
  <2> QED BY <1>3, <2>1, FS_Subset
<1>5. /\ Cardinality(ids) <= Cardinality(ids \ {id}) + 1
      /\ id \notin ids => Cardinality(ids) = Cardinality(ids \ {id})
  BY <1>3
<1> QED BY <1>2, <1>3, <1>4, <1>5

-----------------------------------------------------------------------------
(* The daemon                                                              *)

\* A switch that is on, or not in the file.
IsOn(value) == value \in {"on", CrashDaemon!Prefs!Unset}

LEMMA OnIs ==
  ASSUME NEW k \in CrashDaemon!Keys, NEW s
  PROVE  CrashDaemon!On(s, k) <=> IsOn(s.seen[k])
<1>1. CrashDaemon!Prefs!Value(s, k) =
        IF s.seen[k] = CrashDaemon!Prefs!Unset THEN "on" ELSE s.seen[k]
  BY DEF CrashDaemon!Prefs!Value
<1> QED BY <1>1 DEF CrashDaemon!On, IsOn, CrashDaemon!Prefs!Unset

(* Type correctness, by what the steps change together.                    *)
StartTypes ==
  /\ installed \in BOOLEAN /\ pidFile \in BOOLEAN /\ monitor \in BOOLEAN
  /\ daemon \in {"down", "delayed", "starting", "running", "writing"}
  /\ monitor => daemon \in {"running", "writing"}
PrefTypes ==
  /\ prefs \in CrashDaemon!Prefs!File
  /\ settings \in CrashDaemon!Prefs!Instance /\ page \in CrashDaemon!Prefs!Instance
  /\ choice \in {"on", "off", "none"}
NoteTypes ==
  /\ saved \in 0..MaxCrashId /\ savedSeen \in 0..MaxCrashId /\ replacesId \in 0..MaxCrashId
  /\ crashShown \subseteq 1..MaxCrashId /\ closing \subseteq 1..MaxCrashId
  /\ crashNextId \in 1..(MaxCrashId + 1)
  /\ crashCount \in 0..MaxCount
HistoryTypes ==
  /\ exits \in 0..MaxExits /\ failures \in 0..MaxFailures
  /\ late \in Nat /\ crashLost \in Nat /\ quickFailures \in Nat

(* Before it runs the daemon has no monitor, and knows of its notification *)
(* what the file says.  What it has set it writes before anything else.    *)
PhaseInv ==
  /\ daemon \in {"down", "delayed", "starting"} => ~monitor /\ saved = savedSeen
  /\ daemon # "writing" => settings.changed = {}
  /\ daemon = "writing" =>
       "notifications" \in settings.changed /\ settings.seen["notifications"] \in {"on", "off"}

(* Why a start that fails is not repeated at once: the daemon starts       *)
(* without a delay only with the PID file, and the failure removed it.     *)
StartInv ==
  /\ quickFailures \in {0, 1}
  /\ pidFile \/ daemon = "starting" => quickFailures = 0

(* Why the count is that of a notification: without a monitor there is     *)
(* none, and a close that is still to be heard of resets it.               *)
CountInv ==
  /\ ~monitor => crashCount = 0
  /\ crashCount > 0 => replacesId \in crashShown \cup closing

\* The notification that will be replaced, 0 if there is none.
Current == IF monitor THEN replacesId ELSE savedSeen

(* Why there is one notification: of all others on the screen the daemon   *)
(* could not save the identifier, or they were closed late.                *)
NoteInv == Cardinality(crashShown \ {Current}) <= crashLost + late

(* Why a request that is ignored was for what the settings say already: a  *)
(* daemon monitors as the settings it has read or set itself ask it to.    *)
MonitorInv ==
  /\ daemon = "writing" => (monitor <=> IsOn(settings.seen["notifications"]))
  /\ daemon = "running" /\ monitor => IsOn(settings.seen["notifications"]) \/ IsOn(settings.seen["automaticsending"])
  /\ daemon = "running" /\ ~monitor => ~IsOn(settings.seen["notifications"])

(* What was last asked for and heeded is in the file, which a daemon that  *)
(* starts has read.                                                        *)
ChoiceInv ==
  choice # "none" =>
    /\ choice = "on" => IsOn(prefs["notifications"]) \/ IsOn(prefs["automaticsending"])
    /\ choice = "off" => ~IsOn(prefs["notifications"])
    /\ daemon \in {"delayed", "starting"} => settings.seen = prefs

DaemonInv ==
  /\ StartTypes /\ PrefTypes /\ NoteTypes /\ HistoryTypes
  /\ PhaseInv /\ StartInv /\ CountInv /\ NoteInv /\ MonitorInv /\ ChoiceInv

LEMMA DaemonBounds ==
  MaxExits \in Nat /\ MaxFailures \in Nat /\ MaxCrashId \in Nat /\ MaxCount \in Nat
BY DaemonAssumption DEF CrashDaemon!DaemonAssumption

LEMMA DaemonInit == ASSUME CrashDaemon!Init PROVE DaemonInv
<1>1. /\ installed \in BOOLEAN /\ pidFile = FALSE /\ daemon = "down" /\ monitor = FALSE
      /\ settings = CrashDaemon!Prefs!Opened(prefs) /\ page = CrashDaemon!Prefs!Opened(prefs)
      /\ saved = 0 /\ savedSeen = 0 /\ replacesId = 0 /\ crashCount = 0
      /\ crashShown = {} /\ closing = {} /\ crashNextId = 1
      /\ exits = 0 /\ failures = 0 /\ quickFailures = 0 /\ late = 0 /\ crashLost = 0
      /\ choice = "none"
  BY DEF CrashDaemon!Init
<1>2. prefs \in CrashDaemon!Prefs!File
  BY DEF CrashDaemon!Init, CrashDaemon!Prefs!File
<1>3. StartTypes
  BY <1>1 DEF StartTypes
<1>4. StartInv /\ CountInv
  <2>1. StartInv
    BY <1>1 DEF StartInv
  <2>2. ~(crashCount > 0)
    BY <1>1, SMT
  <2> QED BY <1>1, <2>1, <2>2 DEF CountInv
<1>5. PrefTypes /\ ChoiceInv /\ MonitorInv /\ PhaseInv
  BY <1>1, <1>2 DEF PrefTypes, ChoiceInv, MonitorInv, PhaseInv, CrashDaemon!Prefs!Opened, CrashDaemon!Prefs!Instance
<1>6. NoteTypes /\ HistoryTypes
  BY <1>1, DaemonBounds DEF NoteTypes, HistoryTypes
<1>7. NoteInv
  BY <1>1, FS_EmptySet DEF NoteInv
<1> QED BY <1>3, <1>4, <1>5, <1>6, <1>7 DEF DaemonInv

LEMMA MainStep ==
  ASSUME DaemonInv, CrashDaemon!Main
  PROVE  DaemonInv'
<1> USE DEF CrashDaemon!Main
<1>1. /\ StartTypes /\ PrefTypes /\ NoteTypes /\ HistoryTypes
      /\ PhaseInv /\ StartInv /\ CountInv /\ NoteInv /\ MonitorInv /\ ChoiceInv
  BY DEF DaemonInv
<1>2. /\ settings' \in CrashDaemon!Prefs!Instance
      /\ settings'.seen = prefs /\ settings'.changed = {}
  BY <1>1 DEF PrefTypes, CrashDaemon!Prefs!Opened, CrashDaemon!Prefs!Instance
<1>3. StartTypes'
  BY <1>1 DEF StartTypes, PhaseInv
<1>4. PrefTypes'
  BY <1>1, <1>2 DEF PrefTypes
<1>5. NoteTypes' /\ HistoryTypes'
  BY <1>1 DEF NoteTypes, HistoryTypes
<1>6. PhaseInv'
  BY <1>1, <1>2 DEF PhaseInv
<1>7. StartInv'
  BY <1>1 DEF StartInv
<1>8. CountInv'
  BY <1>1 DEF CountInv, PhaseInv
<1>9. NoteInv'
  BY <1>1 DEF NoteInv, PhaseInv, Current
<1>10. ChoiceInv' /\ MonitorInv'
  BY <1>1, <1>2 DEF ChoiceInv, MonitorInv
<1> QED BY <1>3, <1>4, <1>5, <1>6, <1>7, <1>8, <1>9, <1>10 DEF DaemonInv

LEMMA InitiatedStep ==
  ASSUME DaemonInv, CrashDaemon!Initiated, daemon \in {"delayed", "starting"}
  PROVE  DaemonInv'
<1> USE DEF CrashDaemon!Initiated, CrashDaemon!NewMonitor, CrashDaemon!prefVars
<1>1. /\ StartTypes /\ PrefTypes /\ NoteTypes /\ HistoryTypes
      /\ PhaseInv /\ StartInv /\ CountInv /\ NoteInv /\ MonitorInv /\ ChoiceInv
  BY DEF DaemonInv
<1>2. crashCount' = 0 /\ 0 \in 0..MaxCount
  BY <1>1, DaemonBounds DEF PhaseInv, CountInv
<1>3. /\ monitor' \in BOOLEAN /\ ~monitor
      /\ monitor' => replacesId' = savedSeen
      /\ replacesId' = savedSeen \/ replacesId' = replacesId
  BY <1>1 DEF PhaseInv, StartTypes
<1>4. StartTypes'
  BY <1>1, <1>3 DEF StartTypes
<1>5. PrefTypes'
  BY <1>1 DEF PrefTypes
<1>6. NoteTypes'
  BY <1>1, <1>2, <1>3 DEF NoteTypes
<1>7. HistoryTypes' /\ PhaseInv' /\ StartInv'
  BY <1>1 DEF HistoryTypes, PhaseInv, StartInv
<1>8. CountInv'
  BY <1>2 DEF CountInv
<1>9. NoteInv'
  BY <1>1, <1>3 DEF NoteInv, Current
<1>10. /\ CrashDaemon!On(settings, "notifications") <=> IsOn(settings.seen["notifications"])
       /\ CrashDaemon!On(settings, "automaticsending") <=> IsOn(settings.seen["automaticsending"])
  BY OnIs DEF CrashDaemon!Keys
<1>11. ChoiceInv' /\ MonitorInv'
  BY <1>1, <1>3, <1>10 DEF ChoiceInv, MonitorInv
<1> QED BY <1>4, <1>5, <1>6, <1>7, <1>8, <1>9, <1>11 DEF DaemonInv

LEMMA InitiateFailsStep ==
  ASSUME DaemonInv, CrashDaemon!InitiateFails, daemon \in {"delayed", "starting"},
         \/ daemon = "starting" /\ quickFailures' = quickFailures + 1 /\ pidFile' = FALSE
         \/ UNCHANGED <<pidFile, quickFailures>>
  PROVE  DaemonInv'
<1> USE DEF CrashDaemon!InitiateFails, CrashDaemon!prefVars, CrashDaemon!noteVars
<1>1. /\ StartTypes /\ PrefTypes /\ NoteTypes /\ HistoryTypes
      /\ PhaseInv /\ StartInv /\ CountInv /\ NoteInv /\ MonitorInv /\ ChoiceInv
  BY DEF DaemonInv
<1>2. failures' \in 0..MaxFailures
  BY <1>1, DaemonBounds DEF HistoryTypes
<1>3. StartTypes'
  BY <1>1 DEF StartTypes, PhaseInv
<1>4. PrefTypes' /\ NoteTypes'
  BY <1>1 DEF PrefTypes, NoteTypes
<1>5. HistoryTypes'
  BY <1>1, <1>2 DEF HistoryTypes
<1>6. PhaseInv' /\ StartInv' /\ CountInv'
  BY <1>1 DEF PhaseInv, StartInv, CountInv
<1>7. NoteInv'
  BY <1>1 DEF NoteInv, Current
<1>8. ChoiceInv' /\ MonitorInv'
  BY <1>1 DEF ChoiceInv, MonitorInv
<1> QED BY <1>3, <1>4, <1>5, <1>6, <1>7, <1>8 DEF DaemonInv

LEMMA StartStep == ASSUME DaemonInv, CrashDaemon!Start PROVE DaemonInv'
BY MainStep, InitiatedStep, InitiateFailsStep
DEF CrashDaemon!Start, CrashDaemon!StartImmediately, CrashDaemon!TimerEvent

(* The identifier a daemon takes with it is saved, or there was none, or   *)
(* its notification is lost.                                               *)
LEMMA GoneStep ==
  ASSUME DaemonInv, CrashDaemon!Gone, savedSeen' = saved',
         saved' = saved \/ saved' = savedSeen,
         UNCHANGED <<prefs, page, choice>>,
         pidFile' = pidFile \/ pidFile' = FALSE
  PROVE  DaemonInv'
<1> USE DEF CrashDaemon!Gone
<1>1. /\ StartTypes /\ PrefTypes /\ NoteTypes /\ HistoryTypes
      /\ PhaseInv /\ StartInv /\ CountInv /\ NoteInv /\ MonitorInv /\ ChoiceInv
  BY DEF DaemonInv
<1>2. settings' \in CrashDaemon!Prefs!Instance /\ settings'.changed = {}
  BY <1>1 DEF PrefTypes, CrashDaemon!Prefs!Opened, CrashDaemon!Prefs!Instance
<1>3. /\ exits' \in 0..MaxExits
      /\ crashLost' \in Nat
      /\ crashLost' = IF Current \in {0, saved'} THEN crashLost ELSE crashLost + 1
  BY <1>1, DaemonBounds DEF HistoryTypes, Current
<1>4. StartTypes'
  BY <1>1 DEF StartTypes
<1>5. PrefTypes'
  BY <1>1, <1>2 DEF PrefTypes
<1>6. NoteTypes'
  BY <1>1, DaemonBounds DEF NoteTypes
<1>7. HistoryTypes'
  BY <1>1, <1>3 DEF HistoryTypes
<1>8. PhaseInv'
  BY <1>1, <1>2 DEF PhaseInv
<1>9. StartInv' /\ CountInv'
  BY <1>1 DEF StartInv, CountInv
<1>10. NoteInv'
  <2>1. crashShown \in SUBSET (1..MaxCrashId) /\ MaxCrashId \in Nat /\ late \in Nat /\ crashLost \in Nat
    BY <1>1, DaemonBounds DEF NoteTypes, HistoryTypes
  <2>2. Current' = saved' /\ crashShown' = crashShown /\ late' = late
    BY DEF Current
  <2>3. Cardinality(crashShown \ {Current}) <= crashLost + late
    BY <1>1 DEF NoteInv
  <2>4. CASE Current = saved'
    BY <1>3, <2>2, <2>3, <2>4 DEF NoteInv
  <2>5. /\ Cardinality(crashShown) \in Nat
        /\ Cardinality(crashShown \ {saved'}) \in Nat /\ Cardinality(crashShown \ {Current}) \in Nat
        /\ Cardinality(crashShown \ {saved'}) <= Cardinality(crashShown)
        /\ Cardinality(crashShown) <= Cardinality(crashShown \ {Current}) + 1
        /\ Current \notin crashShown => Cardinality(crashShown) = Cardinality(crashShown \ {Current})
    BY <2>1, OthersShown, FS_Subset
  <2>6. CASE Current = 0
    <3>1. crashLost' = crashLost /\ Current \notin crashShown
      BY <1>3, <2>1, <2>6
    <3>2. Cardinality(crashShown \ {saved'}) <= crashLost + late
      BY <2>1, <2>3, <2>5, <3>1
    <3> QED BY <2>2, <3>1, <3>2 DEF NoteInv
  <2>7. CASE Current \notin {0, saved'}
    <3>1. crashLost' = crashLost + 1
      BY <1>3, <2>7
    <3>2. Cardinality(crashShown \ {saved'}) <= crashLost + 1 + late
      BY <2>1, <2>3, <2>5
    <3> QED BY <2>2, <3>1, <3>2 DEF NoteInv
  <2> QED BY <2>4, <2>6, <2>7
<1>11. ChoiceInv' /\ MonitorInv'
  BY <1>1 DEF ChoiceInv, MonitorInv
<1> QED BY <1>4, <1>5, <1>6, <1>7, <1>8, <1>9, <1>10, <1>11 DEF DaemonInv

LEMMA ExitStep == ASSUME DaemonInv, CrashDaemon!Exit PROVE DaemonInv'
<1>1. PrefTypes /\ PhaseInv
  BY DEF DaemonInv
<1>2. prefs' = prefs
  <2>1. settings.changed = {} /\ prefs' = CrashDaemon!Prefs!Written(prefs, settings)
    BY <1>1 DEF CrashDaemon!Exit, PhaseInv
  <2> QED BY <1>1, <2>1 DEF PrefTypes, CrashDaemon!Prefs!Written, CrashDaemon!Prefs!File
<1>3. /\ CrashDaemon!Gone /\ saved' = savedSeen /\ savedSeen' = savedSeen
      /\ UNCHANGED <<pidFile, page, choice>>
  BY DEF CrashDaemon!Exit
<1> QED BY <1>2, <1>3, GoneStep

LEMMA KilledStep == ASSUME DaemonInv, CrashDaemon!Killed PROVE DaemonInv'
<1>1. /\ CrashDaemon!Gone /\ saved' = saved /\ savedSeen' = saved'
      /\ UNCHANGED <<prefs, page, choice>>
  BY DEF CrashDaemon!Killed
<1>2. pidFile' = pidFile \/ pidFile' = FALSE
  BY Zenon DEF CrashDaemon!Killed
<1>3. saved' = saved \/ saved' = savedSeen
  BY <1>1
<1>4. UNCHANGED <<prefs, page, choice>>
  BY <1>1
<1> QED BY <1>1, <1>2, <1>3, <1>4, GoneStep, Zenon

\* The monitoring over D-Bus.
LEMMA StartMonitoringStep ==
  ASSUME DaemonInv, CrashDaemon!StartCoreMonitoring
  PROVE  DaemonInv'
<1> USE DEF CrashDaemon!StartCoreMonitoring, CrashDaemon!startVars
<1>1. /\ StartTypes /\ PrefTypes /\ NoteTypes /\ HistoryTypes
      /\ PhaseInv /\ StartInv /\ CountInv /\ NoteInv /\ MonitorInv /\ ChoiceInv
  BY DEF DaemonInv
<1>2. /\ settings' \in CrashDaemon!Prefs!Instance /\ settings'.seen["notifications"] = "on"
      /\ "notifications" \in settings'.changed
  BY <1>1 DEF PrefTypes, CrashDaemon!Choose, CrashDaemon!Prefs!SetValue, CrashDaemon!Prefs!Instance,
     CrashDaemon!Prefs!File, CrashDaemon!Prefs!Switch, CrashDaemon!Keys
<1>3. /\ daemon' = "writing" /\ crashCount' = 0 /\ 0 \in 0..MaxCount
      /\ monitor' = TRUE /\ replacesId' = savedSeen
  BY DaemonBounds DEF CrashDaemon!Choose, CrashDaemon!NewMonitor
<1>4. StartTypes'
  BY <1>1, <1>3 DEF StartTypes
<1>5. PrefTypes'
  BY <1>1, <1>2 DEF PrefTypes
<1>6. NoteTypes'
  BY <1>1, <1>3 DEF NoteTypes
<1>7. HistoryTypes'
  BY <1>1 DEF HistoryTypes
<1>8. PhaseInv'
  BY <1>2, <1>3 DEF PhaseInv
<1>9. StartInv'
  BY <1>1, <1>3 DEF StartInv
<1>10. CountInv'
  BY <1>3 DEF CountInv
<1>11. NoteInv'
  BY <1>1, <1>3 DEF NoteInv, Current
<1>12. ChoiceInv' /\ MonitorInv'
  BY <1>1, <1>2, <1>3 DEF ChoiceInv, MonitorInv, IsOn, CrashDaemon!Prefs!Unset
<1> QED BY <1>4, <1>5, <1>6, <1>7, <1>8, <1>9, <1>10, <1>11, <1>12 DEF DaemonInv

LEMMA StopMonitoringStep ==
  ASSUME DaemonInv, CrashDaemon!StopCoreMonitoring
  PROVE  DaemonInv'
<1> USE DEF CrashDaemon!StopCoreMonitoring, CrashDaemon!startVars
<1>1. /\ StartTypes /\ PrefTypes /\ NoteTypes /\ HistoryTypes
      /\ PhaseInv /\ StartInv /\ CountInv /\ NoteInv /\ MonitorInv /\ ChoiceInv
  BY DEF DaemonInv
<1>2. /\ settings' \in CrashDaemon!Prefs!Instance /\ settings'.seen["notifications"] = "off"
      /\ "notifications" \in settings'.changed
  BY <1>1 DEF PrefTypes, CrashDaemon!Choose, CrashDaemon!Prefs!SetValue, CrashDaemon!Prefs!Instance,
     CrashDaemon!Prefs!File, CrashDaemon!Prefs!Switch, CrashDaemon!Keys
<1>3. /\ daemon' = "writing" /\ crashCount' = 0 /\ 0 \in 0..MaxCount /\ 0 \in 0..MaxCrashId
      /\ monitor' = FALSE /\ replacesId' = 0 /\ savedSeen' = replacesId
  BY DaemonBounds DEF CrashDaemon!Choose, CrashDaemon!DeleteMonitor
<1>4. StartTypes'
  BY <1>1, <1>3 DEF StartTypes
<1>5. PrefTypes'
  BY <1>1, <1>2 DEF PrefTypes
<1>6. NoteTypes'
  BY <1>1, <1>3 DEF NoteTypes
<1>7. HistoryTypes'
  BY <1>1 DEF HistoryTypes
<1>8. PhaseInv'
  BY <1>2, <1>3 DEF PhaseInv
<1>9. StartInv'
  BY <1>1, <1>3 DEF StartInv
<1>10. CountInv'
  BY <1>3 DEF CountInv
<1>11. NoteInv'
  BY <1>1, <1>3 DEF NoteInv, Current
<1>12. ChoiceInv' /\ MonitorInv'
  BY <1>1, <1>2, <1>3 DEF ChoiceInv, MonitorInv, IsOn, CrashDaemon!Prefs!Unset
<1> QED BY <1>4, <1>5, <1>6, <1>7, <1>8, <1>9, <1>10, <1>11, <1>12 DEF DaemonInv

LEMMA IgnoredStep ==
  ASSUME DaemonInv, CrashDaemon!RequestIgnored
  PROVE  DaemonInv'
<1>1. /\ StartTypes /\ PrefTypes /\ NoteTypes /\ HistoryTypes
      /\ PhaseInv /\ StartInv /\ CountInv /\ NoteInv /\ MonitorInv /\ ChoiceInv
  BY DEF DaemonInv
<1>2. /\ daemon = "running"
      /\ UNCHANGED <<CrashDaemon!startVars, prefs, settings, page, CrashDaemon!noteVars, daemon,
                     monitor, exits>>
      /\ choice' = IF settings.seen = prefs THEN IF monitor THEN "on" ELSE "off" ELSE choice
  BY DEF CrashDaemon!RequestIgnored, CrashDaemon!Ignored
<1> USE DEF CrashDaemon!startVars, CrashDaemon!noteVars
<1>3. StartTypes' /\ PrefTypes' /\ NoteTypes' /\ HistoryTypes'
  BY <1>1, <1>2 DEF StartTypes, PrefTypes, NoteTypes, HistoryTypes
<1>4. PhaseInv' /\ StartInv' /\ CountInv' /\ NoteInv'
  BY <1>1, <1>2 DEF PhaseInv, StartInv, CountInv, NoteInv, Current
<1>5. MonitorInv'
  BY <1>1, <1>2 DEF MonitorInv
<1>6. ChoiceInv'
  <2>1. CASE settings.seen # prefs
    BY <1>1, <1>2, <2>1 DEF ChoiceInv
  <2>2. CASE settings.seen = prefs
    BY <1>1, <1>2, <2>2 DEF ChoiceInv, MonitorInv
  <2> QED BY <2>1, <2>2
<1> QED BY <1>3, <1>4, <1>5, <1>6 DEF DaemonInv

LEMMA WriteSettingsStep ==
  ASSUME DaemonInv, CrashDaemon!WriteSettings
  PROVE  DaemonInv'
<1> USE DEF CrashDaemon!WriteSettings, CrashDaemon!startVars, CrashDaemon!noteVars
<1>1. /\ StartTypes /\ PrefTypes /\ NoteTypes /\ HistoryTypes
      /\ PhaseInv /\ StartInv /\ CountInv /\ NoteInv /\ MonitorInv /\ ChoiceInv
  BY DEF DaemonInv
<1>2. /\ prefs' \in CrashDaemon!Prefs!File
      /\ prefs'["notifications"] = settings.seen["notifications"]
      /\ settings' \in CrashDaemon!Prefs!Instance /\ settings'.changed = {}
      /\ settings'.seen = prefs' /\ monitor' = monitor
  BY <1>1 DEF PrefTypes, PhaseInv, CrashDaemon!Prefs!Written, CrashDaemon!Prefs!Synced,
     CrashDaemon!Prefs!Opened, CrashDaemon!Prefs!Instance, CrashDaemon!Prefs!File, CrashDaemon!Keys
<1>3. choice' \in {"on", "off"} /\ choice' = settings.seen["notifications"] /\ daemon' = "running"
  BY <1>1 DEF PhaseInv
<1>4. StartTypes'
  BY <1>1 DEF StartTypes
<1>5. PrefTypes'
  BY <1>1, <1>2, <1>3 DEF PrefTypes
<1>6. NoteTypes' /\ HistoryTypes'
  BY <1>1 DEF NoteTypes, HistoryTypes
<1>7. PhaseInv'
  BY <1>2, <1>3 DEF PhaseInv
<1>8. StartInv' /\ CountInv'
  BY <1>1 DEF StartInv, CountInv
<1>9. NoteInv'
  BY <1>1 DEF NoteInv, Current
<1>10. ChoiceInv' /\ MonitorInv'
  <2>1. IsOn(settings.seen["notifications"]) <=> choice' = "on"
    BY <1>3 DEF IsOn, CrashDaemon!Prefs!Unset
  <2>2. ChoiceInv'
    BY <1>2, <1>3, <2>1 DEF ChoiceInv
  <2>3. monitor <=> IsOn(settings.seen["notifications"])
    BY <1>1 DEF MonitorInv
  <2>4. MonitorInv'
    BY <1>2, <1>3, <2>3 DEF MonitorInv
  <2> QED BY <2>2, <2>4
<1> QED BY <1>4, <1>5, <1>6, <1>7, <1>8, <1>9, <1>10 DEF DaemonInv

LEMMA SavedStateStep ==
  ASSUME DaemonInv, CrashDaemon!SavedStateWritten
  PROVE  DaemonInv'
<1> USE DEF CrashDaemon!SavedStateWritten, CrashDaemon!startVars, CrashDaemon!prefVars
<1>1. /\ StartTypes /\ PrefTypes /\ NoteTypes /\ HistoryTypes
      /\ PhaseInv /\ StartInv /\ CountInv /\ NoteInv /\ MonitorInv /\ ChoiceInv
  BY DEF DaemonInv
<1>2. StartTypes' /\ PrefTypes' /\ NoteTypes'
  BY <1>1 DEF StartTypes, PrefTypes, NoteTypes
<1>3. HistoryTypes' /\ PhaseInv' /\ StartInv'
  BY <1>1 DEF HistoryTypes, PhaseInv, StartInv
<1>4. CountInv'
  BY <1>1 DEF CountInv
<1>5. NoteInv'
  BY <1>1 DEF NoteInv, Current
<1>6. ChoiceInv' /\ MonitorInv'
  BY <1>1 DEF ChoiceInv, MonitorInv
<1> QED BY <1>2, <1>3, <1>4, <1>5, <1>6 DEF DaemonInv

\* The notification.
LEMMA NotifiedStep ==
  ASSUME DaemonInv, CrashDaemon!CrashNotified
  PROVE  DaemonInv'
<1> USE DEF CrashDaemon!CrashNotified, CrashDaemon!startVars, CrashDaemon!prefVars
<1>1. /\ StartTypes /\ PrefTypes /\ NoteTypes /\ HistoryTypes
      /\ PhaseInv /\ StartInv /\ CountInv /\ NoteInv /\ MonitorInv /\ ChoiceInv
  BY DEF DaemonInv
<1>2. crashCount' \in 0..MaxCount
  BY <1>1, DaemonBounds DEF NoteTypes
<1>3. /\ replacesId' \in 1..MaxCrashId /\ crashNextId' \in 1..(MaxCrashId + 1)
      /\ replacesId # 0 => replacesId' = replacesId
  <2>1. replacesId \in 0..MaxCrashId /\ crashNextId \in 1..(MaxCrashId + 1) /\ MaxCrashId \in Nat
    BY <1>1, DaemonBounds DEF NoteTypes
  <2>2. CASE replacesId # 0
    BY <2>1, <2>2
  <2>3. CASE replacesId = 0
    BY <2>1, <2>3
  <2> QED BY <2>2, <2>3
<1>4. crashShown' = crashShown \cup {replacesId'} /\ crashShown' \subseteq 1..MaxCrashId
  BY <1>1, <1>3 DEF NoteTypes
<1>5. StartTypes' /\ PrefTypes'
  BY <1>1 DEF StartTypes, PrefTypes
<1>6. NoteTypes'
  BY <1>1, <1>2, <1>3, <1>4 DEF NoteTypes
<1>7. HistoryTypes' /\ PhaseInv' /\ StartInv'
  BY <1>1 DEF HistoryTypes, PhaseInv, StartInv
<1>8. CountInv'
  BY <1>1, <1>2, <1>3, <1>4 DEF CountInv
<1>9. NoteInv'
  <2>1. crashShown \in SUBSET (1..MaxCrashId) /\ MaxCrashId \in Nat
    BY <1>1, DaemonBounds DEF NoteTypes
  <2>2. Current' = replacesId' /\ Current = replacesId
    BY DEF Current
  <2>3. CASE replacesId # 0
    <3>1. crashShown' \ {Current'} = crashShown \ {Current}
      BY <1>3, <1>4, <2>2, <2>3
    <3> QED BY <1>1, <3>1 DEF NoteInv
  <2>4. CASE replacesId = 0
    <3>1. crashShown' \ {Current'} = crashShown \ {replacesId'} /\ crashShown \ {Current} = crashShown
      BY <1>3, <1>4, <2>1, <2>2, <2>4
    <3>2. /\ Cardinality(crashShown) \in Nat /\ Cardinality(crashShown \ {replacesId'}) \in Nat
          /\ Cardinality(crashShown \ {replacesId'}) <= Cardinality(crashShown)
      BY <2>1, OthersShown, FS_Subset
    <3>3. Cardinality(crashShown) <= crashLost + late /\ crashLost \in Nat /\ late \in Nat
      BY <1>1, <3>1 DEF NoteInv, HistoryTypes
    <3>4. Cardinality(crashShown \ {replacesId'}) <= crashLost + late
      BY <3>2, <3>3
    <3> QED BY <3>1, <3>4 DEF NoteInv
  <2> QED BY <2>3, <2>4
<1>10. ChoiceInv' /\ MonitorInv'
  BY <1>1 DEF ChoiceInv, MonitorInv
<1> QED BY <1>5, <1>6, <1>7, <1>8, <1>9, <1>10 DEF DaemonInv

LEMMA DismissedStep ==
  ASSUME DaemonInv, CrashDaemon!Dismissed
  PROVE  DaemonInv'
<1> USE DEF CrashDaemon!startVars, CrashDaemon!prefVars
<1>1. /\ StartTypes /\ PrefTypes /\ NoteTypes /\ HistoryTypes
      /\ PhaseInv /\ StartInv /\ CountInv /\ NoteInv /\ MonitorInv /\ ChoiceInv
  BY DEF DaemonInv
<1>2. PICK id \in crashShown :
       /\ crashShown' = crashShown \ {id}
       /\ closing' = IF monitor THEN closing \cup {id} ELSE closing
  BY DEF CrashDaemon!Dismissed
<1>3. UNCHANGED <<CrashDaemon!startVars, CrashDaemon!prefVars, saved, savedSeen, replacesId, crashCount,
                 crashNextId, late, crashLost, daemon, monitor, exits>>
  BY DEF CrashDaemon!Dismissed
<1>4. StartTypes' /\ PrefTypes'
  BY <1>1, <1>3 DEF StartTypes, PrefTypes
<1>5. NoteTypes'
  BY <1>1, <1>2, <1>3 DEF NoteTypes
<1>6. HistoryTypes' /\ PhaseInv' /\ StartInv'
  BY <1>1, <1>3 DEF HistoryTypes, PhaseInv, StartInv
<1>7. CountInv'
  BY <1>1, <1>2, <1>3 DEF CountInv
<1>8. NoteInv'
  <2>1. crashShown \in SUBSET (1..MaxCrashId) /\ MaxCrashId \in Nat /\ crashShown' \in SUBSET crashShown
    BY <1>1, <1>2, DaemonBounds DEF NoteTypes
  <2>2. /\ Cardinality(crashShown' \ {Current}) \in Nat /\ Cardinality(crashShown \ {Current}) \in Nat
        /\ Cardinality(crashShown' \ {Current}) <= Cardinality(crashShown \ {Current})
    <3>1. crashShown' \in SUBSET (1..MaxCrashId)
      BY <2>1
    <3> QED BY <2>1, <3>1, OthersShown
  <2>3. Cardinality(crashShown \ {Current}) <= crashLost + late /\ crashLost \in Nat /\ late \in Nat
    BY <1>1 DEF NoteInv, HistoryTypes
  <2>4. Cardinality(crashShown' \ {Current}) <= crashLost + late
    BY <2>2, <2>3
  <2>5. Current' = Current /\ crashLost' = crashLost /\ late' = late
    BY <1>3 DEF Current
  <2> QED BY <2>4, <2>5 DEF NoteInv
<1>9. ChoiceInv' /\ MonitorInv'
  BY <1>1, <1>3 DEF ChoiceInv, MonitorInv
<1> QED BY <1>4, <1>5, <1>6, <1>7, <1>8, <1>9 DEF DaemonInv

LEMMA ClosedStep ==
  ASSUME DaemonInv, CrashDaemon!Closed
  PROVE  DaemonInv'
<1> USE DEF CrashDaemon!startVars, CrashDaemon!prefVars
<1>1. /\ StartTypes /\ PrefTypes /\ NoteTypes /\ HistoryTypes
      /\ PhaseInv /\ StartInv /\ CountInv /\ NoteInv /\ MonitorInv /\ ChoiceInv
  BY DEF DaemonInv
<1>2. PICK id \in closing :
       /\ closing' = closing \ {id}
       /\ IF id = replacesId
          THEN /\ replacesId' = 0 /\ crashCount' = 0
               /\ late' = IF id \in crashShown THEN late + 1 ELSE late
          ELSE UNCHANGED <<replacesId, crashCount, late>>
  BY DEF CrashDaemon!Closed
<1>3. /\ UNCHANGED <<CrashDaemon!startVars, CrashDaemon!prefVars, saved, savedSeen, crashShown,
                    crashNextId, crashLost, daemon, monitor, exits>>
      /\ monitor
  BY DEF CrashDaemon!Closed
<1>4. StartTypes' /\ PrefTypes'
  BY <1>1, <1>3 DEF StartTypes, PrefTypes
<1>5. NoteTypes'
  BY <1>1, <1>2, <1>3, DaemonBounds DEF NoteTypes
<1>6. HistoryTypes'
  BY <1>1, <1>2, <1>3 DEF HistoryTypes
<1>7. PhaseInv' /\ StartInv'
  BY <1>1, <1>3 DEF PhaseInv, StartInv
<1>8. CountInv'
  BY <1>1, <1>2, <1>3 DEF CountInv
<1>9. NoteInv'
  <2>1. crashShown \in SUBSET (1..MaxCrashId) /\ MaxCrashId \in Nat /\ crashLost \in Nat /\ late \in Nat
    BY <1>1, DaemonBounds DEF NoteTypes, HistoryTypes
  <2>2. Current = replacesId /\ Current' = replacesId' /\ crashLost' = crashLost /\ crashShown' = crashShown
    BY <1>3 DEF Current
  <2>3. Cardinality(crashShown \ {replacesId}) <= crashLost + late
    BY <1>1, <2>2 DEF NoteInv
  <2>4. CASE id # replacesId
    BY <1>2, <2>2, <2>3, <2>4 DEF NoteInv
  <2>5. CASE id = replacesId
    <3>1. /\ Cardinality(crashShown) \in Nat /\ Cardinality(crashShown \ {replacesId}) \in Nat
          /\ Cardinality(crashShown) <= Cardinality(crashShown \ {replacesId}) + 1
          /\ replacesId \notin crashShown => Cardinality(crashShown) = Cardinality(crashShown \ {replacesId})
      BY <2>1, OthersShown
    <3>2. Cardinality(crashShown) <= crashLost + late'
      BY <1>2, <2>1, <2>3, <2>5, <3>1
    <3>3. crashShown' \ {Current'} = crashShown
      BY <1>2, <2>1, <2>2, <2>5
    <3> QED BY <2>2, <3>2, <3>3 DEF NoteInv
  <2> QED BY <2>4, <2>5
<1>10. ChoiceInv' /\ MonitorInv'
  BY <1>1, <1>3 DEF ChoiceInv, MonitorInv
<1> QED BY <1>4, <1>5, <1>6, <1>7, <1>8, <1>9, <1>10 DEF DaemonInv

\* The page.
LEMMA PrefsPageStep ==
  ASSUME DaemonInv, CrashDaemon!PageToggles \/ CrashDaemon!PageWrites \/ CrashDaemon!PageOpens
  PROVE  DaemonInv'
<1> USE DEF CrashDaemon!startVars, CrashDaemon!noteVars
<1>1. /\ StartTypes /\ PrefTypes /\ NoteTypes /\ HistoryTypes
      /\ PhaseInv /\ StartInv /\ CountInv /\ NoteInv /\ MonitorInv /\ ChoiceInv
  BY DEF DaemonInv
<1>2. UNCHANGED <<CrashDaemon!startVars, settings, CrashDaemon!noteVars, daemon, monitor, exits>>
  BY DEF CrashDaemon!PageToggles, CrashDaemon!PageWrites, CrashDaemon!PageOpens
<1>3. PrefTypes'
  <2>1. CASE CrashDaemon!PageToggles
    BY <1>1, <2>1 DEF PrefTypes, CrashDaemon!PageToggles, CrashDaemon!Prefs!SetValue,
       CrashDaemon!Prefs!Instance, CrashDaemon!Prefs!File, CrashDaemon!Prefs!Switch, CrashDaemon!Keys
  <2>2. CASE CrashDaemon!PageWrites
    <3>1. CrashDaemon!Prefs!Written(prefs, page) \in CrashDaemon!Prefs!File
      BY <1>1 DEF PrefTypes, CrashDaemon!Prefs!Written, CrashDaemon!Prefs!Instance, CrashDaemon!Prefs!File
    <3> QED BY <1>1, <2>2, <3>1 DEF PrefTypes, CrashDaemon!PageWrites, CrashDaemon!Prefs!Synced,
            CrashDaemon!Prefs!Opened, CrashDaemon!Prefs!Instance
  <2>3. CASE CrashDaemon!PageOpens
    BY <1>1, <2>3 DEF PrefTypes, CrashDaemon!PageOpens, CrashDaemon!Prefs!Opened, CrashDaemon!Prefs!Instance
  <2> QED BY <2>1, <2>2, <2>3
<1>4. ChoiceInv' /\ MonitorInv'
  BY <1>1, <1>2 DEF ChoiceInv, MonitorInv, CrashDaemon!PageToggles, CrashDaemon!PageWrites, CrashDaemon!PageOpens
<1>5. StartTypes' /\ NoteTypes' /\ HistoryTypes'
  BY <1>1, <1>2 DEF StartTypes, NoteTypes, HistoryTypes
<1>6. PhaseInv' /\ StartInv' /\ CountInv' /\ NoteInv'
  BY <1>1, <1>2 DEF PhaseInv, StartInv, CountInv, NoteInv, Current
<1> QED BY <1>3, <1>4, <1>5, <1>6 DEF DaemonInv

LEMMA DaemonNext == DaemonInv /\ [DesktopNext]_desktopVars => DaemonInv'
<1> SUFFICES ASSUME DaemonInv, [DesktopNext]_desktopVars PROVE DaemonInv'
  OBVIOUS
<1>1. CASE CrashDaemon!Next
  BY <1>1, StartStep, ExitStep, KilledStep, StartMonitoringStep, StopMonitoringStep, IgnoredStep, WriteSettingsStep,
     SavedStateStep, NotifiedStep, DismissedStep, ClosedStep, PrefsPageStep DEF CrashDaemon!Next
<1>2. CASE UNCHANGED daemonVars
  <2> USE <1>2 DEF daemonVars, DaemonInv
  <2>1. StartTypes' /\ PrefTypes' /\ NoteTypes' /\ HistoryTypes'
    BY DEF StartTypes, PrefTypes, NoteTypes, HistoryTypes
  <2>2. PhaseInv' /\ StartInv' /\ CountInv' /\ NoteInv' /\ MonitorInv' /\ ChoiceInv'
    BY DEF PhaseInv, StartInv, CountInv, NoteInv, Current, MonitorInv, ChoiceInv
  <2> QED BY <2>1, <2>2
<1> QED BY <1>1, <1>2 DEF DesktopNext, ReportsDo, DaemonDoes, desktopVars

LEMMA DaemonInvariance == DesktopSpec => []DaemonInv
<1>1. DesktopInit => DaemonInv
  BY DaemonInit DEF DesktopInit
<1> QED BY <1>1, DaemonNext, PTL DEF DesktopSpec

(* The state of the daemon, of its settings and of its notification is of  *)
(* its type at all times.                                                  *)
THEOREM DaemonTypeCorrect == DesktopSpec => []CrashDaemon!TypeOK
<1>1. DaemonInv => CrashDaemon!TypeOK
  BY DEF DaemonInv, StartTypes, PrefTypes, NoteTypes, HistoryTypes, CrashDaemon!TypeOK,
     CrashDaemon!Prefs!Switch
<1> QED BY <1>1, DaemonInvariance, PTL

(* main.cpp: "Remove PID file (to delay next startup)".  No more than one  *)
(* start fails between a delay and the next.                               *)
THEOREM NoTightLoop == DesktopSpec => []NoBusyRestart
<1>1. DaemonInv => NoBusyRestart
  BY DEF DaemonInv, StartInv, NoBusyRestart, CrashDaemon!NoBusyRestart
<1> QED BY <1>1, DaemonInvariance, PTL

(* The count of crashes begins anew once the notification that shows it    *)
(* has been dismissed (resetCrashCount).                                   *)
THEOREM CountBeginsAnew == DesktopSpec => []CountsWhatIsShown
<1>1. DaemonInv => CountsWhatIsShown
  BY DEF DaemonInv, CountInv, CountsWhatIsShown, CrashDaemon!CountsWhatIsShown
<1> QED BY <1>1, DaemonInvariance, PTL

(* There is one crash notification, but for the daemons that could not     *)
(* save its identifier and those closed late, however often daemons end    *)
(* and monitoring is turned off and on (CReporterDaemonMonitorPrivate).    *)
THEOREM NotificationIsReplaced == DesktopSpec => []OneCrashNotification
<1>1. ASSUME DaemonInv PROVE OneCrashNotification
  <2>1. crashShown \in SUBSET (1..MaxCrashId) /\ MaxCrashId \in Nat /\ crashLost \in Nat /\ late \in Nat
    BY <1>1, DaemonBounds DEF DaemonInv, NoteTypes, HistoryTypes
  <2>2. /\ Cardinality(crashShown) \in Nat /\ Cardinality(crashShown \ {Current}) \in Nat
        /\ Cardinality(crashShown) <= Cardinality(crashShown \ {Current}) + 1
    BY <2>1, OthersShown
  <2>3. Cardinality(crashShown \ {Current}) <= crashLost + late
    BY <1>1 DEF DaemonInv, NoteInv
  <2>4. Cardinality(crashShown) <= 1 + crashLost + late
    BY <2>1, <2>2, <2>3
  <2>5. \A S : CrashDaemon!Cardinality(S) = Cardinality(S)
    BY DEF CrashDaemon!Cardinality, Cardinality
  <2> QED BY <2>4, <2>5 DEF OneCrashNotification, CrashDaemon!OneCrashNotification
<1> QED BY <1>1, DaemonInvariance, PTL

(* What a D-Bus client has asked for last, heeded or ignored, decides      *)
(* whether the next daemon monitors, but for a request ignored by a daemon *)
(* that has not read what the page has written (startCoreMonitoring,       *)
(* stopCoreMonitoring, initiateDaemon).                                    *)
THEOREM ChoiceIsHonoured == DesktopSpec => DBusChoiceSurvives
<1>1. ASSUME DaemonInv PROVE CrashDaemon!HonoursChoice
  <2> SUFFICES ASSUME CrashDaemon!Start, daemon' = "running", choice # "none"
               PROVE  monitor' <=> (choice = "on" \/ CrashDaemon!On(settings, "automaticsending"))
    BY DEF CrashDaemon!HonoursChoice
  <2>1. CrashDaemon!Initiated /\ daemon \in {"delayed", "starting"}
    BY DEF CrashDaemon!Start, CrashDaemon!Main, CrashDaemon!StartImmediately, CrashDaemon!TimerEvent,
       CrashDaemon!InitiateFails
  <2>2. ~monitor /\ settings.seen = prefs /\ choice \in {"on", "off"}
    BY <1>1, <2>1 DEF DaemonInv, PhaseInv, ChoiceInv, PrefTypes
  <2>3. \A k \in CrashDaemon!Keys : CrashDaemon!On(settings, k) <=> IsOn(prefs[k])
    BY <2>2, OnIs
  <2>4. /\ choice = "on" =>
             \/ CrashDaemon!On(settings, "notifications")
             \/ CrashDaemon!On(settings, "automaticsending")
        /\ choice = "off" => ~CrashDaemon!On(settings, "notifications")
    BY <1>1, <2>2, <2>3 DEF DaemonInv, ChoiceInv, CrashDaemon!Keys
  <2> QED BY <2>1, <2>2, <2>4 DEF CrashDaemon!Initiated, CrashDaemon!NewMonitor
<1> QED BY <1>1, DaemonInvariance, PTL DEF DesktopSpec, DBusChoiceSurvives

-----------------------------------------------------------------------------
(* The page                                                                *)

(* Until the next change, or a change that nobody was told of, the number  *)
(* is that of the reports there are, and so is what the model is given.    *)
PageInv ==
  /\ disk \subseteq arrived /\ arrived \subseteq Files
  /\ raised \in BOOLEAN /\ missed \in BOOLEAN
  /\ pc \in {"new", "opening", "unwatched", "idle", "collected"}
  /\ listing \subseteq Files
  /\ reportsToUpload \in 0..Cardinality(Files)
  /\ ~missed /\ ~raised /\ pc # "new" =>
       /\ reportsToUpload = Cardinality(disk)
       /\ pc \in {"opening", "collected"} => listing = disk

LEMMA PageInit == ASSUME Init PROVE PageInv
<1>1. 0 \in 0..Cardinality(Files)
  BY FilesAssumption, FS_CardinalityType
<1>2. Cardinality(disk) = 0
  BY FS_EmptySet DEF Init
<1> QED BY <1>1, <1>2 DEF Init, PageInv

\* The directory is not what it was, and the page has not read it.
LEMMA ChangedStep ==
  ASSUME PageInv, Changed, UNCHANGED <<pc, listing, reportsToUpload>>,
         disk' \subseteq arrived', arrived' \subseteq Files
  PROVE  PageInv'
<1>1. raised' \in BOOLEAN /\ missed' \in BOOLEAN
  BY DEF Changed, Watched, PageInv
<1>2. raised' \/ missed' \/ pc' = "new"
  BY DEF Changed, Watched, PageInv
<1> QED BY <1>1, <1>2 DEF PageInv

\* The page reads the directory.
LEMMA CollectStep ==
  ASSUME PageInv, Collect, UNCHANGED <<disk, arrived>>, raised' \in {raised, FALSE},
         pc' \in {"opening", "collected"}
  PROVE  PageInv'
<1>1. raised' \in BOOLEAN
  BY DEF PageInv
<1>2. disk \subseteq Files
  BY DEF PageInv
<1>3. Cardinality(disk) \in 0..Cardinality(Files)
  BY <1>2, FilesAssumption, FS_Subset, FS_CardinalityType
<1> QED BY <1>1, <1>2, <1>3 DEF PageInv, Collect

LEMMA PageNext == PageInv /\ [DesktopNext]_desktopVars => PageInv'
<1> SUFFICES ASSUME PageInv, [DesktopNext]_desktopVars PROVE PageInv'
  OBVIOUS
<1>1. CASE UNCHANGED vars
  BY <1>1 DEF vars, PageInv
<1>2. CASE Open
  BY <1>2, CollectStep DEF Open
<1>3. CASE Fill
  <2>1. UNCHANGED <<disk, arrived, raised, reportsToUpload, missed>> /\ listing' = {}
    BY <1>3 DEF Fill
  <2>2. pc' \in {"unwatched", "idle"} /\ pc # "new"
    BY <1>3 DEF Fill
  <2> QED BY <2>1, <2>2 DEF PageInv
<1>4. CASE AddPaths
  BY <1>4 DEF AddPaths, PageInv
<1>5. CASE DirectoryChanged
  <2>1. Collect /\ UNCHANGED <<disk, arrived>>
    BY <1>5 DEF DirectoryChanged
  <2>2. raised' = FALSE /\ pc' = "collected"
    BY <1>5 DEF DirectoryChanged
  <2>3. raised' \in {raised, FALSE}
    BY <2>2, Zenon
  <2>4. pc' \in {"opening", "collected"}
    BY <2>2
  <2> QED BY <2>1, <2>3, <2>4, CollectStep, Zenon
<1>6. CASE DeleteCrashReport
  <2>1. UNCHANGED <<arrived, pc, listing, reportsToUpload>>
    BY <1>6 DEF DeleteCrashReport, listVars
  <2>2. disk' \subseteq disk /\ (IF disk' = disk THEN UNCHANGED <<raised, missed>> ELSE Changed)
    BY <1>6 DEF DeleteCrashReport
  <2>3. CASE disk' = disk
    BY <2>1, <2>2, <2>3 DEF PageInv
  <2>4. CASE disk' # disk
    BY <2>1, <2>2, <2>4, ChangedStep DEF PageInv
  <2> QED BY <2>3, <2>4
<1>7. CASE DeleteAllCrashReports
  BY <1>7, ChangedStep DEF DeleteAllCrashReports, listVars, PageInv
<1>8. CASE \E f \in Files : NewReport(f) \/ ReportRemoved(f)
  <2> SUFFICES ASSUME NEW f \in Files, NewReport(f) \/ ReportRemoved(f) PROVE PageInv'
    BY <1>8
  <2>1. Changed /\ UNCHANGED <<pc, listing, reportsToUpload>>
    BY DEF NewReport, ReportRemoved, listVars
  <2>2. disk' \subseteq arrived' /\ arrived' \subseteq Files
    BY DEF NewReport, ReportRemoved, PageInv
  <2> QED BY <2>1, <2>2, ChangedStep
<1>9. UNCHANGED vars \/ Next
  BY DEF DesktopNext, ReportsDo, ReportsNext, PageStep, StorageStep, DaemonDoes, desktopVars, allVars
<1> QED BY <1>1, <1>2, <1>3, <1>4, <1>5, <1>6, <1>7, <1>8, <1>9 DEF Next, Adapter, PageRuns

LEMMA PageInvariance == DesktopSpec => []PageInv
<1>1. DesktopInit => PageInv
  BY PageInit DEF DesktopInit, ReportsInit
<1> QED BY <1>1, PageNext, PTL DEF DesktopSpec

(* Once it has read all changes the page gives the number of the reports   *)
(* there are, and the list model is given those very reports; but for      *)
(* changes that come while the page opens (CrashReporterAdapterPrivate).   *)
THEOREM PageCountsWhatIsThere ==
  DesktopSpec => [](~missed /\ ~raised /\ pc # "new" =>
                      /\ reportsToUpload = Cardinality(disk)
                      /\ pc \in {"opening", "collected"} => listing = disk)
<1>1. PageInv => (~missed /\ ~raised /\ pc # "new" =>
                    /\ reportsToUpload = Cardinality(disk)
                    /\ pc \in {"opening", "collected"} => listing = disk)
  BY DEF PageInv
<1> QED BY <1>1, PageInvariance, PTL

-----------------------------------------------------------------------------
(* The list of reports                                                     *)

LEMMA LeastNumber ==
  ASSUME NEW T \in SUBSET Nat, T # {}
  PROVE  \E m \in T : \A k \in T : m <= k
<1> DEFINE R == OpToRel(<, Nat)
<1>1. IsWellFoundedOn(R, Nat)
  BY NatLessThanWellFounded, Zenon
<1>2. \A k, l \in Nat : k < l => <<k, l>> \in R
  BY DEF OpToRel
<1> HIDE DEF R
<1>3. PICK m \in T : \A k \in T : ~ (<<k, m>> \in R)
  BY <1>1, WFMin
<1>4. \A k \in T : ~(k < m)
  BY <1>2, <1>3
<1> QED BY <1>4

(* Induction, for a set of numbers.                                        *)
LEMMA SetInduction ==
  ASSUME NEW S, 0 \in S, \A n \in S \cap Nat : n + 1 \in S
  PROVE  Nat \subseteq S
<1>1. SUFFICES ASSUME Nat \ S # {} PROVE FALSE
  OBVIOUS
<1>2. PICK m \in Nat \ S : \A k \in Nat \ S : m <= k
  BY <1>1, LeastNumber
<1>3. m - 1 \in S \cap Nat /\ (m - 1) + 1 = m
  BY <1>2
<1> QED BY <1>3

\* One round of the loop that keeps rows, and of the one that inserts.
KeepRound(g, data, n) ==
  IF n = 0 THEN <<>>
  ELSE IF contents[n].filePath \in data THEN Append(g[n - 1], contents[n]) ELSE g[n - 1]

InsertRound(g, rows, order, n) ==
  IF n = 0 THEN rows ELSE Insert(g[n - 1], ItemOf(order[n]))

IsKeeping(g, data, N) == g = [n \in 0..N |-> KeepRound(g, data, n)]

IsInserting(g, rows, order, N) == g = [n \in 0..N |-> InsertRound(g, rows, order, n)]

LEMMA KeepingIsDefined ==
  ASSUME NEW data, NEW N \in Nat
  PROVE  \E g : IsKeeping(g, data, N)
<1> DEFINE S == {k \in Nat : \E g : IsKeeping(g, data, k)}
<1>1. 0 \in S
  <2> DEFINE g == [n \in 0..0 |-> <<>>]
  <2>1. IsKeeping(g, data, 0)
    BY DEF KeepRound, IsKeeping
  <2> QED BY <2>1
<1>2. ASSUME NEW k \in S \cap Nat PROVE k + 1 \in S
  <2>1. PICK g : IsKeeping(g, data, k)
    OBVIOUS
  <2> DEFINE h == [n \in 0..(k + 1) |-> IF n = k + 1 THEN KeepRound(g, data, n) ELSE g[n]]
  <2>2. \A n \in 0..k : g[n] = KeepRound(g, data, n)
    BY <2>1 DEF IsKeeping
  <2>3. ASSUME NEW n \in 0..(k + 1) PROVE h[n] = KeepRound(h, data, n)
    <3>1. h[n] = KeepRound(g, data, n)
      BY <2>2
    <3>2. CASE n = 0
      BY <3>1, <3>2 DEF KeepRound
    <3>3. CASE n # 0
      <4>1. n - 1 \in 0..(k + 1) /\ n - 1 # k + 1
        BY <3>3
      <4>2. h[n - 1] = g[n - 1]
        BY <4>1
      <4> HIDE DEF h
      <4> QED BY <3>1, <4>2 DEF KeepRound
    <3> QED BY <3>2, <3>3
  <2>4. IsKeeping(h, data, k + 1)
    <3>1. h = [n \in 0..(k + 1) |-> h[n]]
      OBVIOUS
    <3> HIDE DEF h
    <3> QED BY <2>3, <3>1 DEF IsKeeping
  <2> HIDE DEF h
  <2> QED BY <2>4
<1>3. N \in S
  <2> HIDE DEF S
  <2> QED BY <1>1, <1>2, SetInduction
<1> QED BY <1>3

LEMMA InsertingIsDefined ==
  ASSUME NEW rows, NEW order, NEW N \in Nat
  PROVE  \E g : IsInserting(g, rows, order, N)
<1> DEFINE S == {k \in Nat : \E g : IsInserting(g, rows, order, k)}
<1>1. 0 \in S
  <2> DEFINE g == [n \in 0..0 |-> rows]
  <2>1. IsInserting(g, rows, order, 0)
    BY DEF InsertRound, IsInserting
  <2> QED BY <2>1
<1>2. ASSUME NEW k \in S \cap Nat PROVE k + 1 \in S
  <2>1. PICK g : IsInserting(g, rows, order, k)
    OBVIOUS
  <2> DEFINE h == [n \in 0..(k + 1) |-> IF n = k + 1 THEN InsertRound(g, rows, order, n) ELSE g[n]]
  <2>2. \A n \in 0..k : g[n] = InsertRound(g, rows, order, n)
    BY <2>1 DEF IsInserting
  <2>3. ASSUME NEW n \in 0..(k + 1) PROVE h[n] = InsertRound(h, rows, order, n)
    <3>1. h[n] = InsertRound(g, rows, order, n)
      BY <2>2
    <3>2. CASE n = 0
      BY <3>1, <3>2 DEF InsertRound
    <3>3. CASE n # 0
      <4>1. n - 1 \in 0..(k + 1) /\ n - 1 # k + 1
        BY <3>3
      <4>2. h[n - 1] = g[n - 1]
        BY <4>1
      <4> HIDE DEF h
      <4> QED BY <3>1, <3>3, <4>2 DEF InsertRound
    <3> QED BY <3>2, <3>3
  <2>4. IsInserting(h, rows, order, k + 1)
    <3>1. h = [n \in 0..(k + 1) |-> h[n]]
      OBVIOUS
    <3> HIDE DEF h
    <3> QED BY <2>3, <3>1 DEF IsInserting
  <2> HIDE DEF h
  <2> QED BY <2>4
<1>3. N \in S
  <2> HIDE DEF S
  <2> QED BY <1>1, <1>2, SetInduction
<1> QED BY <1>3

Names(rows) == {rows[i].filePath : i \in DOMAIN rows}

\* A list in which no report is twice.
IsList(rows) ==
  /\ rows \in Seq(Item)
  /\ \A i, j \in DOMAIN rows : rows[i].filePath = rows[j].filePath => i = j

LEMMA UpTo == ASSUME NEW n \in Nat PROVE IsFiniteSet(1..n) /\ Cardinality(1..n) = n
<1>1. /\ IsFiniteSet(1..n)
      /\ Cardinality(1..n) = IF 1 > n THEN 0 ELSE n - 1 + 1
  BY FS_Interval
<1>2. (IF 1 > n THEN 0 ELSE n - 1 + 1) = n
  OBVIOUS
<1> QED BY <1>1, <1>2

(* A list has as many rows as reports.                                     *)
LEMMA RowsAreCounted ==
  ASSUME NEW rows, IsList(rows)
  PROVE  IsFiniteSet(Names(rows)) /\ Cardinality(Names(rows)) = Len(rows)
<1> DEFINE N == Len(rows)
           b == [i \in 1..N |-> rows[i].filePath]
<1>1. N \in Nat /\ DOMAIN rows = 1..N
  BY DEF IsList
<1>2. b \in Bijection(1..N, Names(rows))
  <2>1. b \in [1..N -> Names(rows)]
    BY <1>1 DEF Names
  <2>2. \A i, j \in 1..N : b[i] = b[j] => i = j
    BY <1>1 DEF IsList
  <2>3. \A f \in Names(rows) : \E i \in 1..N : b[i] = f
    BY <1>1 DEF Names
  <2> HIDE DEF b, N
  <2> QED BY <2>1, <2>2, <2>3 DEF Bijection, Injection, Surjection, IsInjective
<1>3. ExistsBijection(1..N, Names(rows))
  BY <1>2 DEF ExistsBijection
<1>4. IsFiniteSet(1..N) /\ Cardinality(1..N) = N
  BY <1>1, UpTo
<1> HIDE DEF N
<1> QED BY <1>3, <1>4, FS_Bijection DEF N

(* A new row is added to the list, and those there were stay in order.     *)
LEMMA InsertOne ==
  ASSUME NEW rows, IsList(rows), NEW item \in Item, item.filePath \notin Names(rows)
  PROVE  LET more == Insert(rows, item) IN
         /\ IsList(more)
         /\ Names(more) = Names(rows) \cup {item.filePath}
         /\ \A f, g \in Names(rows) : Above(more, f, g) => Above(rows, f, g)
<1> DEFINE older == {i \in DOMAIN rows : item.dateCreated > rows[i].dateCreated}
           p == IF older = {} THEN Len(rows) + 1 ELSE Min(older)
           more == InsertAt(rows, p, item)
           old(i) == IF i < p THEN i ELSE i - 1
<1>1. rows \in Seq(Item) /\ DOMAIN rows = 1..Len(rows) /\ Len(rows) \in Nat
  BY DEF IsList
<1>2. p \in 1..(Len(rows) + 1)
  <2>1. CASE older = {}
    BY <1>1, <2>1
  <2>2. CASE older # {}
    <3>1. older \subseteq Nat
      BY <1>1
    <3>2. \E m \in older : \A k \in older : m <= k
      <4> HIDE DEF older
      <4> QED BY <2>2, <3>1, LeastNumber
    <3>3. Min(older) \in older
      BY <3>2 DEF Min
    <3> QED BY <1>1, <2>2, <3>3
  <2> QED BY <2>1, <2>2
<1>3. Insert(rows, item) = more
  BY DEF Insert
<1> HIDE DEF p
<1>4. /\ more \in Seq(Item)
      /\ Len(more) = Len(rows) + 1
      /\ \A i \in 1..Len(more) : more[i] = IF i = p THEN item ELSE rows[old(i)]
  <2> DEFINE above == SubSeq(rows, 1, p - 1)
             below == SubSeq(rows, p, Len(rows))
  <2>1. /\ above \in Seq(Item) /\ Len(above) = p - 1
        /\ \A i \in 1..(p - 1) : above[i] = rows[i]
    BY <1>1, <1>2
  <2>2. /\ below \in Seq(Item) /\ Len(below) = Len(rows) - p + 1
        /\ \A i \in 1..(Len(rows) - p + 1) : below[i] = rows[i + p - 1]
    BY <1>1, <1>2
  <2>3. more = above \o <<item>> \o below
    BY DEF InsertAt
  <2> HIDE DEF above, below, more
  <2> DEFINE front == above \o <<item>>
  <2>4. /\ front \in Seq(Item) /\ Len(front) = p
        /\ \A i \in 1..p : front[i] = IF i = p THEN item ELSE above[i]
    BY <1>2, <2>1
  <2>5. more = front \o below
    BY <2>3
  <2> HIDE DEF front
  <2>6. /\ more \in Seq(Item) /\ Len(more) = p + (Len(rows) - p + 1)
        /\ \A i \in 1..Len(more) : more[i] = IF i <= p THEN front[i] ELSE below[i - p]
    BY <1>1, <1>2, <2>2, <2>4, <2>5
  <2>7. Len(more) = Len(rows) + 1
    BY <1>1, <1>2, <2>6
  <2>8. ASSUME NEW i \in 1..Len(more) PROVE more[i] = IF i = p THEN item ELSE rows[old(i)]
    <3>1. CASE i < p
      BY <1>1, <1>2, <2>1, <2>4, <2>6, <3>1
    <3>2. CASE i = p
      BY <1>2, <2>4, <2>6, <3>2
    <3>3. CASE i > p
      <4>1. i - p \in 1..(Len(rows) - p + 1) /\ (i - p) + p - 1 = i - 1 /\ ~(i <= p) /\ ~(i < p) /\ i # p
        BY <1>1, <1>2, <2>7, <3>3
      <4>2. below[i - p] = rows[i - 1]
        BY <2>2, <4>1
      <4> QED BY <2>6, <4>1, <4>2
    <3> QED BY <1>2, <2>7, <1>1, <3>1, <3>2, <3>3
  <2> QED BY <2>6, <2>7, <2>8
<1> HIDE DEF more
<1>5. \A i \in 1..Len(more) : i # p => old(i) \in DOMAIN rows
  BY <1>1, <1>2, <1>4
<1>6. \A i, j \in 1..Len(more) : i # p /\ j # p => /\ (old(i) = old(j) => i = j)
                                                 /\ (i < j => old(i) < old(j))
  BY <1>1, <1>2, <1>4
<1>7. \A i \in DOMAIN rows : \E j \in 1..Len(more) : j # p /\ old(j) = i
  <2> SUFFICES ASSUME NEW i \in DOMAIN rows PROVE \E j \in 1..Len(more) : j # p /\ old(j) = i
    OBVIOUS
  <2>1. CASE i < p
    BY <1>1, <1>2, <1>4, <2>1
  <2>2. CASE ~(i < p)
    <3>1. i + 1 \in 1..Len(more) /\ i + 1 # p /\ old(i + 1) = i
      BY <1>1, <1>2, <1>4, <2>2
    <3> QED BY <3>1
  <2> QED BY <2>1, <2>2
<1>8. DOMAIN more = 1..Len(more)
  BY <1>4
<1> HIDE DEF old
<1>9. \A i \in DOMAIN more : more[i].filePath = item.filePath <=> i = p
  BY <1>4, <1>5, <1>8 DEF Names
<1>10. IsList(more)
  <2>1. ASSUME NEW i \in DOMAIN more, NEW j \in DOMAIN more, more[i].filePath = more[j].filePath
        PROVE  i = j
    <3>1. CASE i = p
      BY <1>4, <1>8, <1>9, <2>1, <3>1
    <3>2. CASE i # p
      <4>1. j # p
        BY <1>4, <1>8, <1>9, <2>1, <3>2
      <4> QED BY <1>4, <1>5, <1>6, <1>8, <2>1, <3>2, <4>1 DEF IsList
    <3> QED BY <3>1, <3>2
  <2> QED BY <1>4, <2>1 DEF IsList
<1>11. Names(more) = Names(rows) \cup {item.filePath}
  <2>1. p \in DOMAIN more /\ more[p] = item
    BY <1>1, <1>2, <1>4, <1>8
  <2>2. \A i \in DOMAIN more : more[i].filePath \in Names(rows) \cup {item.filePath}
    BY <1>4, <1>5, <1>8 DEF Names
  <2>3. \A i \in DOMAIN rows : rows[i].filePath \in Names(more)
    BY <1>4, <1>7, <1>8 DEF Names
  <2> QED BY <2>1, <2>2, <2>3 DEF Names
<1>12. ASSUME NEW f \in Names(rows), NEW g \in Names(rows), Above(more, f, g)
       PROVE  Above(rows, f, g)
  <2>1. PICK i, j \in DOMAIN more : i < j /\ more[i].filePath = f /\ more[j].filePath = g
    BY <1>12 DEF Above
  <2>2. i # p /\ j # p
    BY <1>9, <2>1
  <2>3. more[i] = rows[old(i)] /\ more[j] = rows[old(j)] /\ old(i) < old(j)
    BY <1>4, <1>6, <1>8, <2>1, <2>2
  <2>4. old(i) \in DOMAIN rows /\ old(j) \in DOMAIN rows
    BY <1>5, <1>8, <2>2
  <2> QED BY <2>1, <2>3, <2>4 DEF Above
<1> QED BY <1>3, <1>10, <1>11, <1>12

\* What is kept of the first n rows: some of these rows, in their order.
KeptOf(rows, data, n) ==
  /\ rows \in Seq(Item)
  /\ \A i \in DOMAIN rows :
       \E a \in 1..n : rows[i] = contents[a] /\ contents[a].filePath \in data
  /\ \A i, j \in DOMAIN rows :
       i < j => \E a, b \in 1..n : a < b /\ rows[i] = contents[a] /\ rows[j] = contents[b]
  /\ \A a \in 1..n : contents[a].filePath \in data => \E i \in DOMAIN rows : rows[i] = contents[a]

LEMMA KeepOne ==
  ASSUME contents \in Seq(Item), NEW data, NEW n \in 1..Len(contents), NEW rows,
         KeptOf(rows, data, n - 1), contents[n].filePath \in data
  PROVE  KeptOf(Append(rows, contents[n]), data, n)
<1> DEFINE more == Append(rows, contents[n])
<1>1. Len(contents) \in Nat /\ n \in Nat /\ contents[n] \in Item
  OBVIOUS
<1>2. rows \in Seq(Item) /\ DOMAIN rows = 1..Len(rows) /\ Len(rows) \in Nat
  BY DEF KeptOf
<1>3. /\ more \in Seq(Item) /\ DOMAIN more = 1..(Len(rows) + 1)
      /\ more[Len(rows) + 1] = contents[n]
      /\ \A i \in 1..Len(rows) : more[i] = rows[i]
  BY <1>1, <1>2
<1> HIDE DEF more
<1>4. 1..(n - 1) \subseteq 1..n /\ n \in 1..n /\ \A a \in 1..(n - 1) : a < n
  BY <1>1
<1>5. \A i \in DOMAIN more : i \in DOMAIN rows \/ i = Len(rows) + 1
  BY <1>2, <1>3
<1>6. \A i \in DOMAIN more : \E a \in 1..n : more[i] = contents[a] /\ contents[a].filePath \in data
  BY <1>2, <1>3, <1>4, <1>5 DEF KeptOf
<1>7. ASSUME NEW i \in DOMAIN more, NEW j \in DOMAIN more, i < j
      PROVE  \E a, b \in 1..n : a < b /\ more[i] = contents[a] /\ more[j] = contents[b]
  <2>1. i \in DOMAIN rows
    BY <1>2, <1>3, <1>7
  <2>2. CASE j \in DOMAIN rows
    <3>1. PICK a, b \in 1..(n - 1) : a < b /\ rows[i] = contents[a] /\ rows[j] = contents[b]
      BY <1>7, <2>1, <2>2 DEF KeptOf
    <3>2. a \in 1..n /\ b \in 1..n
      BY <1>4
    <3>3. more[i] = rows[i] /\ more[j] = rows[j]
      BY <1>2, <1>3, <2>1, <2>2
    <3> QED BY <3>1, <3>2, <3>3
  <2>3. CASE j = Len(rows) + 1
    <3>1. PICK a \in 1..(n - 1) : rows[i] = contents[a]
      BY <2>1 DEF KeptOf
    <3> QED BY <1>2, <1>3, <1>4, <2>1, <2>3, <3>1
  <2> QED BY <1>5, <2>2, <2>3
<1>8. ASSUME NEW a \in 1..n, contents[a].filePath \in data
      PROVE  \E i \in DOMAIN more : more[i] = contents[a]
  <2>1. CASE a = n
    <3>1. Len(rows) + 1 \in DOMAIN more
      BY <1>2, <1>3
    <3> QED BY <1>3, <2>1, <3>1
  <2>2. CASE a # n
    <3>1. a \in 1..(n - 1)
      BY <1>1, <2>2
    <3>2. PICK i \in DOMAIN rows : rows[i] = contents[a]
      BY <1>8, <3>1 DEF KeptOf
    <3>3. i \in DOMAIN more /\ more[i] = contents[a]
      BY <1>2, <1>3, <3>2
    <3> QED BY <3>3
  <2> QED BY <2>1, <2>2
<1>9. KeptOf(more, data, n)
  BY <1>3, <1>6, <1>7, <1>8 DEF KeptOf
<1> QED BY <1>9 DEF more

LEMMA KeptIsKept ==
  ASSUME contents \in Seq(Item), NEW data
  PROVE  KeptOf(Kept(data), data, Len(contents))
<1> DEFINE N == Len(contents)
           kept == CHOOSE g : IsKeeping(g, data, N)
           S == {k \in Nat : k \in 0..N => KeptOf(kept[k], data, k)}
<1>1. N \in Nat
  OBVIOUS
<1>2. \E g : IsKeeping(g, data, N)
  <2> HIDE DEF N
  <2> QED BY <1>1, KeepingIsDefined
<1>3. kept = [n \in 0..N |-> KeepRound(kept, data, n)]
  BY <1>2 DEF IsKeeping
<1>4. Kept(data) = kept[N]
  BY DEF Kept, KeepRound, IsKeeping
<1> HIDE DEF kept
<1>5. \A n \in 0..N : kept[n] = KeepRound(kept, data, n)
  <2> HIDE DEF N
  <2> QED BY <1>3
<1>6. 0 \in S
  <2>1. kept[0] = <<>>
    BY <1>1, <1>5 DEF KeepRound
  <2>2. KeptOf(<<>>, data, 0)
    BY DEF KeptOf
  <2> QED BY <2>1, <2>2
<1>7. ASSUME NEW k \in S \cap Nat PROVE k + 1 \in S
  <2>1. SUFFICES ASSUME k + 1 \in 0..N PROVE KeptOf(kept[k + 1], data, k + 1)
    OBVIOUS
  <2>2. k \in 0..N /\ k + 1 \in 1..Len(contents) /\ (k + 1) - 1 = k /\ k + 1 # 0
    BY <1>1, <2>1
  <2>3. KeptOf(kept[k], data, k)
    BY <2>2
  <2>4. kept[k + 1] = IF contents[k + 1].filePath \in data THEN Append(kept[k], contents[k + 1])
                      ELSE kept[k]
    BY <1>5, <2>1, <2>2 DEF KeepRound
  <2>5. CASE contents[k + 1].filePath \in data
    BY <2>2, <2>3, <2>4, <2>5, KeepOne
  <2>6. CASE contents[k + 1].filePath \notin data
    <3>1. 1..k \subseteq 1..(k + 1) /\ \A a \in 1..(k + 1) : a \in 1..k \/ a = k + 1
      OBVIOUS
    <3>2. kept[k + 1] = kept[k]
      BY <2>4, <2>6
    <3> HIDE DEF N
    <3>3. KeptOf(kept[k], data, k + 1)
      BY <2>3, <2>6, <3>1 DEF KeptOf
    <3> QED BY <3>2, <3>3
  <2> QED BY <2>5, <2>6
<1>8. N \in S
  <2> HIDE DEF S, N
  <2> QED BY <1>1, <1>6, <1>7, SetInduction
<1> QED BY <1>1, <1>4, <1>8

(* The rows that stay are a list, and in their order.                      *)
LEMMA KeptRows ==
  ASSUME IsList(contents), NEW data
  PROVE  LET rows == Kept(data) IN
         /\ IsList(rows)
         /\ Names(rows) = Names(contents) \cap data
         /\ \A f, g : Above(rows, f, g) => Above(contents, f, g)
<1> DEFINE rows == Kept(data)
<1>1. KeptOf(rows, data, Len(contents))
  BY KeptIsKept DEF IsList
<1> HIDE DEF rows
<1>2. DOMAIN contents = 1..Len(contents) /\ Len(contents) \in Nat
  BY DEF IsList
<1>3. rows \in Seq(Item) /\ DOMAIN rows = 1..Len(rows) /\ Len(rows) \in Nat
  BY <1>1 DEF KeptOf
<1> DEFINE D == DOMAIN contents
<1>4. D = 1..Len(contents)
  BY <1>2
<1>5. /\ \A i \in DOMAIN rows : \E a \in D : rows[i] = contents[a] /\ contents[a].filePath \in data
      /\ \A a \in D : contents[a].filePath \in data => \E i \in DOMAIN rows : rows[i] = contents[a]
  <2> HIDE DEF D
  <2> QED BY <1>1, <1>4 DEF KeptOf
<1>6. \A i, j \in DOMAIN rows :
         i < j => \E a, b \in D : a < b /\ rows[i] = contents[a] /\ rows[j] = contents[b]
  <2> HIDE DEF D
  <2> QED BY <1>1, <1>4 DEF KeptOf
<1>7. \A i, j \in DOMAIN rows : i < j => rows[i].filePath # rows[j].filePath
  <2> SUFFICES ASSUME NEW i \in DOMAIN rows, NEW j \in DOMAIN rows, i < j
               PROVE  rows[i].filePath # rows[j].filePath
    OBVIOUS
  <2>1. PICK a, b \in DOMAIN contents : a < b /\ rows[i] = contents[a] /\ rows[j] = contents[b]
    BY <1>6
  <2>2. a # b
    BY <1>2, <2>1
  <2> QED BY <2>1, <2>2 DEF IsList
<1>8. \A i, j \in DOMAIN rows : rows[i].filePath = rows[j].filePath => i = j
  <2> SUFFICES ASSUME NEW i \in DOMAIN rows, NEW j \in DOMAIN rows,
                      rows[i].filePath = rows[j].filePath
               PROVE  i = j
    OBVIOUS
  <2>1. ~(i < j) /\ ~(j < i)
    BY <1>7
  <2> QED BY <1>3, <2>1
<1>9. Names(rows) = Names(contents) \cap data
  <2>1. \A i \in DOMAIN rows : rows[i].filePath \in Names(contents) \cap data
    BY <1>5 DEF Names
  <2>2. \A a \in D : contents[a].filePath \in data => contents[a].filePath \in Names(rows)
    BY <1>5 DEF Names
  <2> QED BY <2>1, <2>2 DEF Names
<1>10. \A f, g : Above(rows, f, g) => Above(contents, f, g)
  <2> SUFFICES ASSUME NEW f, NEW g, Above(rows, f, g) PROVE Above(contents, f, g)
    OBVIOUS
  <2>1. PICK i, j \in DOMAIN rows : i < j /\ rows[i].filePath = f /\ rows[j].filePath = g
    BY DEF Above
  <2>2. PICK a, b \in D : a < b /\ rows[i] = contents[a] /\ rows[j] = contents[b]
    BY <1>6, <2>1
  <2> QED BY <2>1, <2>2 DEF Above
<1> QED BY <1>3, <1>8, <1>9, <1>10 DEF IsList, rows

\* The rows of base and the first n of the order, those of base as they were.
InsertedIn(rows, base, order, n) ==
  /\ IsList(rows)
  /\ Names(rows) = Names(base) \cup {order[m] : m \in 1..n}
  /\ \A f, g \in Names(base) : Above(rows, f, g) => Above(base, f, g)

LEMMA InsertedRows ==
  ASSUME NEW base, IsList(base), NEW order \in Seq(Files),
         \A m \in 1..Len(order) : order[m] \notin Names(base),
         \A m, n \in 1..Len(order) : m # n => order[m] # order[n]
  PROVE  InsertedIn(Inserted(base, order), base, order, Len(order))
<1> DEFINE N == Len(order)
           after == CHOOSE g : IsInserting(g, base, order, N)
           S == {k \in Nat : k \in 0..N => InsertedIn(after[k], base, order, k)}
<1>1. N \in Nat
  OBVIOUS
<1>2. \E g : IsInserting(g, base, order, N)
  <2> HIDE DEF N
  <2> QED BY <1>1, InsertingIsDefined
<1>3. after = [n \in 0..N |-> InsertRound(after, base, order, n)]
  BY <1>2 DEF IsInserting
<1>4. Inserted(base, order) = after[N]
  BY DEF Inserted, InsertRound, IsInserting
<1> HIDE DEF after
<1>5. \A n \in 0..N : after[n] = InsertRound(after, base, order, n)
  <2> HIDE DEF N
  <2> QED BY <1>3
<1>6. 0 \in S
  <2>1. after[0] = base
    BY <1>1, <1>5 DEF InsertRound
  <2>2. {order[m] : m \in 1..0} = {}
    OBVIOUS
  <2>3. InsertedIn(base, base, order, 0)
    BY <2>2 DEF InsertedIn
  <2> QED BY <2>1, <2>3
<1>7. ASSUME NEW k \in S \cap Nat PROVE k + 1 \in S
  <2>1. SUFFICES ASSUME k + 1 \in 0..N PROVE InsertedIn(after[k + 1], base, order, k + 1)
    OBVIOUS
  <2>2. k \in 0..N /\ k + 1 \in 1..Len(order) /\ (k + 1) - 1 = k /\ k + 1 # 0
    BY <1>1, <2>1
  <2> DEFINE f == order[k + 1]
             rows == after[k]
             more == Insert(rows, ItemOf(f))
  <2>3. InsertedIn(rows, base, order, k)
    BY <2>2
  <2>4. after[k + 1] = more
    BY <1>5, <2>1, <2>2 DEF InsertRound
  <2>5. f \in Files
    BY <2>2
  <2>6. ItemOf(f) \in Item /\ ItemOf(f).filePath = f
    <3> HIDE DEF f
    <3> QED BY <2>5, FilesAssumption DEF ItemOf, Item, Never
  <2>7. \A m \in 1..k : m \in 1..Len(order) /\ m # k + 1
    BY <1>1, <2>2
  <2>8. f \notin {order[m] : m \in 1..k}
    BY <2>2, <2>7
  <2>9. f \notin Names(rows)
    BY <2>2, <2>3, <2>8 DEF InsertedIn
  <2>10. {order[m] : m \in 1..(k + 1)} = {order[m] : m \in 1..k} \cup {f}
    <3>1. \A m \in 1..(k + 1) : m \in 1..k \/ m = k + 1
      OBVIOUS
    <3>2. 1..k \subseteq 1..(k + 1) /\ k + 1 \in 1..(k + 1)
      BY <2>2
    <3> QED BY <3>1, <3>2
  <2> HIDE DEF f, rows
  <2>11. /\ IsList(more)
         /\ Names(more) = Names(rows) \cup {f}
         /\ \A g, h \in Names(rows) : Above(more, g, h) => Above(rows, g, h)
    <3>1. IsList(rows) /\ ItemOf(f).filePath \notin Names(rows)
      BY <2>3, <2>6, <2>9 DEF InsertedIn
    <3> QED BY <2>6, <3>1, InsertOne
  <2> HIDE DEF more
  <2>12. Names(more) = Names(base) \cup {order[m] : m \in 1..(k + 1)}
    BY <2>3, <2>10, <2>11 DEF InsertedIn
  <2>13. \A g, h \in Names(base) : Above(more, g, h) => Above(base, g, h)
    BY <2>3, <2>11 DEF InsertedIn
  <2> QED BY <2>4, <2>11, <2>12, <2>13 DEF InsertedIn
<1>8. N \in S
  <2> HIDE DEF S, N
  <2> QED BY <1>1, <1>6, <1>7, SetInduction
<1> QED BY <1>1, <1>4, <1>8

(* A permutation of a set names each of its elements.                      *)
LEMMA PermutationNamesAll ==
  ASSUME NEW T, IsFiniteSet(T), NEW order \in SetToSeqs(T)
  PROVE  /\ order \in Seq(T) /\ Len(order) = Cardinality(T)
         /\ \A m, n \in 1..Len(order) : m # n => order[m] # order[n]
         /\ {order[m] : m \in 1..Len(order)} = T
<1> DEFINE N == Cardinality(T)
           S == {order[m] : m \in 1..N}
<1>1. N \in Nat
  BY FS_CardinalityType
<1>2. order \in [1..N -> T] /\ \A m, n \in 1..N : m # n => order[m] # order[n]
  BY DEF SetToSeqs
<1> HIDE DEF N
<1>3. order \in Seq(T) /\ Len(order) = N
  BY <1>1, <1>2
<1>4. order \in Bijection(1..N, S)
  <2>1. order \in [1..N -> S]
    BY <1>2
  <2>2. \A f \in S : \E m \in 1..N : order[m] = f
    OBVIOUS
  <2> HIDE DEF S
  <2> QED BY <1>2, <2>1, <2>2 DEF Bijection, Injection, Surjection, IsInjective
<1>5. S \subseteq T
  BY <1>2
<1> HIDE DEF S
<1>6. Cardinality(S) = N
  <2>1. ExistsBijection(1..N, S)
    BY <1>4 DEF ExistsBijection
  <2>2. IsFiniteSet(1..N) /\ Cardinality(1..N) = N
    BY <1>1, UpTo
  <2> QED BY <2>1, <2>2, FS_Bijection
<1>7. S = T
  BY <1>5, <1>6, FS_Subset DEF N
<1> QED BY <1>2, <1>3, <1>7 DEF N, S

(* The model shows what it is given, and moves no row that stays.          *)
LEMMA SetDataShows ==
  ASSUME IsList(contents), NEW data \in SUBSET Files, SetData(data)
  PROVE  /\ IsList(contents')
         /\ Names(contents') = data
         /\ \A f, g \in Names(contents) \cap data : Above(contents', f, g) => Above(contents, f, g)
<1> DEFINE T == data \ Rows
           base == Kept(data)
<1>1. PICK order \in SetToSeqs(T) : contents' = Inserted(base, order)
  BY DEF SetData
<1>2. Rows = Names(contents)
  BY DEF Rows, Names
<1>3. IsFiniteSet(T)
  BY FilesAssumption, FS_Subset
<1>4. /\ order \in Seq(T)
      /\ \A m, n \in 1..Len(order) : m # n => order[m] # order[n]
      /\ {order[m] : m \in 1..Len(order)} = T
  <2> HIDE DEF T
  <2> QED BY <1>3, PermutationNamesAll
<1>5. /\ IsList(base)
      /\ Names(base) = Names(contents) \cap data
      /\ \A f, g : Above(base, f, g) => Above(contents, f, g)
  BY KeptRows
<1> HIDE DEF base
<1>6. \A m \in 1..Len(order) : order[m] \in T
  BY <1>4
<1>7. order \in Seq(Files) /\ \A m \in 1..Len(order) : order[m] \notin Names(base)
  BY <1>2, <1>4, <1>5, <1>6
<1>8. InsertedIn(contents', base, order, Len(order))
  BY <1>1, <1>4, <1>5, <1>7, InsertedRows
<1>9. Names(contents') = data
  BY <1>2, <1>4, <1>5, <1>8 DEF InsertedIn
<1> QED BY <1>5, <1>8, <1>9 DEF InsertedIn

(* With no change left to read, the list is of the reports there are: it   *)
(* was given what was there when it was filled, and what has happened      *)
(* since has been signalled, or missed.                                    *)
ListInv ==
  /\ IsList(contents)
  /\ ~missed /\ ~raised /\ pc \in {"unwatched", "idle"} => Names(contents) = disk

LEMMA ListInit == ASSUME Init PROVE ListInv
<1>1. contents = <<>> /\ pc = "new"
  BY DEF Init
<1>2. <<>> \in Seq(Item) /\ DOMAIN <<>> = {}
  OBVIOUS
<1> QED BY <1>1, <1>2 DEF ListInv, IsList

\* What a change of the directory and a reading of it have in common.
LEMMA ListUntouched ==
  ASSUME ListInv, contents' = contents,
         \/ missed' \/ raised' \/ pc' \notin {"unwatched", "idle"}
         \/ UNCHANGED <<disk, missed, raised>> /\ pc \in {"unwatched", "idle"}
  PROVE  ListInv'
<1>1. IsList(contents')
  BY DEF ListInv
<1>2. ~missed' /\ ~raised' /\ pc' \in {"unwatched", "idle"} => Names(contents') = disk'
  BY DEF ListInv
<1> QED BY <1>1, <1>2 DEF ListInv

LEMMA ChangeIsNoticed == ASSUME PageInv, Changed, pc' = pc PROVE missed' \/ raised' \/ pc' = "new"
  BY DEF PageInv, Changed, Watched

LEMMA FillStep == ASSUME PageInv, ListInv, Fill PROVE ListInv'
<1>1. IsList(contents') /\ Names(contents') = listing
  BY SetDataShows DEF Fill, PageInv, ListInv
<1>2. ~missed' /\ ~raised' => listing = disk'
  BY DEF Fill, PageInv
<1> QED BY <1>1, <1>2 DEF ListInv

LEMMA PageEvents ==
  ASSUME [DesktopNext]_desktopVars
  PROVE  \/ UNCHANGED vars
         \/ Open \/ Fill \/ AddPaths \/ DirectoryChanged \/ DeleteCrashReport \/ DeleteAllCrashReports
         \/ \E f \in Files : NewReport(f) \/ ReportRemoved(f)
<1>1. UNCHANGED vars \/ Next
  BY DEF DesktopNext, ReportsDo, ReportsNext, PageStep, StorageStep, DaemonDoes, desktopVars, allVars
<1> QED BY <1>1 DEF Next, Adapter, PageRuns

LEMMA ListNext == PageInv /\ ListInv /\ [DesktopNext]_desktopVars => ListInv'
<1> SUFFICES ASSUME PageInv, ListInv, [DesktopNext]_desktopVars PROVE ListInv'
  OBVIOUS
<1>1. CASE UNCHANGED vars
  BY <1>1 DEF vars, ListInv
<1>2. CASE Open
  BY <1>2, ListUntouched DEF Open
<1>3. CASE Fill
  BY <1>3, FillStep
<1>4. CASE AddPaths
  BY <1>4, ListUntouched DEF AddPaths
<1>5. CASE DirectoryChanged
  BY <1>5, ListUntouched DEF DirectoryChanged
<1>6. CASE DeleteCrashReport
  <2>1. UNCHANGED <<pc, contents>> /\ pc = "idle"
    BY <1>6 DEF DeleteCrashReport, listVars
  <2>2. IF disk' = disk THEN UNCHANGED <<raised, missed>> ELSE Changed
    BY <1>6 DEF DeleteCrashReport
  <2> QED BY <2>1, <2>2, ChangeIsNoticed, ListUntouched
<1>7. CASE DeleteAllCrashReports
  BY <1>7, ChangeIsNoticed, ListUntouched DEF DeleteAllCrashReports, listVars
<1>8. CASE \E f \in Files : NewReport(f) \/ ReportRemoved(f)
  <2>1. Changed /\ UNCHANGED <<pc, contents>>
    BY <1>8 DEF NewReport, ReportRemoved, listVars
  <2> QED BY <2>1, ChangeIsNoticed, ListUntouched
<1> QED BY <1>1, <1>2, <1>3, <1>4, <1>5, <1>6, <1>7, <1>8, PageEvents

LEMMA ListInvariance == DesktopSpec => []ListInv
<1>1. DesktopInit => ListInv
  BY ListInit DEF DesktopInit, ReportsInit
<1> QED BY <1>1, ListNext, PageInvariance, PTL DEF DesktopSpec

(* Once the page has read all changes it shows the reports there are, each *)
(* once, and their number, whatever order the directory is listed in and   *)
(* however reports come and go; but for changes that come while the page   *)
(* opens (setData, CrashReporterAdapterPrivate).                           *)
THEOREM ListShowsWhatIsThere == DesktopSpec => []ShowsWhatIsThere
<1>1. PageInv /\ ListInv => ShowsWhatIsThere
  <2> SUFFICES ASSUME PageInv, ListInv, pc = "idle", ~raised, ~missed
               PROVE  /\ Rows = disk
                      /\ Len(contents) = Cardinality(disk)
                      /\ reportsToUpload = Cardinality(disk)
    BY DEF ShowsWhatIsThere
  <2>1. Names(contents) = disk /\ IsList(contents)
    BY DEF ListInv
  <2>2. Rows = disk
    BY <2>1 DEF Rows, Names
  <2> QED BY <2>1, <2>2, RowsAreCounted DEF PageInv
<1> QED BY <1>1, PageInvariance, ListInvariance, PTL

(* No row that stays is moved past another (setData).                      *)
THEOREM RowsKeepTheirOrder == DesktopSpec => RowsStay
<1>1. ASSUME PageInv, ListInv, [DesktopNext]_desktopVars, contents' # contents,
             NEW f \in Files, NEW g \in Files, Above(contents, f, g)
      PROVE  ~Above(contents', g, f)
  <2>1. Fill
    BY <1>1, PageEvents DEF vars, Open, AddPaths, DirectoryChanged, DeleteCrashReport,
       DeleteAllCrashReports, NewReport, ReportRemoved, listVars
  <2>2. /\ Names(contents') = listing
        /\ \A h, k \in Names(contents) \cap listing :
             Above(contents', h, k) => Above(contents, h, k)
    BY <1>1, <2>1, SetDataShows DEF Fill, PageInv, ListInv
  <2>3. SUFFICES ASSUME Above(contents', g, f) PROVE FALSE
    OBVIOUS
  <2>4. f \in Names(contents) /\ g \in Names(contents)
    BY <1>1 DEF Above, Names
  <2>5. f \in Names(contents') /\ g \in Names(contents')
    BY <2>3 DEF Above, Names
  <2>6. Above(contents, g, f)
    BY <2>2, <2>3, <2>4, <2>5
  <2>7. PICK i, j \in DOMAIN contents :
          i < j /\ contents[i].filePath = f /\ contents[j].filePath = g
    BY <1>1 DEF Above
  <2>8. PICK k, l \in DOMAIN contents :
          k < l /\ contents[k].filePath = g /\ contents[l].filePath = f
    BY <2>6 DEF Above
  <2>9. i = l /\ j = k
    BY <1>1, <2>7, <2>8 DEF ListInv, IsList
  <2>10. i \in Nat /\ j \in Nat
    BY <1>1, <2>7 DEF ListInv, IsList
  <2> QED BY <2>7, <2>8, <2>9, <2>10
<1>2. PageInv /\ ListInv /\ [DesktopNext]_desktopVars
        => [\A f, g \in Files : Above(contents, f, g) => ~Above(contents', g, f)]_contents
  BY <1>1
<1> QED BY <1>2, PageInvariance, ListInvariance, PTL DEF DesktopSpec, RowsStay

-----------------------------------------------------------------------------
(* The storage monitor                                                     *)

\* The notification that will be replaced, or is about to be saved.
StorageCurrent == IF savedId # 0 THEN savedId ELSE published

(* Why there is one notification: all others are of processes that were    *)
(* killed before they could save its identifier.                           *)
StorageInv ==
  /\ Storage!TypeOK
  /\ mon # "saving" => published = 0
  /\ mon = "saving" /\ savedId # 0 => published = savedId
  /\ Cardinality(shown \ {StorageCurrent}) <= lost

LEMMA StorageBounds ==
  Arguments \subseteq Nat \cup {-1} /\ MaxKills \in Nat /\ MaxId \in Nat
BY StorageAssumption DEF Storage!StorageMonAssumption, Storage!NoArgument

LEMMA StorageInit == ASSUME Storage!Init PROVE StorageInv
<1>1. Storage!TypeOK
  BY StorageBounds DEF Storage!Init, Storage!TypeOK, Storage!DefaultSizeLimit
<1>2. shown \ {StorageCurrent} = {} /\ lost = 0
  BY DEF Storage!Init
<1>3. Cardinality(shown \ {StorageCurrent}) <= lost
  BY <1>2, FS_EmptySet
<1> QED BY <1>1, <1>3 DEF StorageInv, Storage!Init

LEMMA RunStep == ASSUME StorageInv, Storage!Run, disk \subseteq Files PROVE StorageInv'
<1>1. limit' \in Nat \ {0}
  <2>1. PICK a \in Arguments \ {0} : limit' = IF a = -1 THEN 100 ELSE a
    BY DEF Storage!Run, Storage!ParseArguments, Storage!BadArgument, Storage!NoArgument,
       Storage!DefaultSizeLimit
  <2> QED BY <2>1, StorageBounds
<1>2. /\ mon = "off" /\ mon' = "summing" /\ found' = disk
      /\ UNCHANGED <<shown, nextId, published, savedId, kills, lost>>
  BY DEF Storage!Run
<1>3. Storage!TypeOK'
  BY <1>1, <1>2 DEF StorageInv, Storage!TypeOK
<1> QED BY <1>2, <1>3 DEF StorageInv, StorageCurrent

LEMMA LowUsageStep == ASSUME StorageInv, Storage!LowUsage PROVE StorageInv'
<1>1. /\ mon = "summing" /\ mon' = "off" /\ found' = {} /\ limit' = 100
      /\ UNCHANGED <<shown, nextId, published, savedId, kills, lost>>
  BY DEF Storage!LowUsage, Storage!DefaultSizeLimit
<1>2. Storage!TypeOK'
  BY <1>1 DEF StorageInv, Storage!TypeOK
<1> QED BY <1>1, <1>2 DEF StorageInv, StorageCurrent

LEMMA PublishStep == ASSUME StorageInv, Storage!Publish PROVE StorageInv'
<1>1. /\ mon = "summing" /\ mon' = "saving" /\ found' = {} /\ limit' = 100
      /\ shown' = shown \cup {published'}
      /\ UNCHANGED <<savedId, kills, lost>>
  BY DEF Storage!Publish, Storage!DefaultSizeLimit
<1>2. \/ savedId # 0 /\ published' = savedId /\ nextId' = nextId
      \/ savedId = 0 /\ nextId <= MaxId /\ published' = nextId /\ nextId' = nextId + 1
  BY DEF Storage!Publish
<1>3. published' \in 1..MaxId /\ nextId' \in 1..MaxId + 1
  BY <1>2, StorageBounds DEF StorageInv, Storage!TypeOK
<1>4. Storage!TypeOK'
  BY <1>1, <1>3, StorageBounds DEF StorageInv, Storage!TypeOK
<1>5. shown \in SUBSET (1..MaxId) /\ MaxId \in Nat /\ lost \in Nat
  BY StorageBounds DEF StorageInv, Storage!TypeOK
<1>6. Cardinality(shown' \ {StorageCurrent'}) <= lost'
  <2>1. StorageCurrent' = published' /\ shown' \ {StorageCurrent'} \subseteq shown \ {StorageCurrent}
    BY <1>1, <1>2, <1>3, <1>5 DEF StorageCurrent, StorageInv
  <2>2. IsFiniteSet(shown \ {StorageCurrent}) /\ Cardinality(shown \ {StorageCurrent}) \in Nat
    BY <1>5, OthersShown, FS_Subset
  <2>3. Cardinality(shown' \ {StorageCurrent'}) <= Cardinality(shown \ {StorageCurrent})
        /\ Cardinality(shown' \ {StorageCurrent'}) \in Nat
    BY <2>1, <2>2, FS_Subset, FS_CardinalityType
  <2> QED BY <1>1, <1>5, <2>2, <2>3 DEF StorageInv
<1> QED BY <1>1, <1>2, <1>4, <1>6 DEF StorageInv

LEMMA SaveIdStep == ASSUME StorageInv, Storage!SaveId PROVE StorageInv'
<1>1. /\ mon = "saving" /\ mon' = "off" /\ savedId' = published /\ published' = 0
      /\ UNCHANGED <<limit, found, shown, nextId, kills, lost>>
  BY DEF Storage!SaveId
<1>2. Storage!TypeOK'
  BY <1>1, StorageBounds DEF StorageInv, Storage!TypeOK
<1>3. StorageCurrent' = StorageCurrent
  BY <1>1 DEF StorageInv, StorageCurrent
<1> QED BY <1>1, <1>2, <1>3 DEF StorageInv

LEMMA StorageKilledStep == ASSUME StorageInv, Storage!Killed PROVE StorageInv'
<1>1. /\ mon # "off" /\ kills < MaxKills
      /\ mon' = "off" /\ found' = {} /\ published' = 0 /\ limit' = 100 /\ kills' = kills + 1
      /\ lost' = IF mon = "saving" /\ savedId = 0 THEN lost + 1 ELSE lost
      /\ UNCHANGED <<shown, nextId, savedId>>
  BY DEF Storage!Killed, Storage!DefaultSizeLimit
<1>2. shown \in SUBSET (1..MaxId) /\ MaxId \in Nat /\ lost \in Nat /\ kills \in Nat
  BY StorageBounds DEF StorageInv, Storage!TypeOK
<1>3. Storage!TypeOK'
  BY <1>1, StorageBounds DEF StorageInv, Storage!TypeOK
<1>4. Cardinality(shown \ {StorageCurrent}) \in Nat /\ Cardinality(shown \ {StorageCurrent'}) \in Nat
  BY <1>2, OthersShown
<1>5. Cardinality(shown \ {StorageCurrent'}) <= lost'
  <2>1. CASE mon = "saving" /\ savedId = 0
    <3>1. StorageCurrent' = 0 /\ shown \ {StorageCurrent'} = shown
      BY <1>1, <1>2, <2>1 DEF StorageCurrent
    <3>2. Cardinality(shown) <= Cardinality(shown \ {StorageCurrent}) + 1 /\ Cardinality(shown) \in Nat
      BY <1>2, OthersShown
    <3> QED BY <1>1, <1>2, <1>4, <2>1, <3>1, <3>2 DEF StorageInv
  <2>2. CASE ~(mon = "saving" /\ savedId = 0)
    <3>1. StorageCurrent' = StorageCurrent
      BY <1>1, <2>2 DEF StorageCurrent, StorageInv
    <3> QED BY <1>1, <2>2, <3>1 DEF StorageInv
  <2> QED BY <2>1, <2>2
<1> QED BY <1>1, <1>3, <1>5 DEF StorageInv

LEMMA StorageDismissedStep == ASSUME StorageInv, Storage!Dismissed PROVE StorageInv'
<1>1. /\ UNCHANGED <<mon, limit, found, nextId, published, savedId, kills, lost>>
      /\ shown' \subseteq shown
  BY DEF Storage!Dismissed
<1>2. shown \in SUBSET (1..MaxId) /\ MaxId \in Nat /\ lost \in Nat
  BY StorageBounds DEF StorageInv, Storage!TypeOK
<1>3. Storage!TypeOK'
  BY <1>1 DEF StorageInv, Storage!TypeOK
<1>4. StorageCurrent' = StorageCurrent
  BY <1>1 DEF StorageCurrent
<1>5. /\ Cardinality(shown' \ {StorageCurrent}) <= Cardinality(shown \ {StorageCurrent})
      /\ Cardinality(shown \ {StorageCurrent}) \in Nat /\ Cardinality(shown' \ {StorageCurrent}) \in Nat
  BY <1>1, <1>2, OthersShown
<1>6. Cardinality(shown' \ {StorageCurrent'}) <= lost'
  BY <1>1, <1>2, <1>4, <1>5 DEF StorageInv
<1> QED BY <1>1, <1>3, <1>6 DEF StorageInv

LEMMA StorageNext == StorageInv /\ PageInv /\ [DesktopNext]_desktopVars => StorageInv'
<1> SUFFICES ASSUME StorageInv, PageInv, [DesktopNext]_desktopVars PROVE StorageInv'
  OBVIOUS
<1>1. CASE UNCHANGED storageVars
  BY <1>1 DEF storageVars, StorageInv, Storage!TypeOK, StorageCurrent
<1>2. CASE Storage!Next
  <2>1. disk \subseteq Files
    BY DEF PageInv
  <2> QED BY <1>2, <2>1, RunStep, LowUsageStep, PublishStep, SaveIdStep, StorageKilledStep,
             StorageDismissedStep DEF Storage!Next, Storage!Process
<1> QED BY <1>1, <1>2 DEF DesktopNext, ReportsDo, ReportsNext, PageStep, StorageStep, DaemonDoes,
                          desktopVars, allVars

LEMMA StorageInvariance == DesktopSpec => []StorageInv
<1>1. DesktopInit => StorageInv
  BY StorageInit DEF DesktopInit, ReportsInit
<1> QED BY <1>1, StorageNext, PageInvariance, PTL DEF DesktopSpec

(* The state of the storage monitor and of its notification is of its type *)
(* at all times.                                                           *)
THEOREM StorageTypeCorrect == DesktopSpec => []Storage!TypeOK
<1>1. StorageInv => Storage!TypeOK
  BY DEF StorageInv
<1> QED BY <1>1, StorageInvariance, PTL

(* There is one storage notification, and one more for each time the       *)
(* process was killed before the identifier of its first was saved, for    *)
(* any number of runs, kills and limits (checkStorageUsage).               *)
THEOREM WarnsOnce == DesktopSpec => []OneNotification
<1>1. ASSUME StorageInv PROVE OneNotification
  <2>1. shown \in SUBSET (1..MaxId) /\ MaxId \in Nat /\ lost \in Nat
    BY <1>1, StorageBounds DEF StorageInv, Storage!TypeOK
  <2>2. /\ Cardinality(shown) \in Nat /\ Cardinality(shown \ {StorageCurrent}) \in Nat
        /\ Cardinality(shown) <= Cardinality(shown \ {StorageCurrent}) + 1
    BY <2>1, OthersShown
  <2>3. Cardinality(shown) <= 1 + lost
    BY <1>1, <2>1, <2>2 DEF StorageInv
  <2>4. \A S : Storage!Cardinality(S) = Cardinality(S)
    BY DEF Storage!Cardinality, Cardinality
  <2> QED BY <2>3, <2>4 DEF OneNotification, Storage!OneNotification
<1> QED BY <1>1, StorageInvariance, PTL

(* Types, of the page, the storage monitor and the daemon together.        *)
THEOREM DesktopTypeCorrect == DesktopSpec => []DesktopTypeOK
<1>1. DesktopSpec => [](turn \in {"reports", "daemon"})
  <2>1. DesktopInit => turn \in {"reports", "daemon"}
    BY DEF DesktopInit
  <2>2. turn \in {"reports", "daemon"} /\ [DesktopNext]_desktopVars => (turn \in {"reports", "daemon"})'
    BY DEF DesktopNext, ReportsDo, DaemonDoes, desktopVars
  <2> QED BY <2>1, <2>2, PTL DEF DesktopSpec
<1>2. PageInv /\ ListInv => TypeOK
  BY DEF PageInv, ListInv, IsList, TypeOK
<1>3. turn \in {"reports", "daemon"} /\ TypeOK /\ Storage!TypeOK /\ CrashDaemon!TypeOK
        => DesktopTypeOK
  BY DEF DesktopTypeOK, ReportsTypeOK
<1> QED BY <1>1, <1>2, <1>3, PageInvariance, ListInvariance, StorageTypeCorrect,
           DaemonTypeCorrect, PTL
=============================================================================
