------------------------------- MODULE Services -------------------------------
(***************************************************************************)
(* The services that make reports without a crash, the journal spy and the *)
(* endurance collector, and the switches with which the settings page      *)
(* turns services on and off: one that sets the mark of such a service,    *)
(* and one for the unit of the daemon.                                     *)
(*                                                                         *)
(* The four share no state: what one does, it may do whatever the others   *)
(* do meanwhile.  So every property is one of a single part, and it is     *)
(* enough to look at each part with the others at rest.  turn is the part  *)
(* that runs.                                                              *)
(***************************************************************************)
EXTENDS JournalSpy

CONSTANTS
  SnapshotsToPack, MinSessionLength, MaxBoots, MaxSnapshots,
  MaxQueue

VARIABLES
  turn,
  daemon, kernel, mce, script, disk, boot,
  created, unit, state, timer, shown, inbox, calls, systemd, wanted, disturbed,
  mark, page, checked, job, service, astray

collectorVars == <<daemon, kernel, mce, script, disk, boot>>
switchVars == <<created, unit, state, timer, shown, inbox, calls, systemd, wanted, disturbed>>
markVars == <<mark, page, checked, job, service, astray>>
allVars == <<turn, vars, collectorVars, switchVars, markVars>>

Collector == INSTANCE Endurance
Switch    == INSTANCE SystemdService
Marks     == INSTANCE ServiceMark

ASSUME CollectorAssumption == Collector!EnduranceAssumption
ASSUME SwitchAssumption == Switch!SystemdAssumption

(* Type correctness of the four parts.                                     *)
ServicesTypeOK ==
  /\ turn \in {"spy", "collector", "switch", "marks"}
  /\ TypeOK /\ Collector!TypeOK /\ Switch!TypeOK /\ Marks!TypeOK

\* A part at rest is in any one of its initial states.
ServicesInit ==
  /\ turn \in {"spy", "collector", "switch", "marks"}
  /\ turn # "spy" => file = <<>>
  /\ Init /\ Collector!Init /\ Switch!Init /\ Marks!Init
  /\ turn # "switch" => ~systemd.loaded /\ ~systemd.maskFile
  /\ turn # "marks" => ~mark

Alone(part) == turn = part /\ UNCHANGED turn

SpyStep       == Alone("spy") /\ Next /\ UNCHANGED <<collectorVars, switchVars, markVars>>
CollectorStep == Alone("collector") /\ Collector!Next /\ UNCHANGED <<vars, switchVars, markVars>>
SwitchStep    == Alone("switch") /\ Switch!Next /\ UNCHANGED <<vars, collectorVars, markVars>>
MarksStep     == Alone("marks") /\ Marks!Next /\ UNCHANGED <<vars, collectorVars, switchVars>>

ServicesNext == SpyStep \/ CollectorStep \/ SwitchStep \/ MarksStep

\* What is assumed of each part, with the others unchanged.
CollectorDoes(A) == Alone("collector") /\ A /\ UNCHANGED <<vars, switchVars, markVars>>
SwitchDoes(A)    == Alone("switch") /\ A /\ UNCHANGED <<vars, collectorVars, markVars>>

ServicesFairness ==
  /\ WF_allVars(CollectorDoes(Collector!DaemonStep))
  /\ WF_allVars(CollectorDoes(Collector!ScriptStep))
  /\ WF_allVars(CollectorDoes(Collector!HeartbeatComes))
  /\ WF_allVars(CollectorDoes(Collector!KeepaliveEnds))
  /\ WF_allVars(SwitchDoes(Switch!Answer))
  /\ WF_allVars(SwitchDoes(Switch!Work))
  /\ SF_allVars(SwitchDoes(Switch!Handlers))

ServicesSpec == ServicesInit /\ [][ServicesNext]_allVars /\ ServicesFairness

-----------------------------------------------------------------------------
(* Properties of the collector and of the switches; see their modules, and *)
(* JournalSpy for those of the spy                                         *)

(* The device does not go to sleep under a collection (endurancecollect's  *)
(* main).                                                                  *)
StaysAwake == Collector!StaysAwake

(* Nothing keeps the device awake after one (endurancecollect's main).     *)
LetsSleep == Collector!LetsSleep

(* A report is of one session, wherever the script was interrupted         *)
(* (endurance-collect).                                                    *)
OneSession == Collector!OneSession

(* Snapshots go on being taken (endurancecollect's main).                  *)
SnapshotsGoOn == Collector!SnapshotsGoOn

(* The switch shows what the unit does, once the service has handled all   *)
(* it was sent (SystemdServicePrivate).                                    *)
QuietMeansRight == Switch!QuietMeansRight

(* The page shows the enabling and masking that systemd has, once calls    *)
(* and signals are through (SystemdServicePrivate).                        *)
ShownIsTrue == Switch!ShownIsTrue

(* The unit and its enabling end up as the last click wanted them          *)
(* (SystemdService::start, stop, setEnabled).                              *)
SwitchAgrees == Switch!SwitchAgrees

(* A click takes effect in the end (SystemdService::start, stop).          *)
ClickSettles == Switch!ClickSettles

(* The unit runs if and only if its mark is there, once a click is through *)
(* and after every boot (setEnduranceEnabled, runServiceHelper).           *)
RunsAsMarked == Marks!RunsAsMarked
=============================================================================
