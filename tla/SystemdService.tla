---------------------------- MODULE SystemdService ----------------------------
(***************************************************************************)
(* A systemd unit as the settings page shows and switches it:              *)
(* SystemdService, SystemdServicePrivate and the switch that uses them.    *)
(*                                                                         *)
(* Calls to systemd are asynchronous; its answers and signals come in the  *)
(* order it sent them, and a handler that reads a property asks systemd    *)
(* and waits, so it may learn of changes whose signals are still queued.   *)
(***************************************************************************)
EXTENDS Naturals, Sequences

CONSTANT MaxQueue    \* bound: no click and no other's step with as many messages about

SystemdAssumption == MaxQueue \in Nat

VARIABLES
  created,      \* componentComplete() has run, signals of the manager arrive
  unit,         \* d->unit # 0: the path is known, signals of the unit arrive
  state,        \* d->state
  timer,        \* unitStateTimer runs
  shown,        \* enabled and masked as read at the last change notification
  inbox,        \* from systemd, oldest first
  calls,        \* to systemd, oldest first
  systemd,      \* the unit in systemd
  wanted,       \* what the user asked for with the last click that was heeded
  disturbed     \* history: something failed, or somebody else used the unit

vars == <<created, unit, state, timer, shown, inbox, calls, systemd, wanted, disturbed>>

ActiveStates == {"inactive", "failed", "activating", "active", "reloading", "deactivating"}
States       == {"Inactive", "Activating", "Active", "Deactivating"}
Messages     == {"UnitPath", "LoadError", "ActiveState", "UnitFileState",
                 "UnitNew", "UnitRemoved", "MaskingChanged", "Reloaded"}
Methods      == {"LoadUnit", "Start", "Stop", "Enable", "Disable", "Mask", "Unmask", "Reload"}

(* A unit that is not loaded is inactive.  masked follows maskFile when    *)
(* systemd reloads, without a signal.                                      *)
Systemd == [loaded : BOOLEAN, active : ActiveStates, job : {"none", "start", "stop"},
            enabled : BOOLEAN, maskFile : BOOLEAN, masked : BOOLEAN]

Down == {"inactive", "failed"}

TypeOK ==
  /\ created \in BOOLEAN /\ unit \in BOOLEAN /\ timer \in BOOLEAN
  /\ state \in States
  /\ shown \in [enabled : BOOLEAN, masked : BOOLEAN]
  /\ inbox \in Seq(Messages)
  /\ calls \in Seq(Methods)
  /\ systemd \in Systemd
  /\ wanted \in {"none", "on", "off"}
  /\ disturbed \in BOOLEAN

-----------------------------------------------------------------------------
(* What the service makes of it                                            *)

\* fault: the state is kept as systemd spells it.
StateOfSpelling(active) == active

(* changeState(): the state for an ActiveState of systemd.                 *)
StateOf(active) ==
  CASE active \in {"active", "reloading"} -> "Active"
    [] active = "activating"              -> "Activating"
    [] active = "deactivating"            -> "Deactivating"
    [] OTHER                              -> "Inactive"

\* The properties enabled and masked: false while there is no unit.
Enabled == unit /\ systemd.enabled
Masked  == unit /\ systemd.masked

(* The switch is checked and busy by the state of the service.             *)
Checked == state # "Inactive"
Busy    == state \in {"Activating", "Deactivating"}

-----------------------------------------------------------------------------
(* systemd                                                                 *)

(* A message reaches the service if it listens.  Signals of the unit are   *)
(* heard once its path is known.                                           *)
Hears(m) == IF m \in {"ActiveState", "UnitFileState"} THEN unit ELSE created

Told(m) == IF Hears(m) THEN Append(inbox, m) ELSE inbox

(* The first change of a unit just loaded is told by UnitNew and by        *)
(* nothing else, as the comment in initializeDBusInterface() notes.        *)
ActiveBecomes(a, job) ==
  /\ systemd' = [systemd EXCEPT !.active = a, !.job = job, !.loaded = TRUE]
  /\ inbox' = Told(IF systemd.loaded THEN "ActiveState" ELSE "UnitNew")

EnabledBecomes(e) ==
  /\ systemd' = [systemd EXCEPT !.enabled = e]
  /\ inbox' = IF systemd.enabled = e THEN inbox ELSE Told("UnitFileState")

MaskFileBecomes(m) ==
  /\ systemd' = [systemd EXCEPT !.maskFile = m]
  /\ inbox' = Told("MaskingChanged")

(* One call is answered.  The service does nothing about an error but to   *)
(* warn of it: there it is an answer without effect.                       *)
Answer ==
  /\ calls # <<>>
  /\ calls' = Tail(calls)
  /\ LET c == Head(calls) IN
       \/ /\ c = "LoadUnit"
          /\ \E m \in {"UnitPath", "LoadError"} : inbox' = Told(m)
          /\ UNCHANGED systemd
       \/ /\ c \in {"Start", "Stop"}
          /\ systemd' = [systemd EXCEPT !.job = IF c = "Start" THEN "start" ELSE "stop"]
          /\ UNCHANGED inbox
       \/ c \in {"Enable", "Disable"} /\ EnabledBecomes(c = "Enable")
       \/ c \in {"Mask", "Unmask"} /\ MaskFileBecomes(c = "Mask")
       \/ /\ c = "Reload"
          /\ systemd' = [systemd EXCEPT !.masked = systemd.maskFile]
          /\ inbox' = Told("Reloaded")
  /\ UNCHANGED <<created, unit, state, timer, shown, wanted, disturbed>>

AnswerError ==
  /\ calls # <<>> /\ Head(calls) # "LoadUnit"
  /\ calls' = Tail(calls)
  /\ disturbed' = TRUE
  /\ UNCHANGED <<created, unit, state, timer, shown, inbox, systemd, wanted>>

\* A job takes the unit one step on; a job that is done already is dropped.
Work ==
  /\ LET a == systemd.active IN
       \/ systemd.job = "start" /\ a \in Down /\ ActiveBecomes("activating", "start")
       \/ systemd.job = "start" /\ a = "activating" /\ ActiveBecomes("active", "none")
       \/ systemd.job = "stop" /\ a \notin Down \cup {"deactivating"} /\ ActiveBecomes("deactivating", "stop")
       \/ a = "deactivating"
          /\ ActiveBecomes("inactive", IF systemd.job = "start" THEN "start" ELSE "none")
       \/ a = "reloading" /\ systemd.job # "stop" /\ ActiveBecomes("active", systemd.job)
       \/ /\ <<systemd.job, a>> \in {<<"start", "active">>} \cup {"stop"} \X Down
          /\ systemd' = [systemd EXCEPT !.job = "none"]
          /\ UNCHANGED inbox
  /\ UNCHANGED <<created, unit, state, timer, shown, calls, wanted, disturbed>>

\* The unit ends by itself, or does not come up.
Fail ==
  /\ Len(inbox) < MaxQueue
  /\ systemd.active \in {"activating", "active"}
  /\ ActiveBecomes("failed", "none")
  /\ disturbed' = TRUE
  /\ UNCHANGED <<created, unit, state, timer, shown, calls, wanted>>

\* An inactive unit nobody uses is unloaded.
Unload ==
  /\ systemd.loaded /\ systemd.active \in Down /\ systemd.job = "none"
  /\ Len(inbox) < MaxQueue
  /\ systemd' = [systemd EXCEPT !.loaded = FALSE, !.active = "inactive"]
  /\ inbox' = Told("UnitRemoved")
  /\ UNCHANGED <<created, unit, state, timer, shown, calls, wanted, disturbed>>

\* Another user of systemd.
Other ==
  /\ Len(inbox) < MaxQueue
  /\ \/ /\ \E j \in {"start", "stop"} : systemd' = [systemd EXCEPT !.job = j]
        /\ UNCHANGED inbox
     \/ systemd.active = "active" /\ ActiveBecomes("reloading", systemd.job)
     \/ EnabledBecomes(~systemd.enabled)
  /\ disturbed' = TRUE
  /\ UNCHANGED <<created, unit, state, timer, shown, calls, wanted>>

-----------------------------------------------------------------------------
(* The service.  A handler that reads a property has its answer behind     *)
(* those to all earlier calls: it runs when they have been answered.       *)

Init ==
  /\ created = FALSE /\ unit = FALSE /\ timer = FALSE
  /\ state = "Inactive"
  /\ shown = [enabled |-> FALSE, masked |-> FALSE]
  /\ inbox = <<>> /\ calls = <<>>
  /\ wanted = "none" /\ disturbed = FALSE
  /\ \E up \in BOOLEAN, m \in BOOLEAN :
       systemd = [loaded |-> up, active |-> IF up THEN "active" ELSE "inactive",
                  job |-> "none", enabled |-> up, maskFile |-> m, masked |-> m]

(* componentComplete() and initializeDBusInterface(): Reload and Subscribe *)
(* are waited for, the unit's path is not.                                 *)
ComponentComplete ==
  /\ ~created /\ calls = <<>>
  /\ created' = TRUE
  /\ calls' = <<"LoadUnit">>
  /\ systemd' = [systemd EXCEPT !.masked = systemd.maskFile]
  /\ UNCHANGED <<unit, state, timer, shown, inbox, wanted, disturbed>>

\* The page is left: the object goes, what it has called for stays, and the
\* answer to LoadUnit is not heard.
Destroyed ==
  /\ created /\ Len(calls) < MaxQueue
  /\ created' = FALSE /\ unit' = FALSE /\ timer' = FALSE
  /\ state' = "Inactive"
  /\ shown' = [enabled |-> FALSE, masked |-> FALSE]
  /\ inbox' = <<>>
  /\ UNCHANGED <<calls, systemd, wanted, disturbed>>

\* Takes the message m off the inbox.
Receive(m) ==
  /\ created /\ inbox # <<>> /\ Head(inbox) = m
  /\ inbox' = Tail(inbox)
  /\ UNCHANGED <<created, systemd, wanted, disturbed>>

(* gotUnitPath(): connects to the unit first, then reads it.               *)
GotUnitPath ==
  /\ Receive("UnitPath") /\ calls = <<>>
  /\ unit' = TRUE
  /\ state' = StateOf(systemd.active)
  /\ shown' = [enabled |-> systemd.enabled, masked |-> systemd.masked]
  /\ UNCHANGED <<timer, calls>>

GotNoUnitPath ==
  /\ Receive("LoadError")
  /\ UNCHANGED <<unit, state, timer, shown, calls>>

(* propertiesChanged(): reads what is said to have changed.                *)
PropertiesChanged ==
  \/ /\ Receive("ActiveState") /\ calls = <<>>
     /\ state' = StateOf(systemd.active)
     /\ UNCHANGED <<unit, timer, shown, calls>>
  \/ /\ Receive("UnitFileState") /\ calls = <<>>
     /\ shown' = [shown EXCEPT !.enabled = Enabled]
     /\ UNCHANGED <<unit, state, timer, calls>>

\* fault: a unit that appears is looked at once its properties change.
HandleUnitNewWaits ==
  /\ Receive("UnitNew")
  /\ UNCHANGED <<unit, state, timer, shown, calls>>

HandleUnitNew ==
  /\ Receive("UnitNew")
  /\ timer' = TRUE
  /\ UNCHANGED <<unit, state, shown, calls>>

HandleUnitRemoved ==
  /\ Receive("UnitRemoved")
  /\ timer' = FALSE
  /\ UNCHANGED <<unit, state, shown, calls>>

(* checkUnitState(), a tenth of a second after the unit appeared.          *)
CheckUnitState ==
  /\ timer /\ calls = <<>>
  /\ timer' = FALSE
  /\ state' = IF unit THEN StateOf(systemd.active) ELSE state
  /\ UNCHANGED <<created, unit, shown, inbox, calls, systemd, wanted, disturbed>>

\* maskingChanged(), if the call was successful: reload().
MaskingChanged ==
  /\ Receive("MaskingChanged")
  /\ calls' = Append(calls, "Reload")
  /\ UNCHANGED <<unit, state, timer, shown>>

\* fault: leaves it to systemd to tell of masking.
ReloadedSilently ==
  /\ Receive("Reloaded") /\ calls = <<>>
  /\ UNCHANGED <<unit, state, timer, shown, calls>>

\* reloaded(): systemd does not tell of LoadState, the service does.
Reloaded ==
  /\ Receive("Reloaded") /\ calls = <<>>
  /\ shown' = [shown EXCEPT !.masked = Masked]
  /\ UNCHANGED <<unit, state, timer, calls>>

-----------------------------------------------------------------------------
(* The user                                                                *)

\* fault: a unit on its way up is not stopped.
StopWhenUp(cs) == IF state \in {"Inactive", "Activating"} THEN cs ELSE Append(cs, "Stop")

\* start() and stop() do nothing about a unit that is there already.
Start(cs) == IF state \in {"Active", "Activating"} THEN cs ELSE Append(cs, "Start")
Stop(cs)  == IF state = "Inactive" THEN cs ELSE Append(cs, "Stop")

SetEnabled(cs, e) == Append(cs, IF e THEN "Enable" ELSE "Disable")

(* A click on the switch; without a unit every call is refused.            *)
Click ==
  /\ created /\ unit
  /\ Len(inbox) + Len(calls) < MaxQueue
  /\ calls' = IF Checked THEN SetEnabled(Stop(calls), FALSE) ELSE SetEnabled(Start(calls), TRUE)
  /\ wanted' = IF Checked THEN "off" ELSE "on"
  /\ UNCHANGED <<created, unit, state, timer, shown, inbox, systemd, disturbed>>

\* setMasked(), which asks systemd what is masked before it goes on.
SetMasked(m) ==
  /\ created /\ unit /\ calls = <<>>
  /\ Len(inbox) < MaxQueue
  /\ Masked # m
  /\ calls' = Append(calls, IF m THEN "Mask" ELSE "Unmask")
  /\ UNCHANGED <<created, unit, state, timer, shown, inbox, systemd, wanted, disturbed>>

-----------------------------------------------------------------------------

Handlers ==
  \/ GotUnitPath \/ GotNoUnitPath \/ PropertiesChanged
  \/ HandleUnitNew \/ HandleUnitRemoved \/ CheckUnitState
  \/ MaskingChanged \/ Reloaded

Next ==
  \/ Answer \/ AnswerError \/ Work \/ Fail \/ Unload \/ Other
  \/ ComponentComplete \/ Destroyed \/ Handlers
  \/ Click
  \/ \E m \in BOOLEAN : SetMasked(m)

Spec == Init /\ [][Next]_vars

(* systemd answers and carries out its jobs; the event loop goes on.  The  *)
(* fairness of the handlers is strong, since a handler that waits for an   *)
(* answer keeps the user from clicking meanwhile.                          *)
FairSpec == Spec /\ WF_vars(Answer) /\ WF_vars(Work) /\ SF_vars(Handlers)

-----------------------------------------------------------------------------
(* Properties                                                              *)

Quiet == inbox = <<>> /\ ~timer

(* When the last signal has been handled the switch shows what the unit    *)
(* does, even though each signal made the service read a state newer than  *)
(* the signal, a new unit sends no property change, and the first state is *)
(* a guess (gotUnitPath, propertiesChanged, checkUnitState).               *)
QuietMeansRight ==
  unit /\ Quiet =>
    /\ Checked <=> systemd.active \notin Down
    /\ Busy <=> systemd.active \in {"activating", "deactivating"}

(* What the page shows of enabling and masking is what systemd has, once   *)
(* calls and signals are through (gotUnitPath, propertiesChanged,          *)
(* reloaded); LoadState changes without a signal.                          *)
ShownIsTrue ==
  unit /\ inbox = <<>> /\ calls = <<>> =>
    shown = [enabled |-> systemd.enabled, masked |-> systemd.masked]

(* The unit and its enabling end up as the last click on the switch wanted *)
(* them, however many clicks came before their effect was seen; start()    *)
(* and stop() ignore clicks by a state that may be out of date.            *)
SwitchAgrees ==
  /\ ~disturbed /\ wanted # "none"
  /\ inbox = <<>> /\ calls = <<>> /\ systemd.job = "none" /\ systemd.active # "deactivating"
  => /\ systemd.enabled <=> wanted = "on"
     /\ systemd.active = "active" <=> wanted = "on"

(* The switch is not busy for ever: after a click it comes to rest, or is  *)
(* clicked again or left (start, stop, propertiesChanged).                 *)
ClickSettles ==
  /\ (wanted = "on" /\ unit) ~> (state = "Active" \/ wanted = "off" \/ ~unit \/ disturbed)
  /\ (wanted = "off" /\ unit) ~> (state = "Inactive" \/ wanted = "on" \/ ~unit \/ disturbed)
=============================================================================
