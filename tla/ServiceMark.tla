----------------------------- MODULE ServiceMark -----------------------------
(***************************************************************************)
(* How the settings page turns the journal spy, or the endurance           *)
(* collector, on and off.  It creates or removes a mark, a file that the   *)
(* ConditionPathExists of the unit asks for, and then has a helper start   *)
(* or stop the unit.  The unit has Restart=always and is wanted by         *)
(* multi-user.target, so systemd comes back to the mark by itself.         *)
(***************************************************************************)

VARIABLES
  mark,         \* the file exists
  page,         \* where the page is with a click
  checked,      \* the page's switch
  job,          \* of systemd for the unit
  service,      \* the unit
  astray        \* history: what was clicked last has not been done

vars == <<mark, page, checked, job, service, astray>>

TypeOK ==
  /\ mark \in BOOLEAN /\ checked \in BOOLEAN /\ astray \in BOOLEAN
  /\ page \in {"closed", "idle", "marked", "waiting"}
  /\ job \in {"none", "start", "stop"}
  /\ service \in {"inactive", "active", "restarting"}

\* What becomes of a unit that systemd starts: without the mark, nothing.
Conditioned == IF mark THEN "active" ELSE "inactive"

Init ==
  /\ mark \in BOOLEAN
  /\ page = "closed" /\ checked = FALSE
  /\ job = "none" /\ service = Conditioned
  /\ astray = FALSE

-----------------------------------------------------------------------------
(* The page                                                                *)

\* The page is loaded, with a switch that shows the mark.
PageOpens ==
  /\ page = "closed" /\ page' = "idle"
  /\ checked' = mark
  /\ UNCHANGED <<mark, job, service, astray>>

\* fault: a mark is made but never removed.
MarkedForGood(value) == mark \/ value

\* setEnduranceEnabled() and setJournalSpyEnabled(), if the file lets them.
Marked(value) == value

(* The switch is turned over, and the mark set to it: from then on the     *)
(* switch is on its own.  Nobody looks whether the file could be made or   *)
(* removed.                                                                *)
Click ==
  /\ page = "idle" /\ page' = "marked"
  /\ checked' = ~checked
  /\ \E done \in BOOLEAN :
       /\ mark' = IF done THEN Marked(checked') ELSE mark
       /\ astray' = (~done /\ mark # checked')
  /\ UNCHANGED <<job, service>>

(* runServiceHelper() and the helper's main(): systemctl is run and waited *)
(* for.  A job that systemd still has gives way to the new one.            *)
RunServiceHelper ==
  /\ page = "marked" /\ page' = "waiting"
  /\ job' = IF checked THEN "start" ELSE "stop"
  /\ UNCHANGED <<mark, checked, service, astray>>

\* The helper cannot be run, or is refused; nobody looks at its result.
HelperFails ==
  /\ page = "marked" /\ page' = "idle"
  /\ astray' = TRUE
  /\ UNCHANGED <<mark, checked, job, service>>

\* Closed between two clicks, or killed at any time; the helper goes on.
PageEnds ==
  /\ page # "closed" /\ page' = "closed"
  /\ astray' = (astray \/ page = "marked")
  /\ UNCHANGED <<mark, checked, job, service>>

-----------------------------------------------------------------------------
(* systemd                                                                 *)

JobDone ==
  /\ job # "none" /\ job' = "none"
  /\ service' = CASE job = "stop" -> "inactive"
                  [] job = "start" /\ service = "active" -> "active"
                  [] OTHER -> Conditioned
  /\ page' = IF page = "waiting" THEN "idle" ELSE page
  /\ UNCHANGED <<mark, checked, astray>>

ServiceEnds ==
  /\ service = "active" /\ service' = "restarting"
  /\ UNCHANGED <<mark, page, checked, job, astray>>

\* Unless it has ended too often.
Restarted ==
  /\ service = "restarting"
  /\ \/ service' = Conditioned /\ UNCHANGED astray
     \/ service' = "inactive" /\ astray' = TRUE
  /\ UNCHANGED <<mark, page, checked, job>>

\* The device restarts, and multi-user.target wants the unit.
Reboot ==
  /\ page' = "closed" /\ job' = "none" /\ astray' = FALSE
  /\ service' = Conditioned
  /\ UNCHANGED <<mark, checked>>

-----------------------------------------------------------------------------

Next ==
  \/ PageOpens \/ Click \/ RunServiceHelper \/ HelperFails \/ PageEnds
  \/ JobDone \/ ServiceEnds \/ Restarted \/ Reboot

Spec == Init /\ [][Next]_vars

-----------------------------------------------------------------------------
(* Properties                                                              *)

(* Once a click is through, and after every boot, the unit runs if and     *)
(* only if the mark is there, wherever the page was closed or killed and   *)
(* the service ended before: the two ways of starting it, by the switch    *)
(* and by its condition, do not part for good (setEnduranceEnabled,        *)
(* runServiceHelper).                                                      *)
RunsAsMarked ==
  /\ page \in {"closed", "idle"} /\ job = "none" /\ service # "restarting" /\ ~astray
  => (service = "active" <=> mark)
=============================================================================
