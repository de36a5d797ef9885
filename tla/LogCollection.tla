---------------------------- MODULE LogCollection ----------------------------
(***************************************************************************)
(* Reports without a crash that the daemon and the journal spy ask for:    *)
(* who asks for which label, and what rich-core-helper makes of it.        *)
(***************************************************************************)
EXTENDS ReportNames, PowerSaving

(* What udev tells: a device could be received, it is the one of kernel    *)
(* events, and this is its EVENT.                                          *)
UEvent == [received : BOOLEAN, kevent : BOOLEAN,
           event : {"WakelockDump", "Subsystem", "other"}]

(* The labels that are passed to invokeLogCollection() for an event.       *)
HandleUdevNotification(u, battery, restrictions) ==
  IF /\ u.received /\ u.kevent
     /\ u.event \in {"WakelockDump", "Subsystem"}
     /\ ~ShouldSavePower(battery, restrictions)
  THEN {<<"PowerExcess">>} ELSE {}

\* The label of a hit of the journal spy.
SpyLabel(expression) == <<"JournalSpy", "-">> \o expression

\* Stands for any character but letters, digits, "_" and "-".
Other == " "

(* rich-core-helper: a label that is not sane is refused; the signal of    *)
(* the others is a random number.  The label fits into the command line.   *)
RichCoreHelper(label, randomid, hwid, pid) ==
  IF label = <<>> \/ Contains(label, Other)
  THEN {} ELSE {CoreName(label, hwid, randomid, pid)}

-----------------------------------------------------------------------------

(* A report that was asked for is never taken for the duplicate of a       *)
(* crash, nor of another such report, and the daemon keeps it              *)
(* (handleUdevNotification, reportIncludesCrash).                          *)
AskedForIsKept(expressions, hwids, pids, none) ==
  \A label \in UNION {HandleUdevNotification(u, b, r) :
                        u \in UEvent, b \in Battery, r \in Restrictions}
                 \cup {SpyLabel(e) : e \in expressions} :
    \A id \in Signals, hwid \in hwids, pid \in pids :
      \A name \in RichCoreHelper(label, id, hwid, pid) :
        ValidateCore(name) /\ ClassOfName(name, none) = none
=============================================================================
