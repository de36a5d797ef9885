------------------------------- MODULE Settings -------------------------------
(***************************************************************************)
(* CReporterSettingsBase and CReporterPrivacySettingsModel: each process   *)
(* has its own copy of a settings file, which it reads when it opens it    *)
(* and when it writes what it has changed, and at no other time.           *)
(***************************************************************************)

CONSTANTS
  Keys,         \* settings that are on or off
  Default       \* [Keys -> Switch]

Switch == {"on", "off"}

\* Of a key that is not in the file.
Unset == "unset"

File     == [Keys -> Switch \cup {Unset}]
Instance == [seen : File, changed : SUBSET Keys]

\* instance()
Opened(file) == [seen |-> file, changed |-> {}]

Value(s, k) == IF s.seen[k] = Unset THEN Default[k] ELSE s.seen[k]

\* A setter.
SetValue(s, k, v) == [seen |-> [s.seen EXCEPT ![k] = v], changed |-> s.changed \cup {k}]

(* writeSettings(), the event loop or the destructor: what the process has *)
(* set goes to the file, and what others have is read.                     *)
Written(file, s) == [k \in Keys |-> IF k \in s.changed THEN s.seen[k] ELSE file[k]]
Synced(file, s)  == Opened(Written(file, s))
=============================================================================
