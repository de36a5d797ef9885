----------------------------- MODULE ReportNames -----------------------------
(***************************************************************************)
(* The names of reports, <application>-<hwid>-<signal>-<pid>.rcore.lzo,    *)
(* and what is read from them: which file is a report, what crashed of     *)
(* what signal, and which crashes are alike.                               *)
(*                                                                         *)
(* A name is a sequence of tokens: "-", "." and the words in between.      *)
(***************************************************************************)
EXTENDS SequencesExt, Naturals

Signals == {"3", "6", "11"}
SIGQUIT == "3"

CoreName(app, hwid, signum, pid) ==
  app \o <<"-", hwid, "-", signum, "-", pid, ".", "rcore", ".", "lzo">>

(* Only the end of the name counts.                                        *)
ValidateCore(name) ==
  \E suffix \in {<<"rcore">>, <<"rcore", ".", "lzo">>} : IsSuffix(suffix, name)

\* QFileInfo::baseName(): up to the first dot.
BaseName(name) ==
  LET dot == SelectInSeq(name, LAMBDA t : t = ".")
  IN  IF dot = 0 THEN name ELSE SubSeq(name, 1, dot - 1)

(* What is after the last dash, and what is before it.  Without a dash all *)
(* there is counts as the field, and remove() at position -1 only cuts off *)
(* the end.                                                                *)
LastField(s) ==
  LET dash == SelectLastInSeq(s, LAMBDA t : t = "-")
  IN  [field |-> SubSeq(s, dash + 1, Len(s)),
       rest  |-> CASE dash > 0 -> SubSeq(s, 1, dash - 1)
                   [] s = <<>> -> <<>>
                   [] OTHER    -> Front(s)]

(* The fields are taken from the end, because the name of the application  *)
(* may have dashes.                                                        *)
ParseCrashInfoFromFilename(name) ==
  LET pid  == LastField(BaseName(name))
      sig  == LastField(pid.rest)
      hwid == LastField(sig.rest)
  IN  [app |-> hwid.rest, hwid |-> hwid.field, signum |-> sig.field, pid |-> pid.field]

\* toInt(): zero, if it is not a number.
ToInt(field) == IF \E s \in Signals : field = <<s>> THEN field[1] ELSE "0"

IsUserTerminated(name) == ToInt(ParseCrashInfoFromFilename(name).signum) = SIGQUIT

\* Of reports that are not about a crash.
NoCrashPrefixes == {"Quickie", "Endurance", "PowerExcess", "OneshotFailure", "HWreboot",
             "HWSMPL", "OverheatShutdown", "JournalSpy"}

ReportIncludesCrash(name) == NoCrashPrefixes \cap ToSet(name) = {}

(* What CReporterHandledRichCore's == compares.                            *)
HandledRichCore(name) ==
  LET info == ParseCrashInfoFromFilename(name)
  IN  <<info.app, ToInt(info.signum)>>

\* Reports of the same class are duplicates; those of class none never are.
ClassOfName(name, none) ==
  IF IsUserTerminated(name) \/ ~ReportIncludesCrash(name)
  THEN none ELSE HandledRichCore(name)

-----------------------------------------------------------------------------

(* The parts of a name are found again if the application's has no dot,    *)
(* whatever dashes there are in it (parseCrashInfoFromFilename).           *)
PartsAreFound(apps, hwids, pids) ==
  \A app \in apps, hwid \in hwids, signum \in Signals, pid \in pids :
    LET name == CoreName(app, hwid, signum, pid)
    IN  /\ ValidateCore(name)
        /\ ParseCrashInfoFromFilename(name) =
             [app |-> app, hwid |-> <<hwid>>, signum |-> <<signum>>, pid |-> <<pid>>]
=============================================================================
