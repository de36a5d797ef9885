----------------------------- MODULE AutoUploader -----------------------------
(***************************************************************************)
(* The auto uploader service, CReporterAutoUploader: a D-Bus activated     *)
(* process around one upload queue and one engine.  The daemon asks it to  *)
(* upload if network and battery allow, the user asks it to upload         *)
(* regardless; when the engine has finished it notifies the user and       *)
(* quits, and the next request starts a new process.                       *)
(*                                                                         *)
(* The engine signals finished() synchronously, from within uploadFiles()  *)
(* and quit() as well, so engineFinished() is part of every step below.    *)
(***************************************************************************)
EXTENDS UploadEngine, SequencesExt, NetworkPolicy

CONSTANT Notifications     \* notificationsEnabled() of the privacy settings

ASSUME NotificationsAssumption == Notifications \in BOOLEAN

VARIABLES
  service,      \* see Service below
  wanted        \* files requested by the user, who puts up with any network

serviceVars == <<service, wanted>>
allVars == <<vars, service, wanted>>

(* The last five outlive the process: what the notifications on the screen *)
(* say (0: not there), and the saved state, as the service has read it and *)
(* as it is in the file.                                                   *)
Service == [engine    : BOOLEAN,   \* engine # 0
            activated : BOOLEAN,
            quitTimer : BOOLEAN,   \* QTimer::singleShot(0, this, SLOT(quit()))
            exiting   : BOOLEAN,   \* qApp->quit() has been called
            progress  : BOOLEAN,
            success   : Nat,
            failed    : Nat,
            uploadSuccessCount : Nat,
            savedCount : Nat]

-----------------------------------------------------------------------------
(* Slots                                                                   *)

\* fault: the notification counts what was attempted.
NotifyTotal(s, r) ==
  [s EXCEPT !.progress = FALSE,
            !.failed   = IF r.total > r.sent THEN r.total - r.sent ELSE 0,
            !.success  = IF r.sent > 0 THEN r.total + s.uploadSuccessCount ELSE @,
            !.uploadSuccessCount = IF r.sent > 0 THEN r.sent + @ ELSE 0]

\* fault: the failures of the batch before stay on the screen.
NotifyKeepsFailed(s, r) ==
  [s EXCEPT !.progress = FALSE,
            !.failed   = IF r.total > r.sent THEN r.total - r.sent ELSE @,
            !.success  = IF r.sent > 0 THEN r.sent + s.uploadSuccessCount ELSE @,
            !.uploadSuccessCount = IF r.sent > 0 THEN r.sent + @ ELSE 0]

\* fault: the progress notification is not closed after a failure.
NotifyKeepsProgress(s, r) ==
  [s EXCEPT !.progress = @ /\ r.total > r.sent,
            !.failed   = IF r.total > r.sent THEN r.total - r.sent ELSE 0,
            !.success  = IF r.sent > 0 THEN r.sent + s.uploadSuccessCount ELSE @,
            !.uploadSuccessCount = IF r.sent > 0 THEN r.sent + @ ELSE 0]

(* The notifications of engineFinished() for the report r.                 *)
Notify(s, r) ==
  [s EXCEPT !.progress = FALSE,
            !.failed   = IF r.total > r.sent THEN r.total - r.sent ELSE 0,
            !.success  = IF r.sent > 0 THEN r.sent + s.uploadSuccessCount ELSE @,
            !.uploadSuccessCount = IF r.sent > 0 THEN r.sent + @ ELSE 0]

\* What was set goes to the file, whatever is in it now.
Saved(s) == [s EXCEPT !.savedCount = s.uploadSuccessCount]

(* engineFinished(): the quit() at its end finds the engine inactive and   *)
(* only drops it.                                                          *)
EngineFinished(s, r) ==
  [(IF Notifications THEN Saved(Notify(s, r)) ELSE s) EXCEPT
     !.activated = FALSE, !.engine = FALSE, !.exiting = TRUE]

(* The service hears the engine's signal as long as it holds the engine.   *)
Hear(s, before, after) ==
  IF s.engine /\ Len(after.reports) > Len(before.reports)
  THEN EngineFinished(s, Last(after.reports))
  ELSE s

(* One round of the loop in uploadFiles(), which goes on even if the       *)
(* engine has finished and been dropped meanwhile.                         *)
AddFile(w, f) ==
  IF f \in w.added
  THEN {w}
  ELSE {[pipe |-> e, service |-> Hear(w.service, w.pipe, e), added |-> w.added \cup {f}]
          : e \in EnqueueItem(w.pipe, f)}

AddFiles(w, list) ==
  LET after[n \in 0..Len(list)] ==      \* n files of the list
        IF n = 0 THEN {w} ELSE UNION {AddFile(x, list[n]) : x \in after[n - 1]}
  IN  after[Len(list)]

\* A process is there.
Running == service.engine \/ service.activated \/ service.exiting

(* A new engine, with a session manager of its own, on the same queue.     *)
FreshEngine(e) ==
  [e EXCEPT !.current = NoItem, !.state = "NoConnection", !.error = "NoError",
            !.sent = 0, !.session = "none", !.reports = <<>>]

\* A service that is not active gets a new engine.
Activated ==
  [pipe    |-> IF service.activated THEN pipe ELSE FreshEngine(pipe),
   service |-> [service EXCEPT !.activated = TRUE, !.engine = TRUE],
   added   |-> requested]

-----------------------------------------------------------------------------
(* Events                                                                  *)

ServiceInit ==
  /\ Init
  /\ service = [engine |-> FALSE, activated |-> FALSE, quitTimer |-> FALSE,
                exiting |-> FALSE, progress |-> FALSE,
                success |-> 0, failed |-> 0, uploadSuccessCount |-> 0, savedCount |-> 0]
  /\ wanted = {}

(* uploadFiles() goes ahead: the caller is the user (obey is FALSE), or    *)
(* the daemon while network and battery allow.  The list is what is on     *)
(* the disk, or one report picked by the user.                             *)
UploadFiles(list, obey) ==
  /\ ~service.exiting
  /\ obey => FALSE \in Answers
  /\ \E w \in AddFiles(Activated, list) :
       /\ pipe' = w.pipe
       /\ requested' = w.added
       /\ batch' = (IF service.activated THEN batch ELSE {}) \cup (w.added \ requested)
       /\ service' = [w.service EXCEPT !.progress = @ \/ Notifications]
  /\ wanted' = IF obey THEN wanted ELSE wanted \cup ToSet(list)
  /\ UNCHANGED <<disk, answered>>

\* fault: the service is not told to quit.
RefuseUploadStays ==
  /\ ~service.exiting
  /\ pipe' = Activated.pipe
  /\ service' = Activated.service
  /\ batch' = IF service.activated THEN batch ELSE {}
  /\ UNCHANGED <<disk, answered, requested, wanted>>

(* uploadFiles() of the daemon finds no network it may use, or a low       *)
(* battery: the service is to quit, whatever else it is doing.             *)
RefuseUpload ==
  /\ ~service.exiting
  /\ TRUE \in Answers
  /\ pipe' = Activated.pipe
  /\ service' = [Activated.service EXCEPT !.quitTimer = TRUE]
  /\ batch' = IF service.activated THEN batch ELSE {}
  /\ UNCHANGED <<disk, answered, requested, wanted>>

(* quit(): an active engine is cancelled, and engineFinished() runs within *)
(* cancelAll().                                                            *)
Quit ==
  /\ ~service.exiting
  /\ pipe' \in IF service.activated /\ pipe.current # NoItem
               THEN CancelCurrent(pipe) ELSE {pipe}
  /\ service' = [Hear([service EXCEPT !.activated = FALSE], pipe, pipe') EXCEPT
                   !.engine = FALSE, !.quitTimer = FALSE, !.exiting = TRUE]
  /\ disk' = Remaining(disk, pipe'.items)
  /\ UNCHANGED <<answered, requested, batch, wanted>>

QuitTimer == service.quitTimer /\ Quit

\* Its notifications are found by the identifiers in the saved state.
NewService ==
  [service EXCEPT !.engine = FALSE, !.activated = FALSE, !.quitTimer = FALSE,
                  !.exiting = FALSE, !.uploadSuccessCount = service.savedCount]

(* The event loop ends and the process with it; D-Bus starts another when  *)
(* the next request comes.                                                 *)
Exit ==
  /\ service.exiting
  /\ pipe' = NewPipe
  /\ requested' = {} /\ batch' = {} /\ wanted' = {}
  /\ service' = NewService
  /\ UNCHANGED <<disk, answered>>

(* The daemon has been started and counts uploads from zero.  A service    *)
(* that runs keeps what it has read.                                       *)
DaemonStarted ==
  /\ service' = [service EXCEPT !.savedCount = 0,
                                !.uploadSuccessCount = IF Running THEN @ ELSE 0]
  /\ UNCHANGED <<vars, wanted>>

(* What the network, the server and other processes do to the engine.      *)
EngineEvent ==
  /\ ~service.exiting
  /\ \/ SessionSettles
     \/ \E f \in Files :
          \/ FileVanishes(f) \/ Progress(f) \/ NetworkAnswers(f)
          \/ ReplyFinishedAfterError(f) \/ ConnectionTimeout(f)
  /\ service' = Hear(service, pipe, pipe')
  /\ UNCHANGED wanted

Lists == SetToSeqs(disk) \cup {<<f>> : f \in disk}

ServiceNext ==
  \/ \E list \in Lists \ {<<>>}, obey \in BOOLEAN : UploadFiles(list, obey)
  \/ RefuseUpload
  \/ Quit
  \/ Exit
  \/ DaemonStarted
  \/ EngineEvent

ServiceSpec == ServiceInit /\ [][ServiceNext]_allVars

(* As for the engine; the event loop also serves the quit timer and ends   *)
(* when it has been told to.                                               *)
ServiceFairness ==
  /\ WF_allVars(EngineEvent /\ SessionSettles /\ pipe.session = "opening")
  /\ WF_allVars(EngineEvent /\ \E f \in Files : ConnectionTimeout(f))
  /\ WF_allVars(EngineEvent /\ \E f \in Files :
                  pipe.items[f].http = "Sending" /\ NetworkAnswers(f))
  /\ WF_allVars(QuitTimer)
  /\ WF_allVars(Exit)

FairServiceSpec == ServiceSpec /\ ServiceFairness

-----------------------------------------------------------------------------
(* Properties                                                              *)

(* Type correctness of the service around the pipeline.                    *)
ServiceTypeOK ==
  /\ TypeOK
  /\ service \in Service
  /\ wanted \subseteq requested

(* creporterautouploader.cpp says of progressNotification: "Notification   *)
(* object giving user a notice that upload is in progress."  When the      *)
(* service has come to rest, it is gone.                                   *)
ProgressIsHonest == service.progress => pipe.notified

(* When the service quits, the user is told how many reports of the batch  *)
(* were not uploaded, no more and no less.                                 *)
FailuresAreShown ==
  Notifications /\ service.exiting /\ batch # {} =>
    service.failed = Cardinality({f \in batch : pipe.items[f].status # "Finished"})

(* The uploads the user is told of, over all processes, are no more than   *)
(* the requests that ended without a network error, plus the reports that  *)
(* another process removed: one that is gone when its upload begins counts *)
(* as sent when it is cancelled.  One that is still there never counts.    *)
SuccessIsNotInflated ==
  service.success <= Cardinality(answered \cup (Vanishing \ disk))

(* creporterautouploader.h says of obeyResourcesRestrictions: "false if    *)
(* the files should be uploaded regardless of the network connection       *)
(* type": a restriction met by the daemon's request does not stop them.    *)
UserUploadsGoOn == [][QuitTimer => wanted \cap Pending = {}]_allVars

(* No request leaves the service hanging: as long as the engine is held,   *)
(* the service comes to its end, and the next request to a new process.    *)
ServiceQuits == service.engine ~> service.exiting
=============================================================================
