---------------------------- MODULE UploadItemOps ----------------------------
(***************************************************************************)
(* One upload item of the crash reporter (CReporterUploadItem) together    *)
(* with the HTTP client it owns (CReporterHttpClient): the handlers of the *)
(* two objects, as functions from the item's state to its next state.      *)
(*                                                                         *)
(* Qt delivers the signals between the two objects synchronously, so one   *)
(* event and all the slots it reaches are one function here.  UploadItem   *)
(* makes a state machine of them; UploadEngine runs a queue of items.      *)
(*                                                                         *)
(*   status  CReporterUploadItem::status()                                 *)
(*   http    state of the HTTP client, "None" while there is no client     *)
(*   reply   m_reply # 0: the client still listens to the request          *)
(*   timer   m_connectionTimeout is running                                *)
(*   wired   the client's finished() and uploadError() reach the item      *)
(*   removed the client has removed the file                               *)
(*   request what the QNetworkReply itself is at, whoever listens to it    *)
(*                                                                         *)
(* A definition marked "fault:" is a slip that is NOT in the code.  It is  *)
(* put in the place of the definition after it to see a property fail.     *)
(***************************************************************************)

ItemStatus == {"Waiting", "Sending", "Error", "Finished", "Cancelled"}

\* "Aborting" is left again before cancel() returns, so no event sees it.
ClientState == {"None", "Init", "Connecting", "Sending"}

\* A request that has failed has emitted error(), and finished() comes yet.
RequestState == {"none", "open", "failed"}

Item == [status : ItemStatus, http : ClientState,
         reply : BOOLEAN, timer : BOOLEAN, wired : BOOLEAN,
         removed : BOOLEAN, request : RequestState]

NewItem == [status |-> "Waiting", http |-> "None",
            reply |-> FALSE, timer |-> FALSE, wired |-> FALSE,
            removed |-> FALSE, request |-> "none"]

(* startUpload() with initSession() and createRequest(): the request is    *)
(* sent only if the file can still be opened; if not, the item turns Error *)
(* and no signal is emitted.                                               *)
StartUpload(it, readable) ==
  IF readable
  THEN [it EXCEPT !.status = "Sending", !.http = "Connecting", !.request = "open",
                  !.reply = TRUE, !.timer = TRUE, !.wired = TRUE]
  ELSE [it EXCEPT !.status = "Error", !.http = "Init", !.request = "none",
                  !.reply = FALSE, !.timer = FALSE, !.wired = TRUE]

(* Upload progress: the timeout is off from the first report on.           *)
HandleUploadProgress(it) ==
  [it EXCEPT !.timer = FALSE, !.http = IF it.reply THEN "Sending" ELSE @]

\* fault: the client goes on listening to the request that has failed.
HandleErrorKeepsReply(it) ==
  [it EXCEPT !.wired = FALSE, !.status = IF @ = "Cancelled" THEN @ ELSE "Error"]

(* handleError() of the client and uploadError() of the item: the item     *)
(* stops listening to its client, because QNetworkReply emits finished()   *)
(* after every error.                                                      *)
HandleError(it) ==
  [it EXCEPT !.reply = FALSE, !.wired = FALSE,
             !.status = IF @ = "Cancelled" THEN @ ELSE "Error"]

(* handleFinished() of the client and emitUploadFinished() of the item,    *)
(* which makes any item Finished that still listens.  The file goes if the *)
(* client still has its request; what the answer says does not matter.     *)
HandleFinished(it) ==
  [it EXCEPT !.reply = FALSE, !.timer = FALSE, !.http = "Init",
             !.removed = @ \/ it.reply,
             !.status = IF it.wired THEN "Finished" ELSE @]

\* error() and finished() of the QNetworkReply.
Fail(it) == HandleError([it EXCEPT !.request = "failed"])
End(it) == HandleFinished([it EXCEPT !.request = "none"])

\* fault: with no request to abort, the clean-up is skipped.
HttpCancelEarlyReturn(it) ==
  IF it.reply THEN End(Fail(it)) ELSE [it EXCEPT !.http = "Aborting"]

(* CReporterHttpClient::cancel(): abort() of an unfinished request emits   *)
(* error() and finished() before it returns; the clean-up runs either way. *)
HttpCancel(it) ==
  HandleFinished(IF it.reply THEN [End(Fail(it)) EXCEPT !.reply = FALSE] ELSE it)

(* CReporterUploadItem::cancel().                                          *)
Cancel(it) ==
  LET cancelled == [it EXCEPT !.status = "Cancelled"]
  IN  IF it.http = "None" THEN cancelled ELSE HttpCancel(cancelled)

(* Whether cancel() emits uploadFinished(): through the client when the    *)
(* item listens to it, and directly when the item was still waiting.       *)
CancelCompletes(it) == it.wired \/ it.status = "Waiting"

\* Those of the files that no item has removed.
Remaining(files, items) == {f \in files : ~items[f].removed}
=============================================================================
