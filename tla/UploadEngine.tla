----------------------------- MODULE UploadEngine -----------------------------
(***************************************************************************)
(* The upload pipeline of the auto uploader: CReporterUploadQueue feeds    *)
(* items one at a time to CReporterUploadEngine, which opens a network     *)
(* session (CReporterNwSessionMgr), starts the item and reports the whole  *)
(* batch with finished(error, sent, total).                                *)
(*                                                                         *)
(* Everything runs in one Qt event loop with synchronous signals: an event *)
(* and the chain of slots it sets off is one step.  The operators under    *)
(* "Slots" are those slots; each maps the state e of the pipeline to the   *)
(* set of states it may end in, because what QNetworkSession::open() does  *)
(* is not the program's choice.                                            *)
(***************************************************************************)
EXTENDS Naturals, Sequences, FiniteSets, Functions, UploadItemOps

CONSTANTS
  Files,        \* the reports; an upload item is identified by its file
  NoItem,       \* a null item pointer
  Vanishing,    \* files that another process may delete
  SyncErrors,   \* can QNetworkSession::open() fail before it returns?
  UsbMode       \* can the USB cable be in developer mode?

ASSUME EngineAssumption ==
  /\ NoItem \notin Files
  /\ Vanishing \subseteq Files
  /\ SyncErrors \in BOOLEAN
  /\ UsbMode \in BOOLEAN

VARIABLES
  pipe,         \* queue, engine, session and items: see Pipe below
  disk,         \* files that exist
  answered,     \* files whose request has ended without a network error
  requested,    \* files ever enqueued (the auto uploader's addedFiles)
  batch         \* files enqueued for the present engine

vars == <<pipe, disk, answered, requested, batch>>

\* "Aborting" is left again within the step that enters it.
EngineState == {"NoConnection", "Connecting", "Connected", "Closing"}
ErrorType == {"NoError", "ProtocolError", "ConnectionNotAvailable", "ConnectionClosed"}

\* The QNetworkSession object: absent, not open, being opened, open.
SessionState == {"none", "idle", "opening", "open"}

Report == [error : ErrorType, sent : Nat, total : Nat]

Pipe == [items    : [Files -> Item],
         queue    : Seq(Files),          \* CReporterUploadQueue
         notified : BOOLEAN,
         nbrOfItems : Nat,
         current  : Files \cup {NoItem}, \* CReporterUploadEngine
         state    : EngineState,
         error    : ErrorType,
         sent     : Nat,
         session  : SessionState,        \* CReporterNwSessionMgr
         deleted  : SUBSET Files,        \* items deleted or sent deleteLater()
         reports  : Seq(Report)]         \* finished() signals of this engine

-----------------------------------------------------------------------------
(* Slots                                                                   *)

FirstError(old, new) == IF old = "NoError" THEN new ELSE old

\* fault: the items taken off the queue are not deleted.
ClearLeaks(e) == [e EXCEPT !.queue = <<>>]

(* CReporterUploadQueue::clear().                                          *)
Clear(e) == [e EXCEPT !.queue = <<>>, !.deleted = @ \cup Range(e.queue)]

\* fault: the engine stays connected.
QueueDoneStaysConnected(e) ==
  [e EXCEPT !.sent = 0,
            !.reports = Append(@, [error |-> e.error, sent |-> e.sent,
                                   total |-> e.nbrOfItems])]

(* queueDone() and emitFinished().  A session that is still being opened   *)
(* ignores close().                                                        *)
QueueDone(e) ==
  [e EXCEPT !.state = IF @ = "NoConnection" THEN @ ELSE "Closing",
            !.session = IF e.state # "NoConnection" /\ @ = "open" THEN "idle" ELSE @,
            !.sent = 0,
            !.reports = Append(@, [error |-> e.error, sent |-> e.sent,
                                   total |-> e.nbrOfItems])]

(* itemFinished() on an empty queue.                                       *)
LastItemFinished(e, f) ==
  QueueDone([e EXCEPT !.deleted = @ \cup {f}, !.notified = FALSE])

\* fault: the error type is not set.
AbandonWithoutError(e, f) == LastItemFinished(Clear(e), f)

\* fault: the queue is not cleared.
AbandonKeepsQueue(e, f) ==
  LastItemFinished([e EXCEPT !.error = FirstError(@, "ProtocolError")], f)

\* fault: the cleared queue is done, and done again with the cancelled item.
AbandonFinishesTwice(e, f) ==
  LastItemFinished(QueueDone(Clear([e EXCEPT !.error = FirstError(@, "ProtocolError")])), f)

(* The branch of uploadFinished() that cancels the pending uploads.        *)
Abandon(e, f) ==
  LastItemFinished(Clear([e EXCEPT !.error = FirstError(@, "ProtocolError")]), f)

(* CReporterNwSessionMgr::open() may find an open session, or go without   *)
(* one on USB, or have opened() emitted while it runs ("ready"); or start  *)
(* opening ("pending"); or have the error emitted while it runs.           *)
OpenOutcomes(session) ==
  IF session = "open"
  THEN {[result |-> "ready", session |-> "open"]}
  ELSE {[result |-> "ready", session |-> "open"],
        [result |-> "pending", session |-> "opening"]}
       \cup (IF UsbMode /\ session = "none"
             THEN {[result |-> "ready", session |-> "none"]} ELSE {})
       \cup (IF SyncErrors THEN {[result |-> "failed", session |-> "idle"]} ELSE {})

(* emitNextItem() and uploadItem(): take the head of the queue and connect.*)
UploadNext(e) ==
  LET f == Head(e.queue)
      taken == [e EXCEPT !.queue = Tail(@), !.current = f]
      After(o) ==
        CASE o.result = "ready" ->
               [taken EXCEPT !.session = o.session, !.state = "Connected",
                             !.items[f] = StartUpload(@, f \in disk)]
          [] o.result = "pending" ->
               [taken EXCEPT !.session = o.session, !.state = "Connecting"]
          [] o.result = "failed" ->      \* connectionError() inside open()
               Abandon([taken EXCEPT
                          !.session = o.session, !.state = "NoConnection",
                          !.error = FirstError(@, "ConnectionNotAvailable"),
                          !.items[f] = Cancel(@)], f)
  IN  {After(o) : o \in OpenOutcomes(e.session)}

(* markDone() of the item and itemFinished() of the queue.                 *)
ItemFinished(e, f) ==
  IF e.queue = <<>>
  THEN {LastItemFinished(e, f)}
  ELSE UploadNext([e EXCEPT !.deleted = @ \cup {f}])

(* uploadFinished() of the engine: an error leaves the other items a       *)
(* chance, a cancellation or an error without connection does not.         *)
UploadFinished(e, f) ==
  LET status == e.items[f].status
  IN  IF status = "Error" /\ e.state # "NoConnection"
      THEN ItemFinished([e EXCEPT !.error = FirstError(@, "ProtocolError")], f)
      ELSE IF status \in {"Error", "Cancelled"}
      THEN {Abandon(e, f)}
      ELSE ItemFinished([e EXCEPT !.sent = @ + 1], f)

(* The item has new state it; it emits uploadFinished() if it emits.       *)
ItemBecomes(e, f, it, emits) ==
  LET changed == [e EXCEPT !.items[f] = it]
  IN  IF emits THEN UploadFinished(changed, f) ELSE {changed}

CancelCurrent(e) ==
  LET it == e.items[e.current]
  IN  ItemBecomes(e, e.current, Cancel(it), CancelCompletes(it))

\* fault: cancels in any state.
SessionLostAlwaysCancels(e) ==
  CancelCurrent([e EXCEPT !.state = "NoConnection",
                          !.error = FirstError(@, "ConnectionClosed")])

(* sessionDisconnected() of the engine.                                    *)
SessionLost(e) ==
  LET lost(why) == CancelCurrent([e EXCEPT !.state = "NoConnection",
                                           !.error = FirstError(@, why)])
  IN  CASE e.state = "Connecting" -> lost("ConnectionNotAvailable")
        [] e.state = "Connected"  -> lost("ConnectionClosed")
        [] OTHER -> {[e EXCEPT !.state = "NoConnection"]}

\* fault: every item is announced to the engine.
EnqueueAlwaysNotifies(e, f) ==
  LET told == UploadNext([e EXCEPT !.queue = Append(@, f), !.nbrOfItems = 0,
                                   !.notified = TRUE])
  IN  {[t EXCEPT !.nbrOfItems = @ + 1] : t \in told}

(* enqueue() of the queue: the item is counted after the engine has been   *)
(* told of it.                                                             *)
EnqueueItem(e, f) ==
  LET q == [e EXCEPT !.queue = Append(@, f)]
      told == IF e.notified THEN {q}
              ELSE UploadNext([q EXCEPT !.nbrOfItems = 0, !.notified = TRUE])
  IN  {[t EXCEPT !.nbrOfItems = @ + 1] : t \in told}

(* The pipeline of a process that has just started.                        *)
NewPipe ==
  [items |-> [f \in Files |-> NewItem], queue |-> <<>>,
   notified |-> FALSE, nbrOfItems |-> 0, current |-> NoItem,
   state |-> "NoConnection", error |-> "NoError", sent |-> 0,
   session |-> "none", deleted |-> {}, reports |-> <<>>]

-----------------------------------------------------------------------------
(* Events                                                                  *)

Init ==
  /\ pipe = NewPipe
  /\ disk = Files
  /\ answered = {}
  /\ requested = {}
  /\ batch = {}

(* uploadFiles() enqueues a file it has not added before.  Its loop goes   *)
(* on with the same engine even if that has emitted finished() meanwhile.  *)
Enqueue(f) ==
  /\ f \notin requested
  /\ pipe' \in EnqueueItem(pipe, f)
  /\ requested' = requested \cup {f}
  /\ batch' = batch \cup {f}
  /\ UNCHANGED <<disk, answered>>

(* The session is up: sessionOpened().                                     *)
SessionOpened ==
  /\ pipe.session = "opening"
  /\ LET e == [pipe EXCEPT !.session = "open"]
     IN  pipe' = IF e.state = "Connecting"
                 THEN [e EXCEPT !.state = "Connected",
                                !.items[e.current] = StartUpload(@, e.current \in disk)]
                 ELSE e
  /\ UNCHANGED <<disk, answered, requested, batch>>

(* QNetworkSession::error(): connectionError().  The object is kept.       *)
SessionError ==
  /\ pipe.session \in {"opening", "open"}
  /\ pipe' \in SessionLost([pipe EXCEPT !.session = "idle"])
  /\ disk' = Remaining(disk, pipe'.items)
  /\ UNCHANGED <<answered, requested, batch>>

(* QNetworkSession turns Disconnected: networkStateChanged() tells the     *)
(* engine first and deletes the session object afterwards, whatever the    *)
(* engine has asked of it meanwhile.                                       *)
SessionDisconnected ==
  /\ pipe.session # "none"
  /\ pipe' \in {[e EXCEPT !.session = "none"] :
                  e \in SessionLost([pipe EXCEPT !.session = "idle"])}
  /\ disk' = Remaining(disk, pipe'.items)
  /\ UNCHANGED <<answered, requested, batch>>

Progress(f) ==
  /\ pipe.items[f].request = "open"
  /\ pipe' = [pipe EXCEPT !.items[f] = HandleUploadProgress(@)]
  /\ UNCHANGED <<disk, answered, requested, batch>>

(* finished() of the QNetworkReply without an error: whoever has answered, *)
(* the client parses the answer for its log only and removes the file.     *)
ReplyFinished(f) ==
  LET it == pipe.items[f]
  IN  /\ it.request = "open"
      /\ pipe' \in ItemBecomes(pipe, f, End(it), it.wired)
      /\ disk' = Remaining(disk, pipe'.items)
      /\ answered' = answered \cup {f}
      /\ UNCHANGED <<requested, batch>>

(* error(), whether or not the report has reached the server.              *)
ReplyError(f) ==
  LET it == pipe.items[f]
  IN  /\ it.request = "open"
      /\ pipe' \in ItemBecomes(pipe, f, Fail(it), it.wired)
      /\ disk' = Remaining(disk, pipe'.items)
      /\ UNCHANGED <<answered, requested, batch>>

ReplyFinishedAfterError(f) ==
  LET it == pipe.items[f]
  IN  /\ it.request = "failed"
      /\ pipe' \in ItemBecomes(pipe, f, End(it), it.wired)
      /\ disk' = Remaining(disk, pipe'.items)
      /\ UNCHANGED <<answered, requested, batch>>

ConnectionTimeout(f) ==
  LET it == pipe.items[f]
  IN  /\ it.timer
      /\ pipe' \in ItemBecomes(pipe, f, HttpCancel(it), it.wired)
      /\ disk' = Remaining(disk, pipe'.items)
      /\ UNCHANGED <<answered, requested, batch>>

(* cancelAll(), which quit() calls only while the engine is at work.       *)
CancelAll ==
  /\ pipe.notified
  /\ pipe' \in CancelCurrent(pipe)
  /\ disk' = Remaining(disk, pipe'.items)
  /\ UNCHANGED <<answered, requested, batch>>

(* The process ends, with its engine, its queue and its session: it quits  *)
(* once the engine has finished, or is killed.  The next begins anew.      *)
ProcessEnds ==
  /\ pipe' = NewPipe
  /\ requested' = {} /\ batch' = {}
  /\ UNCHANGED <<disk, answered>>

(* Another process deletes a file.                                         *)
FileVanishes(f) ==
  /\ f \in Vanishing \cap disk
  /\ disk' = disk \ {f}
  /\ UNCHANGED <<pipe, answered, requested, batch>>

NetworkAnswers(f) == ReplyFinished(f) \/ ReplyError(f)
SessionSettles == SessionOpened \/ SessionError \/ SessionDisconnected

Next ==
  \/ \E f \in Files :
       \/ Enqueue(f) \/ FileVanishes(f)
       \/ Progress(f) \/ NetworkAnswers(f)
       \/ ReplyFinishedAfterError(f) \/ ConnectionTimeout(f)
  \/ SessionSettles
  \/ CancelAll
  \/ ProcessEnds

Spec == Init /\ [][Next]_vars

(* What progress rests on: QNetworkSession settles a pending open(), the   *)
(* event loop serves the connection timeout, and a request that has begun  *)
(* to send is answered or fails (the client has no timeout from there on). *)
Fairness ==
  /\ WF_vars(SessionSettles /\ pipe.session = "opening")
  /\ WF_vars(\E f \in Files : ConnectionTimeout(f))
  /\ WF_vars(\E f \in Files : pipe.items[f].http = "Sending" /\ NetworkAnswers(f))

FairSpec == Spec /\ Fairness

-----------------------------------------------------------------------------
(* Properties                                                              *)

Pending == Range(pipe.queue) \cup (IF pipe.notified THEN {pipe.current} ELSE {})

TypeOK ==
  /\ pipe \in Pipe
  /\ disk \subseteq Files
  /\ answered \subseteq Files
  /\ requested \subseteq Files
  /\ batch \subseteq Files

(* currentItem is never reset, and sessionOpened(), sessionDisconnected()  *)
(* and cancelAll() call it unchecked: whenever one of them would, the item *)
(* it points to still exists and has not completed.                        *)
CurrentItemAlive ==
  pipe.notified \/ pipe.state \in {"Connecting", "Connected"} =>
    /\ pipe.current \in Files \ pipe.deleted
    /\ CancelCompletes(pipe.items[pipe.current])

(* The queue hands out an item only when the one before is done: at most   *)
(* one request is in flight, and it is the current item's.                 *)
OneRequestAtATime ==
  \A f \in Files : pipe.items[f].reply => pipe.notified /\ f = pipe.current

(* Every file ever enqueued is either still pending, in exactly one place, *)
(* or its item has been deleted; none is dropped on the way.               *)
NoItemForgotten ==
  /\ requested = Pending \cup pipe.deleted
  /\ Pending \cap pipe.deleted = {}
  /\ \A m, n \in DOMAIN pipe.queue : pipe.queue[m] = pipe.queue[n] => m = n
  /\ pipe.notified => pipe.current \notin Range(pipe.queue)

(* Each finished() comes when everything enqueued so far is done, and one  *)
(* at a time: nothing is left that the engine would have to be kept for.   *)
FinishedAtTheEnd ==
  [][Len(pipe'.reports) > Len(pipe.reports) =>
       /\ Len(pipe'.reports) = Len(pipe.reports) + 1
       /\ Pending' = {}
       /\ batch' \subseteq pipe'.deleted]_vars

(* A report goes only if its request ended without a network error, or if  *)
(* another process removes it: not for an error, a timeout, a cancelled or *)
(* interrupted batch, nor for the finished() that follows a failure.       *)
AnsweredOrKept == \A f \in Files \ Vanishing : f \in disk \cup answered

(* finished() carries an error exactly if some file of the batch was not   *)
(* sent: no cancelled or failed item hides behind the success of others.   *)
ErrorIffIncomplete ==
  \A n \in DOMAIN pipe.reports :
    LET r == pipe.reports[n] IN r.error = "NoError" <=> r.sent = r.total

(* creporteruploadqueue.h says of done(): "Sent, when all items in the     *)
(* queue are handled."  A batch that was started comes to its end.         *)
BatchEnds == pipe.notified ~> ~pipe.notified
=============================================================================
