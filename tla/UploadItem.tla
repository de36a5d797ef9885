------------------------------ MODULE UploadItem ------------------------------
(***************************************************************************)
(* Upload items under the events that reach them: the engine starts and    *)
(* cancels an item, the network answers, fails or stays silent, the        *)
(* connection timeout fires, and another process (the daemon removing a    *)
(* duplicate, the user removing a report) deletes the file.                *)
(***************************************************************************)
EXTENDS Naturals, UploadItemOps

CONSTANTS
  Files,      \* the reports on disk; every item uploads its own file
  Vanishing   \* those some other process may delete

VARIABLES
  items,        \* state of each upload item
  disk,         \* files that exist
  answered,     \* files whose request has ended without a network error
  completions   \* how many times each item has emitted uploadFinished()

vars == <<items, disk, answered, completions>>

Completed(f) == completions[f] > 0

\* The item emits uploadFinished() in this step exactly if `emits`.
Complete(f, emits) ==
  completions' = IF emits THEN [completions EXCEPT ![f] = @ + 1] ELSE completions

Init ==
  /\ items = [f \in Files |-> NewItem]
  /\ disk = Files
  /\ answered = {}
  /\ completions = [f \in Files |-> 0]

(* The engine calls startUpload() once per item, and only on an item it    *)
(* has not cancelled.                                                      *)
Start(f) ==
  /\ items[f].status = "Waiting"
  /\ items' = [items EXCEPT ![f] = StartUpload(@, f \in disk)]
  /\ UNCHANGED <<disk, answered, completions>>

Progress(f) ==
  /\ items[f].request = "open"
  /\ items' = [items EXCEPT ![f] = HandleUploadProgress(@)]
  /\ UNCHANGED <<disk, answered, completions>>

(* finished() without a network error, whatever has answered and whatever  *)
(* the answer says.                                                        *)
ReplyFinished(f) ==
  /\ items[f].request = "open"
  /\ items' = [items EXCEPT ![f] = End(@)]
  /\ disk' = Remaining(disk, items')
  /\ answered' = answered \cup {f}
  /\ Complete(f, items[f].wired)

(* The request fails, perhaps after the server has stored the report.      *)
ReplyError(f) ==
  /\ items[f].request = "open"
  /\ items' = [items EXCEPT ![f] = Fail(@)]
  /\ disk' = Remaining(disk, items')
  /\ Complete(f, items[f].wired)
  /\ UNCHANGED answered

(* finished() of a request whose error() has been handled already.         *)
ReplyFinishedAfterError(f) ==
  /\ items[f].request = "failed"
  /\ items' = [items EXCEPT ![f] = End(@)]
  /\ disk' = Remaining(disk, items')
  /\ Complete(f, items[f].wired)
  /\ UNCHANGED answered

(* m_connectionTimeout fires: it cancels the client and not the item.      *)
ConnectionTimeout(f) ==
  /\ items[f].timer
  /\ items' = [items EXCEPT ![f] = HttpCancel(@)]
  /\ disk' = Remaining(disk, items')
  /\ Complete(f, items[f].wired)
  /\ UNCHANGED answered

(* The engine cancels an item.  It must not be done with it: it forgets    *)
(* the item when uploadFinished() has been emitted.                        *)
CancelItem(f) ==
  /\ ~Completed(f)
  /\ items' = [items EXCEPT ![f] = Cancel(@)]
  /\ disk' = Remaining(disk, items')
  /\ Complete(f, CancelCompletes(items[f]))
  /\ UNCHANGED answered

(* Another process deletes the file.                                       *)
FileVanishes(f) ==
  /\ f \in Vanishing \cap disk
  /\ disk' = disk \ {f}
  /\ UNCHANGED <<items, answered, completions>>

ItemNext(f) ==
  \/ Start(f)
  \/ Progress(f)
  \/ ReplyFinished(f)
  \/ ReplyError(f)
  \/ ReplyFinishedAfterError(f)
  \/ ConnectionTimeout(f)
  \/ CancelItem(f)
  \/ FileVanishes(f)

Next == \E f \in Files : ItemNext(f)

Spec == Init /\ [][Next]_vars

-----------------------------------------------------------------------------

(* Type correctness.  An item emits uploadFinished() at most once: a       *)
(* second emission would make the queue take the next item twice.          *)
TypeOK ==
  /\ items \in [Files -> Item]
  /\ disk \subseteq Files
  /\ answered \subseteq Files
  /\ completions \in [Files -> {0, 1}]

(* A report goes only if its request ended without a network error: an     *)
(* error, a timeout or a cancellation, and the finished() that may follow  *)
(* each of them, leave the file alone.                                     *)
AnsweredOrKept == \A f \in Files \ Vanishing : f \in disk \cup answered

(* What an item says of its upload when it completes stays so: the         *)
(* finished() that follows an error, or a timer that is still running,     *)
(* does not turn a failed item into a successful one.                      *)
VerdictIsFinal ==
  [][\A f \in Files : Completed(f) =>
       items'[f].status = items[f].status /\ completions'[f] = completions[f]]_vars

(* creporteruploaditem.h says of Finished: "Item was processed             *)
(* successfully."  While the file can be read when the upload starts, that *)
(* is a request that ended without a network error: neither an error nor a *)
(* cancellation, late or early, makes an item Finished.                    *)
ReadableFinishedMeansAnswered ==
  \A f \in Files \ Vanishing : items[f].status = "Finished" => f \in answered
=============================================================================
