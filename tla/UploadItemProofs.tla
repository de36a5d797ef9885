--------------------------- MODULE UploadItemProofs ---------------------------
(***************************************************************************)
(* Proofs about upload items, for any number of files: what the engine may *)
(* rely on, whatever the order of answers, errors, timeouts and            *)
(* cancellations.                                                          *)
(***************************************************************************)
EXTENDS UploadItem, TLAPS

(* An item that has not completed has not been started, or listens to a    *)
(* request, or could not read its file.                                    *)
Incomplete(it, f) ==
  \/ it = NewItem /\ f \notin answered /\ (f \in disk \/ f \in Vanishing)
  \/ /\ it.status = "Sending" /\ it.reply /\ it.wired
     /\ it.http \in {"Connecting", "Sending"}
     /\ it.request = "open" /\ ~it.removed
  \/ /\ it.status = "Error" /\ it.http = "Init" /\ ~it.reply /\ ~it.timer
     /\ it.wired /\ f \in Vanishing
     /\ it.request = "none" /\ ~it.removed

(* One that has listens to nothing; if it can still hear its client, the   *)
(* client is done.  A file that it has removed was answered for.           *)
Settled(it, f) ==
  /\ it.status \in {"Error", "Finished", "Cancelled"}
  /\ ~it.reply
  /\ it.wired => it.http = "Init" /\ ~it.timer
  /\ it.request # "open" /\ (it.request = "failed" => ~it.wired)
  /\ it.status = "Finished" => f \in answered \/ f \in Vanishing
  /\ it.removed => f \notin disk /\ f \in answered

ItemInv ==
  \A f \in Files :
    /\ completions[f] = 0 => Incomplete(items[f], f)
    /\ completions[f] = 1 => Settled(items[f], f)

IInv == TypeOK /\ ItemInv /\ AnsweredOrKept

(* What the handlers do is an item again.                                  *)
LEMMA StartType ==
  ASSUME NEW it \in Item, NEW readable \in BOOLEAN
  PROVE  StartUpload(it, readable) \in Item
<1>1. CASE readable
  BY <1>1 DEF Item, ItemStatus, ClientState, RequestState, StartUpload
<1>2. CASE ~readable
  BY <1>2 DEF Item, ItemStatus, ClientState, RequestState, StartUpload
<1> QED BY <1>1, <1>2

LEMMA ProgressType ==
  ASSUME NEW it \in Item
  PROVE  HandleUploadProgress(it) \in Item
BY DEF Item, ClientState, HandleUploadProgress

LEMMA NewItemType == NewItem \in Item
BY DEF Item, ItemStatus, ClientState, RequestState, NewItem

LEMMA Finishes ==
  ASSUME NEW it \in Item
  PROVE  LET x == HandleFinished(it)
         IN  /\ x \in Item /\ ~x.reply /\ ~x.timer /\ x.http = "Init"
             /\ x.status = (IF it.wired THEN "Finished" ELSE it.status)
             /\ x.wired = it.wired /\ x.request = it.request
             /\ x.removed = (it.removed \/ it.reply)
BY DEF HandleFinished, Item, ItemStatus, ClientState

LEMMA Ends ==
  ASSUME NEW it \in Item
  PROVE  LET x == End(it)
         IN  /\ x \in Item /\ ~x.reply /\ ~x.timer /\ x.http = "Init"
             /\ x.status = (IF it.wired THEN "Finished" ELSE it.status)
             /\ x.wired = it.wired /\ x.request = "none"
             /\ x.removed = (it.removed \/ it.reply)
<1> DEFINE d == [it EXCEPT !.request = "none"]
<1>1. /\ d \in Item /\ d.request = "none" /\ d.status = it.status /\ d.wired = it.wired
      /\ d.removed = it.removed /\ d.reply = it.reply
  BY DEF Item, RequestState
<1>2. End(it) = HandleFinished(d)
  BY DEF End
<1> HIDE DEF d
<1> QED BY <1>1, <1>2, Finishes

LEMMA Fails ==
  ASSUME NEW it \in Item
  PROVE  LET x == Fail(it)
         IN  /\ x \in Item /\ ~x.reply /\ ~x.wired /\ x.request = "failed"
             /\ x.status = (IF it.status = "Cancelled" THEN "Cancelled" ELSE "Error")
             /\ x.removed = it.removed
BY DEF Fail, HandleError, Item, ItemStatus, RequestState

(* The client is cancelled with a request, or without one.                 *)
LEMMA HttpCancels ==
  ASSUME NEW it \in Item
  PROVE  LET x == HttpCancel(it)
         IN  /\ x \in Item /\ ~x.reply /\ ~x.timer /\ x.http = "Init"
             /\ x.removed = it.removed
             /\ IF it.reply
                THEN /\ ~x.wired /\ x.request = "none"
                     /\ x.status = (IF it.status = "Cancelled" THEN "Cancelled" ELSE "Error")
                ELSE /\ x.wired = it.wired /\ x.request = it.request
                     /\ x.status = (IF it.wired THEN "Finished" ELSE it.status)
<1>1. CASE it.reply
  <2> DEFINE e == End(Fail(it))
             d == [e EXCEPT !.reply = FALSE]
  <2>1. /\ Fail(it) \in Item /\ ~Fail(it).reply /\ ~Fail(it).wired
        /\ Fail(it).removed = it.removed
        /\ Fail(it).status = (IF it.status = "Cancelled" THEN "Cancelled" ELSE "Error")
    BY Fails
  <2>2. /\ e \in Item /\ ~e.reply /\ e.wired = Fail(it).wired /\ e.request = "none"
        /\ e.removed = (Fail(it).removed \/ Fail(it).reply)
        /\ e.status = (IF Fail(it).wired THEN "Finished" ELSE Fail(it).status)
    BY <2>1, Ends
  <2>3. HttpCancel(it) = HandleFinished(d)
    BY <1>1 DEF HttpCancel
  <2> HIDE DEF e
  <2>4. /\ d \in Item /\ ~d.reply /\ d.wired = e.wired /\ d.request = e.request
        /\ d.removed = e.removed /\ d.status = e.status
    BY <2>2 DEF Item
  <2> HIDE DEF d
  <2>5. e.removed = it.removed
    BY <2>1, <2>2 DEF Item
  <2>6. HandleFinished(d).removed = (d.removed \/ d.reply)
    BY <2>4, Finishes
  <2>7. HandleFinished(d).removed = it.removed
    BY <2>4, <2>5, <2>6 DEF Item
  <2> QED BY <1>1, <2>1, <2>2, <2>3, <2>4, <2>7, Finishes
<1>2. CASE ~it.reply
  <2>1. HttpCancel(it) = HandleFinished(it)
    BY <1>2 DEF HttpCancel
  <2>2. (it.removed \/ it.reply) = it.removed
    BY <1>2 DEF Item
  <2> QED BY <1>2, <2>1, <2>2, Finishes
<1> QED BY <1>1, <1>2

(* The invariant of a file that a step leaves alone stays true, if nothing *)
(* is taken from answered, and from disk only its file, if it is removed.  *)
LEMMA OthersStay ==
  ASSUME IInv, NEW f \in Files,
         items' \in [Files -> Item], completions' \in [Files -> {0, 1}],
         \A g \in Files \ {f} : /\ items'[g] = items[g]
                                /\ completions'[g] = completions[g]
                                /\ g \in disk' <=> g \in disk
                                /\ g \in answered' <=> g \in answered,
         completions'[f] = 0 => Incomplete(items[f], f)',
         completions'[f] = 1 => Settled(items[f], f)'
  PROVE  ItemInv'
<1> SUFFICES ASSUME NEW g \in Files, g # f
             PROVE  /\ completions'[g] = 0 => Incomplete(items[g], g)'
                    /\ completions'[g] = 1 => Settled(items[g], g)'
  BY DEF ItemInv
<1> QED BY DEF IInv, ItemInv, Incomplete, Settled

\* The files of the others stay when an item changes, for none has removed its own.
LEMMA OtherFilesStay ==
  ASSUME IInv, NEW f \in Files, \A g \in Files \ {f} : items'[g] = items[g],
         disk' = Remaining(disk, items')
  PROVE  /\ disk' \subseteq Files
         /\ \A g \in Files \ {f} : g \in disk' <=> g \in disk
         /\ f \in disk' <=> f \in disk /\ ~items'[f].removed
<1>1. \A g \in Files : items[g].removed => g \notin disk
  BY DEF IInv, TypeOK, ItemInv, Incomplete, Settled, NewItem
<1>2. disk \subseteq Files
  BY DEF IInv, TypeOK
<1> QED BY <1>1, <1>2 DEF Remaining

\* The verdicts that are out are the same after the step.
VerdictsStay ==
  \A g \in Files : Completed(g) => /\ items'[g].status = items[g].status
                                   /\ completions'[g] = completions[g]

\* Item f becomes it, and takes its file with it when it has removed it.
Becomes(f, it) ==
  /\ items' = [items EXCEPT ![f] = it]
  /\ disk' = Remaining(disk, items')
  /\ answered \subseteq answered' /\ answered' \subseteq answered \cup {f}
  /\ it.removed /\ f \in disk => f \in answered'

(* What becomes of the other items, and of the files, when item f becomes  *)
(* it.                                                                     *)
LEMMA ItemBecomes ==
  ASSUME IInv, NEW f \in Files, NEW it \in Item, Becomes(f, it),
         completions' \in [Files -> {0, 1}],
         \A g \in Files \ {f} : completions'[g] = completions[g],
         completions'[f] = 1, Settled(it, f)',
         Completed(f) => it.status = items[f].status /\ completions'[f] = completions[f]
  PROVE  IInv' /\ VerdictsStay
<1>1. /\ items \in [Files -> Item]
      /\ answered \subseteq Files /\ AnsweredOrKept
  BY DEF IInv, TypeOK
<1>2. /\ items' \in [Files -> Item] /\ items'[f] = it
      /\ \A g \in Files \ {f} : items'[g] = items[g]
  BY <1>1 DEF Becomes
<1>4. /\ disk' \subseteq Files
      /\ \A g \in Files \ {f} : g \in disk' <=> g \in disk
      /\ f \in disk' <=> f \in disk /\ ~it.removed
  BY <1>2, OtherFilesStay DEF Becomes
<1>5. Settled(items[f], f)'
  BY <1>2 DEF Settled
<1>6. \A g \in Files \ {f} : g \in answered' <=> g \in answered
  BY DEF Becomes
<1>7. ItemInv'
  BY <1>2, <1>4, <1>5, <1>6, OthersStay
<1>8. TypeOK'
  BY <1>1, <1>2, <1>4 DEF TypeOK, Becomes
<1>9. AnsweredOrKept'
  BY <1>1, <1>4 DEF AnsweredOrKept, Becomes
<1>10. VerdictsStay
  BY <1>2 DEF VerdictsStay
<1> QED BY <1>7, <1>8, <1>9, <1>10 DEF IInv

\* The item completes.
LEMMA ItemCompletes ==
  ASSUME IInv, NEW f \in Files, NEW it \in Item, Becomes(f, it),
         completions[f] = 0, Complete(f, TRUE), Settled(it, f)'
  PROVE  IInv' /\ VerdictsStay
<1>1. completions \in [Files -> {0, 1}]
  BY DEF IInv, TypeOK
<1>2. completions' = [completions EXCEPT ![f] = 1]
  BY DEF Complete
<1>3. ~Completed(f)
  BY DEF Completed
<1>4. /\ completions' \in [Files -> {0, 1}] /\ completions'[f] = 1
      /\ \A g \in Files \ {f} : completions'[g] = completions[g]
  BY <1>1, <1>2
<1> QED BY <1>3, <1>4, ItemBecomes

\* It has completed before.
LEMMA ItemHasCompleted ==
  ASSUME IInv, NEW f \in Files, NEW it \in Item, Becomes(f, it),
         completions[f] = 1, Complete(f, FALSE), Settled(it, f)',
         it.status = items[f].status
  PROVE  IInv' /\ VerdictsStay
<1>1. completions \in [Files -> {0, 1}]
  BY DEF IInv, TypeOK
<1>2. completions' = completions
  BY DEF Complete
<1>3. /\ completions' \in [Files -> {0, 1}] /\ completions'[f] = 1
      /\ \A g \in Files \ {f} : completions'[g] = completions[g]
  BY <1>1, <1>2
<1> QED BY <1>2, <1>3, ItemBecomes

(* Each event keeps the invariant, and the verdict of an item that has     *)
(* completed.                                                              *)
LEMMA StepKeepsInv ==
  ASSUME IInv, NEW f \in Files, ItemNext(f)
  PROVE  IInv' /\ VerdictsStay
<1>1. /\ items[f] \in Item /\ completions[f] \in {0, 1}
      /\ items \in [Files -> Item] /\ completions \in [Files -> {0, 1}]
  BY DEF IInv, TypeOK
<1>2. /\ completions[f] = 0 => Incomplete(items[f], f)
      /\ completions[f] = 1 => Settled(items[f], f)
  BY DEF IInv, ItemInv
<1>3. CASE Start(f)
  <2>1. completions[f] = 0 /\ items[f] = NewItem
    BY <1>1, <1>2, <1>3 DEF Start, Incomplete, Settled
  <2>2. items'[f] = StartUpload(NewItem, f \in disk) /\ items' \in [Files -> Item]
    <3>1. (f \in disk) \in BOOLEAN
      OBVIOUS
    <3>2. StartUpload(items[f], f \in disk) \in Item
      BY <1>1, <3>1, StartType
    <3> QED BY <1>1, <1>3, <2>1, <3>2 DEF Start
  <2>3. Incomplete(items[f], f)'
    <3>1. CASE f \in disk
      BY <2>2, <3>1 DEF StartUpload, Incomplete, NewItem
    <3>2. CASE f \notin disk
      <4>1. f \in Vanishing
        BY <1>2, <2>1, <3>2 DEF Incomplete, NewItem
      <4> QED BY <2>2, <3>2, <4>1 DEF StartUpload, Incomplete, NewItem
    <3> QED BY <3>1, <3>2
  <2>4. ItemInv'
    BY <1>1, <1>3, <2>1, <2>2, <2>3, OthersStay DEF Start
  <2> QED
    BY <1>1, <1>3, <2>1, <2>2, <2>4
    DEF IInv, TypeOK, AnsweredOrKept, Start, VerdictsStay, Completed
<1>4. CASE Progress(f)
  <2>1. /\ completions[f] = 0 /\ items[f].status = "Sending" /\ items[f].reply
        /\ Incomplete(items[f], f)
    BY <1>1, <1>2, <1>4 DEF Progress, Incomplete, Settled, NewItem
  <2>2. items'[f] = HandleUploadProgress(items[f]) /\ items' \in [Files -> Item]
    BY <1>1, <1>4, ProgressType DEF Progress
  <2>3. Incomplete(items[f], f)'
    BY <1>1, <2>1, <2>2 DEF HandleUploadProgress, Incomplete, NewItem, Item
  <2>4. ItemInv'
    BY <1>1, <1>4, <2>1, <2>2, <2>3, OthersStay DEF Progress
  <2> QED
    BY <1>1, <1>4, <2>1, <2>2, <2>4
    DEF IInv, TypeOK, AnsweredOrKept, Progress, VerdictsStay, Completed
<1>5. CASE ReplyFinished(f)
  <2>0. PICK it \in Item : it = End(items[f])
    BY <1>1, Ends
  <2>1. completions[f] = 0 /\ items[f].wired = TRUE /\ items[f].reply
    BY <1>1, <1>2, <1>5 DEF ReplyFinished, Incomplete, Settled, NewItem, Item
  <2>2. /\ items' = [items EXCEPT ![f] = it] /\ disk' = Remaining(disk, items')
        /\ answered' = answered \cup {f} /\ Complete(f, TRUE)
    BY <1>5, <2>0, <2>1 DEF ReplyFinished
  <2>3. /\ it \in Item /\ ~it.reply /\ ~it.timer /\ it.http = "Init"
        /\ it.status = "Finished" /\ it.request = "none"
    BY <1>1, <2>0, <2>1, Ends
  <2>4. f \in answered' /\ it.removed
    BY <1>1, <2>0, <2>1, <2>2, Ends
  <2>5. f \notin disk'
    BY <1>1, <2>2, <2>3, <2>4 DEF Remaining
  <2>6. Settled(it, f)'
    BY <2>3, <2>4, <2>5 DEF Settled
  <2>9. Becomes(f, it)
    BY <2>2, <2>4 DEF Becomes
  <2> QED BY <2>1, <2>2, <2>6, <2>9, ItemCompletes
<1>6. CASE ReplyError(f)
  <2>0. PICK it \in Item : it = Fail(items[f])
    BY <1>1, Fails
  <2>1. /\ completions[f] = 0 /\ items[f].wired = TRUE /\ items[f].status = "Sending"
        /\ ~items[f].removed
    BY <1>1, <1>2, <1>6 DEF ReplyError, Incomplete, Settled, NewItem, Item
  <2>2. /\ items' = [items EXCEPT ![f] = it] /\ disk' = Remaining(disk, items')
        /\ answered' = answered /\ Complete(f, TRUE)
    BY <1>6, <2>0, <2>1 DEF ReplyError
  <2>3. /\ it \in Item /\ ~it.reply /\ ~it.wired /\ it.request = "failed"
        /\ it.status = "Error" /\ ~it.removed
    BY <1>1, <2>0, <2>1, Fails
  <2>4. Settled(it, f)'
    BY <2>3 DEF Settled
  <2>9. Becomes(f, it)
    BY <2>2, <2>3 DEF Becomes
  <2> QED BY <2>1, <2>2, <2>4, <2>9, ItemCompletes
<1>7. CASE ReplyFinishedAfterError(f)
  <2>0. PICK it \in Item : it = End(items[f])
    BY <1>1, Ends
  <2>1. completions[f] = 1 /\ items[f].wired = FALSE /\ ~items[f].reply
    BY <1>1, <1>2, <1>7 DEF ReplyFinishedAfterError, Incomplete, Settled, NewItem, Item
  <2>2. /\ items' = [items EXCEPT ![f] = it] /\ disk' = Remaining(disk, items')
        /\ answered' = answered /\ Complete(f, FALSE)
    BY <1>7, <2>0, <2>1 DEF ReplyFinishedAfterError
  <2>3. /\ it \in Item /\ ~it.reply /\ ~it.wired /\ it.request = "none"
        /\ it.status = items[f].status
    BY <1>1, <2>0, <2>1, Ends
  <2>4. it.removed => items[f].removed
    BY <1>1, <2>0, <2>1, Ends
  <2>5. Settled(items[f], f) /\ disk' \subseteq disk
    BY <1>2, <2>1, <2>2 DEF Remaining
  <2>6. Settled(it, f)'
    BY <2>2, <2>3, <2>4, <2>5 DEF Settled
  <2>7. it.removed => f \notin disk
    BY <2>4, <2>5 DEF Settled
  <2>9. Becomes(f, it)
    BY <2>2, <2>7 DEF Becomes
  <2> QED BY <2>1, <2>2, <2>3, <2>6, <2>9, ItemHasCompleted
<1>8. CASE ConnectionTimeout(f)
  <2>0. PICK it \in Item, emits \in BOOLEAN : it = HttpCancel(items[f]) /\ emits = items[f].wired
    BY <1>1, HttpCancels DEF Item
  <2>1. /\ items' = [items EXCEPT ![f] = it] /\ disk' = Remaining(disk, items')
        /\ answered' = answered /\ Complete(f, emits)
    BY <1>8, <2>0 DEF ConnectionTimeout
  <2>2. it \in Item /\ it.removed = items[f].removed
    BY <1>1, <2>0, HttpCancels
  <2>3. CASE completions[f] = 0
    <3>1. /\ emits = TRUE /\ items[f].reply /\ items[f].status = "Sending"
          /\ ~items[f].removed
      BY <1>1, <1>2, <1>8, <2>0, <2>3 DEF ConnectionTimeout, Incomplete, NewItem, Item
    <3>2. /\ ~it.reply /\ ~it.wired /\ it.request = "none" /\ it.status = "Error"
      BY <1>1, <2>0, <3>1, HttpCancels
    <3>3. Settled(it, f)'
      BY <2>2, <3>1, <3>2 DEF Settled
    <3>4. Becomes(f, it) /\ Complete(f, TRUE)
      BY <2>1, <2>2, <3>1 DEF Becomes
    <3> QED BY <2>3, <3>3, <3>4, ItemCompletes
  <2>4. CASE completions[f] = 1
    <3>1. emits = FALSE /\ ~items[f].reply /\ Settled(items[f], f)
      BY <1>1, <1>2, <1>8, <2>0, <2>4 DEF ConnectionTimeout, Settled, Item
    <3>2. /\ ~it.reply /\ ~it.wired /\ it.request = items[f].request
          /\ it.status = items[f].status
      BY <1>1, <2>0, <3>1, HttpCancels
    <3>3. disk' \subseteq disk
      BY <2>1 DEF Remaining
    <3>4. Settled(it, f)'
      BY <2>1, <2>2, <3>1, <3>2, <3>3 DEF Settled
    <3>5. it.removed => f \notin disk
      BY <2>2, <3>1 DEF Settled
    <3>6. Becomes(f, it) /\ Complete(f, FALSE)
      BY <2>1, <3>1, <3>5 DEF Becomes
    <3> QED BY <2>4, <3>2, <3>4, <3>6, ItemHasCompleted
  <2> QED BY <1>1, <2>3, <2>4
<1>9. CASE CancelItem(f)
  <2> DEFINE c == [items[f] EXCEPT !.status = "Cancelled"]
  <2>1. completions[f] = 0 /\ Incomplete(items[f], f)
    BY <1>1, <1>2, <1>9 DEF CancelItem, Completed
  <2>2. /\ c \in Item /\ c.status = "Cancelled" /\ c.http = items[f].http
        /\ c.removed = items[f].removed /\ c.reply = items[f].reply
        /\ c.wired = items[f].wired /\ c.request = items[f].request
    BY <1>1 DEF Item, ItemStatus
  <2>3. Cancel(items[f]) = IF c.http = "None" THEN c ELSE HttpCancel(c)
    BY <2>2 DEF Cancel
  <2> HIDE DEF c
  <2>0. PICK it \in Item : it = Cancel(items[f])
    BY <2>2, <2>3, HttpCancels
  <2>4. it \in Item /\ ~it.removed
    <3>1. ~items[f].removed
      BY <2>1 DEF Incomplete, NewItem
    <3> QED BY <2>0, <2>2, <2>3, <3>1, HttpCancels
  <2>5. CancelCompletes(items[f]) = TRUE
    BY <2>1 DEF CancelCompletes, Incomplete, NewItem
  <2>6. /\ items' = [items EXCEPT ![f] = it] /\ disk' = Remaining(disk, items')
        /\ answered' = answered /\ Complete(f, TRUE)
    BY <1>9, <2>0, <2>5 DEF CancelItem
  <2>7. Settled(it, f)'
    <3>1. CASE items[f] = NewItem
      <4>1. /\ it = c /\ ~c.reply /\ ~c.wired /\ c.request = "none"
        BY <2>0, <2>2, <2>3, <3>1 DEF NewItem
      <4> QED BY <2>2, <2>4, <4>1 DEF Settled
    <3>2. CASE items[f].reply /\ items[f].http # "None"
      <4>1. it = HttpCancel(c) /\ c.reply
        BY <2>0, <2>2, <2>3, <3>2
      <4>2. /\ ~it.reply /\ ~it.wired /\ it.request = "none" /\ it.status = "Cancelled"
        BY <2>2, <4>1, HttpCancels
      <4> QED BY <2>4, <4>2 DEF Settled
    <3>3. CASE /\ ~items[f].reply /\ items[f].http = "Init" /\ items[f].request = "none"
               /\ f \in Vanishing
      <4>1. it = HttpCancel(c) /\ ~c.reply /\ c.request = "none"
        BY <2>0, <2>2, <2>3, <3>3
      <4>2. /\ ~it.reply /\ ~it.timer /\ it.http = "Init" /\ it.request = "none"
            /\ it.status \in {"Finished", "Cancelled"}
        BY <2>2, <4>1, HttpCancels
      <4> QED BY <2>4, <3>3, <4>2 DEF Settled
    <3> QED BY <2>1, <3>1, <3>2, <3>3 DEF Incomplete
  <2>8. Becomes(f, it)
    BY <2>4, <2>6 DEF Becomes
  <2> QED BY <2>1, <2>6, <2>7, <2>8, ItemCompletes
<1>10. CASE FileVanishes(f)
  <2>1. Incomplete(items[f], f) => Incomplete(items[f], f)'
    BY <1>10 DEF FileVanishes, Incomplete
  <2>2. Settled(items[f], f) => Settled(items[f], f)'
    BY <1>10 DEF FileVanishes, Settled
  <2>3. ItemInv'
    BY <1>1, <1>2, <1>10, <2>1, <2>2, OthersStay DEF FileVanishes
  <2> QED
    BY <1>1, <1>10, <2>3
    DEF IInv, TypeOK, AnsweredOrKept, FileVanishes, VerdictsStay
<1> QED
  BY <1>3, <1>4, <1>5, <1>6, <1>7, <1>8, <1>9, <1>10 DEF ItemNext

LEMMA InitInv == Init => IInv
BY NewItemType DEF Init, IInv, TypeOK, ItemInv, Incomplete, AnsweredOrKept

LEMMA NextInv == IInv /\ [Next]_vars => IInv'
<1> SUFFICES ASSUME IInv, [Next]_vars PROVE IInv'
  OBVIOUS
<1>1. CASE Next
  BY <1>1, StepKeepsInv DEF Next
<1>2. CASE UNCHANGED vars
  BY <1>2 DEF vars, IInv, TypeOK, ItemInv, Incomplete, Settled, AnsweredOrKept
<1> QED BY <1>1, <1>2

LEMMA Invariance == Spec => []IInv
BY InitInv, NextInv, PTL DEF Spec

(* Items keep their types, and none emits uploadFinished() twice.          *)
THEOREM TypeCorrect == Spec => []TypeOK
<1>1. IInv => TypeOK
  BY DEF IInv
<1> QED BY <1>1, Invariance, PTL

(* The client removes a report only when its request has ended without a   *)
(* network error; an error, a timeout or a cancellation, and the           *)
(* finished() that may follow each of them, leave the file alone.          *)
THEOREM NothingLost == Spec => []AnsweredOrKept
<1>1. IInv => AnsweredOrKept
  BY DEF IInv
<1> QED BY <1>1, Invariance, PTL

(* An item whose file could be read is Finished only if its request ended  *)
(* without a network error: neither an error nor a cancellation, late or   *)
(* early, makes it Finished.                                               *)
THEOREM FinishedMeansAnswered == Spec => []ReadableFinishedMeansAnswered
<1>1. IInv => ReadableFinishedMeansAnswered
  BY DEF IInv, TypeOK, ItemInv, Incomplete, Settled, NewItem, ReadableFinishedMeansAnswered
<1> QED BY <1>1, Invariance, PTL

(* What an item says of its upload when it completes stays so.             *)
THEOREM VerdictStays == Spec => VerdictIsFinal
<1>1. IInv /\ [Next]_vars =>
        [\A f \in Files : Completed(f) =>
           items'[f].status = items[f].status /\ completions'[f] = completions[f]]_vars
  BY StepKeepsInv DEF Next, VerdictsStay
<1> QED BY <1>1, Invariance, PTL DEF Spec, VerdictIsFinal
=============================================================================
