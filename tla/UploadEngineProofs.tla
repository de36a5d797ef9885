-------------------------- MODULE UploadEngineProofs --------------------------
(***************************************************************************)
(* Proofs about UploadEngine, for every set of files and every behaviour   *)
(* of the network.  The inductive invariant speaks of the state e of the   *)
(* pipeline, so that each slot gets a lemma of its own: what holds when it *)
(* is called, and what holds of every state it may end in.  A second row   *)
(* of lemmas says what a slot settles; on it rest the refinement of a      *)
(* batch, the contract of the items, and the count that finished() gives.  *)
(***************************************************************************)
EXTENDS UploadEngineRefinement, SequenceTheorems, FiniteSetTheorems, TLAPS

Requesting(it) == it.http \in {"Connecting", "Sending"}

(* The item listens to its client exactly while a request is under way,    *)
(* the timeout runs only then, and the client keeps the request exactly as *)
(* long as it has not failed.                                              *)
ItemSound(it) ==
  /\ it.reply => Requesting(it)
  /\ Requesting(it) => (it.wired <=> it.reply)
  /\ it.timer => Requesting(it)
  /\ it.http # "None" => it.status # "Waiting"
  /\ it.request = "open" <=> it.reply
  /\ it.request = "failed" => ~it.wired /\ it.http # "None"

Untouched(it) == it.status = "Waiting" /\ it.http = "None" /\ ~it.reply

(* Items in the queue are distinct, not yet started and not yet deleted.   *)
QueueSound(e) ==
  /\ \A m, n \in 1..Len(e.queue) : e.queue[m] = e.queue[n] => m = n
  /\ \A n \in 1..Len(e.queue) :
       Untouched(e.items[e.queue[n]]) /\ e.queue[n] \notin e.deleted

(* What holds of the pipeline whenever a slot runs.                        *)
Sound(e) ==
  /\ e \in Pipe
  /\ QueueSound(e)
  /\ \A f \in Files : ItemSound(e.items[f])

NoRequest(e) == \A f \in Files : ~e.items[f].reply

(* What holds while an item is being uploaded.                             *)
Uploading(e) ==
  /\ e.state \in {"Connecting", "Connected"}
  /\ e.current \in Files \ e.deleted
  /\ \A n \in 1..Len(e.queue) : e.queue[n] # e.current
  /\ CancelCompletes(e.items[e.current])
  /\ e.state = "Connecting" => Untouched(e.items[e.current])
  /\ \A f \in Files : e.items[f].reply => f = e.current

(* What holds before the first item and after the last.                    *)
Resting(e) ==
  /\ e.state \notin {"Connecting", "Connected"}
  /\ e.queue = <<>>
  /\ NoRequest(e)

PipeInv(e) ==
  /\ Sound(e)
  /\ IF e.notified THEN Uploading(e) ELSE Resting(e)

Tracked(e) ==
  e.deleted \cup Range(e.queue) \cup (IF e.notified THEN {e.current} ELSE {})

(* The inductive invariant.                                                *)
IInv ==
  /\ PipeInv(pipe)
  /\ requested = Tracked(pipe)
  /\ \A f \in Files \ requested : Untouched(pipe.items[f])
  /\ batch \subseteq requested
  /\ requested \subseteq Files
  /\ disk \subseteq Files
  /\ answered \subseteq Files
-----------------------------------------------------------------------------
(* Sequences                                                               *)

LEMMA RangeOfTail ==
  ASSUME NEW S, NEW q \in Seq(S), q # <<>>
  PROVE  Range(q) = {Head(q)} \cup Range(Tail(q))
<1>1. /\ Len(q) \in Nat \ {0} /\ DOMAIN q = 1..Len(q)
      /\ Tail(q) \in Seq(S) /\ Len(Tail(q)) = Len(q) - 1
      /\ DOMAIN Tail(q) = 1..Len(q) - 1
      /\ \A n \in 1..Len(q) - 1 : Tail(q)[n] = q[n + 1]
      /\ Head(q) = q[1]
  OBVIOUS
<1>2. ASSUME NEW x \in Range(q) PROVE x \in {Head(q)} \cup Range(Tail(q))
  <2>1. PICK n \in 1..Len(q) : x = q[n]
    BY <1>1 DEF Range
  <2>2. CASE n = 1
    BY <1>1, <2>1, <2>2
  <2>3. CASE n # 1
    <3>1. n - 1 \in 1..Len(q) - 1 /\ Tail(q)[n - 1] = x
      BY <1>1, <2>1, <2>3
    <3>2. QED  BY <1>1, <3>1 DEF Range
  <2>4. QED  BY <2>2, <2>3
<1>3. ASSUME NEW x \in {Head(q)} \cup Range(Tail(q)) PROVE x \in Range(q)
  <2>1. CASE x = Head(q)
    BY <1>1, <2>1 DEF Range
  <2>2. CASE x \in Range(Tail(q))
    <3>1. PICK n \in 1..Len(q) - 1 : x = Tail(q)[n]
      BY <1>1, <2>2 DEF Range
    <3>2. n + 1 \in 1..Len(q) /\ q[n + 1] = x
      BY <1>1, <3>1
    <3>3. QED  BY <1>1, <3>2 DEF Range
  <2>3. QED  BY <2>1, <2>2
<1>4. QED  BY <1>2, <1>3

LEMMA RangeOfAppend ==
  ASSUME NEW S, NEW q \in Seq(S), NEW x \in S
  PROVE  Range(Append(q, x)) = Range(q) \cup {x}
<1>1. /\ Len(q) \in Nat /\ DOMAIN q = 1..Len(q)
      /\ Append(q, x) \in Seq(S)
      /\ DOMAIN Append(q, x) = 1..Len(q) + 1
      /\ \A n \in 1..Len(q) : Append(q, x)[n] = q[n]
      /\ Append(q, x)[Len(q) + 1] = x
  OBVIOUS
<1>2. ASSUME NEW y \in Range(Append(q, x)) PROVE y \in Range(q) \cup {x}
  <2>1. PICK n \in 1..Len(q) + 1 : y = Append(q, x)[n]
    BY <1>1 DEF Range
  <2>2. n \in 1..Len(q) \/ n = Len(q) + 1
    BY <1>1
  <2>3. QED  BY <1>1, <2>1, <2>2 DEF Range
<1>3. ASSUME NEW y \in Range(q) \cup {x} PROVE y \in Range(Append(q, x))
  <2>1. CASE y = x
    <3>1. Len(q) + 1 \in DOMAIN Append(q, x)
      BY <1>1
    <3>2. QED  BY <1>1, <2>1, <3>1 DEF Range
  <2>2. CASE y \in Range(q)
    <3>1. PICK n \in 1..Len(q) : y = q[n]
      BY <1>1, <2>2 DEF Range
    <3>2. n \in DOMAIN Append(q, x)
      BY <1>1
    <3>3. QED  BY <1>1, <3>1, <3>2 DEF Range
  <2>3. QED  BY <2>1, <2>2
<1>4. QED  BY <1>2, <1>3

LEMMA RangeOfEmpty == Range(<<>>) = {}
BY DEF Range

-----------------------------------------------------------------------------
(* Items                                                                   *)

LEMMA StartHandler ==
  ASSUME NEW it \in Item, NEW readable
  PROVE  LET s == StartUpload(it, readable)
         IN  s \in Item /\ ItemSound(s) /\ s.wired /\ s.removed = it.removed
<1> USE DEF StartUpload, Item, ItemStatus, ClientState, RequestState, ItemSound, Requesting
<1>1. CASE readable
  BY <1>1
<1>2. CASE ~readable
  BY <1>2
<1>3. QED  BY <1>1, <1>2

LEMMA ProgressHandler ==
  ASSUME NEW it \in Item, ItemSound(it), it.request = "open"
  PROVE  LET p == HandleUploadProgress(it)
         IN  /\ p \in Item /\ ItemSound(p) /\ Requesting(it)
             /\ p.wired = it.wired /\ p.status = it.status /\ p.reply = it.reply
             /\ p.removed = it.removed
BY DEF HandleUploadProgress, Item, ItemStatus, ClientState, ItemSound, Requesting

LEMMA ErrorHandler ==
  ASSUME NEW it \in Item, ItemSound(it), it.request = "open"
  PROVE  LET x == Fail(it)
         IN  /\ x \in Item /\ ItemSound(x) /\ ~x.reply /\ ~x.wired
             /\ x.removed = it.removed /\ x.status # "Waiting"
BY DEF Fail, HandleError, Item, ItemStatus, ClientState, RequestState, ItemSound, Requesting

LEMMA CleanUpHandler ==
  ASSUME NEW it \in Item, it.status # "Waiting",
         it.request # "open", it.request = "failed" => ~it.wired
  PROVE  LET x == HandleFinished(it)
         IN  /\ x \in Item /\ ItemSound(x) /\ ~x.reply
             /\ x.removed = (it.removed \/ it.reply)
BY DEF HandleFinished, Item, ItemStatus, ClientState, RequestState, ItemSound, Requesting

LEMMA FinishedHandler ==
  ASSUME NEW it \in Item, it.status # "Waiting"
  PROVE  LET x == End(it)
         IN  /\ x \in Item /\ ItemSound(x) /\ ~x.reply
             /\ x.removed = (it.removed \/ it.reply) /\ x.wired = it.wired
<1> DEFINE d == [it EXCEPT !.request = "none"]
<1>1. /\ d \in Item /\ d.request = "none" /\ d.status = it.status
      /\ d.removed = it.removed /\ d.reply = it.reply /\ d.wired = it.wired
  BY DEF Item, RequestState
<1> HIDE DEF d
<1>2. HandleFinished(d).wired = d.wired
  BY <1>1 DEF HandleFinished, Item
<1>3. End(it) = HandleFinished(d)
  BY DEF End, d
<1> QED BY <1>1, <1>2, <1>3, CleanUpHandler

LEMMA HttpCancelHandler ==
  ASSUME NEW it \in Item, ItemSound(it), it.status # "Waiting"
  PROVE  LET x == HttpCancel(it)
         IN  x \in Item /\ ItemSound(x) /\ ~x.reply /\ x.removed = it.removed
<1>1. CASE it.reply
  <2> DEFINE e == End(Fail(it))
             d == [e EXCEPT !.reply = FALSE]
  <2>1. /\ Fail(it) \in Item /\ ~Fail(it).reply /\ Fail(it).removed = it.removed
        /\ Fail(it).status # "Waiting"
    BY <1>1, ErrorHandler DEF ItemSound
  <2>2. /\ e \in Item /\ ItemSound(e) /\ ~e.reply /\ e.removed = it.removed
        /\ e.status # "Waiting"
    <3>1. e.removed = (Fail(it).removed \/ Fail(it).reply)
      BY <2>1, FinishedHandler
    <3>2. e.status # "Waiting"
      BY <2>1 DEF End, HandleFinished, Item
    <3> QED BY <2>1, <3>1, <3>2, FinishedHandler DEF Item
  <2> HIDE DEF e
  <2>3. d = e
    BY <2>2 DEF Item
  <2>4. HttpCancel(it) = HandleFinished(d)
    BY <1>1 DEF HttpCancel, e
  <2>5. e.request # "open" /\ (e.request = "failed" => ~e.wired)
    BY <2>2 DEF ItemSound
  <2>6. HandleFinished(e).removed = (e.removed \/ e.reply)
    BY <2>2, <2>5, CleanUpHandler
  <2>7. HandleFinished(e).removed = e.removed
    BY <2>2, <2>6 DEF Item
  <2>8. HttpCancel(it) = HandleFinished(e)
    BY <2>3, <2>4
  <2>9. HandleFinished(e) \in Item /\ ItemSound(HandleFinished(e)) /\ ~HandleFinished(e).reply
    BY <2>2, <2>5, CleanUpHandler
  <2> QED BY <2>2, <2>7, <2>8, <2>9
<1>2. CASE ~it.reply
  <2>1. HttpCancel(it) = HandleFinished(it)
    BY <1>2 DEF HttpCancel
  <2> QED BY <1>2, <2>1, CleanUpHandler DEF ItemSound, Item
<1>3. QED  BY <1>1, <1>2

LEMMA CancelHandler ==
  ASSUME NEW it \in Item, ItemSound(it)
  PROVE  /\ Cancel(it) \in Item /\ ItemSound(Cancel(it)) /\ ~Cancel(it).reply
         /\ Cancel(it).removed = it.removed
<1> DEFINE c == [it EXCEPT !.status = "Cancelled"]
<1>1. /\ c \in Item /\ ItemSound(c) /\ c.http = it.http /\ c.removed = it.removed
      /\ c.status = "Cancelled"
  BY DEF Item, ItemStatus, ItemSound, Requesting
<1>2. it.http = "None" => ~c.reply
  BY DEF Item, ItemSound, Requesting
<1>3. /\ HttpCancel(c) \in Item /\ ItemSound(HttpCancel(c)) /\ ~HttpCancel(c).reply
      /\ HttpCancel(c).removed = it.removed
  BY <1>1, HttpCancelHandler
<1>4. QED  BY <1>1, <1>2, <1>3 DEF Cancel
-----------------------------------------------------------------------------
(* Slots                                                                   *)

LEMMA FirstErrorType ==
  \A old, new \in ErrorType : FirstError(old, new) \in ErrorType
BY DEF FirstError

LEMMA QueueFiles ==
  ASSUME NEW e \in Pipe
  PROVE  /\ Range(e.queue) \subseteq Files
         /\ \A n \in 1..Len(e.queue) : e.queue[n] \in Range(e.queue)
<1>1. e.queue \in Seq(Files)
  BY DEF Pipe
<1>2. \A n \in 1..Len(e.queue) : e.queue[n] \in Files
  BY <1>1
<1>3. QED  BY <1>1, <1>2 DEF Range

(* queueDone() adds one report and leaves the engine closing its session   *)
(* or without one.                                                         *)
LEMMA QueueDoneResult ==
  ASSUME NEW e \in Pipe
  PROVE  LET r == QueueDone(e)
         IN  /\ r \in Pipe
             /\ r.state \notin {"Connecting", "Connected"}
             /\ Len(r.reports) = Len(e.reports) + 1
             /\ r.items = e.items /\ r.queue = e.queue
             /\ r.notified = e.notified /\ r.deleted = e.deleted
<1> DEFINE st  == IF e.state = "NoConnection" THEN e.state ELSE "Closing"
           ses == IF e.state # "NoConnection" /\ e.session = "open"
                  THEN "idle" ELSE e.session
           rep == [error |-> e.error, sent |-> e.sent, total |-> e.nbrOfItems]
           all == Append(e.reports, rep)
<1>1. st \in EngineState /\ st \notin {"Connecting", "Connected"}
  BY DEF Pipe, EngineState
<1>2. ses \in SessionState
  BY DEF Pipe, SessionState
<1>3. all \in Seq(Report) /\ Len(all) = Len(e.reports) + 1
  <2>1. rep \in Report /\ e.reports \in Seq(Report)
    BY DEF Pipe, Report
  <2>2. QED  BY <2>1
<1> DEFINE r == [e EXCEPT !.state = st, !.session = ses, !.sent = 0, !.reports = all]
<1>4. QueueDone(e) = r
  BY DEF QueueDone
<1> HIDE DEF st, ses, rep, all
<1>5. /\ r \in Pipe /\ r.state = st /\ r.reports = all
      /\ r.items = e.items /\ r.queue = e.queue /\ r.deleted = e.deleted
  BY <1>1, <1>2, <1>3 DEF Pipe
<1>6. r.notified = e.notified
  BY DEF Pipe
<1>7. QED  BY <1>1, <1>3, <1>4, <1>5, <1>6

(* Reporting on an empty queue: the pipeline rests.                        *)
LEMMA LastItemFinishedSound ==
  ASSUME NEW e \in Pipe, NEW f \in Files,
         \A g \in Files : ItemSound(e.items[g]),
         NoRequest(e), e.queue = <<>>
  PROVE  LET r == LastItemFinished(e, f)
         IN  /\ PipeInv(r)
             /\ Tracked(r) = e.deleted \cup {f}
             /\ r.items = e.items
<1> DEFINE d == [e EXCEPT !.deleted = @ \cup {f}, !.notified = FALSE]
           r == LastItemFinished(e, f)
<1>1. /\ d \in Pipe /\ d.items = e.items /\ d.queue = <<>>
      /\ ~d.notified /\ d.deleted = e.deleted \cup {f}
  BY DEF Pipe
<1>2. r = QueueDone(d)
  BY DEF LastItemFinished
<1> HIDE DEF d, r
<1>3. /\ r \in Pipe /\ r.items = e.items /\ r.queue = <<>>
      /\ ~r.notified /\ r.deleted = e.deleted \cup {f}
      /\ r.state \notin {"Connecting", "Connected"}
  BY <1>1, <1>2, QueueDoneResult
<1>4. Resting(r) /\ QueueSound(r)
  BY <1>3 DEF Resting, NoRequest, QueueSound
<1>5. Tracked(r) = e.deleted \cup {f}
  BY <1>3, RangeOfEmpty DEF Tracked
<1>6. QED
  BY <1>3, <1>4, <1>5 DEF PipeInv, Sound, r

(* Giving up: what was queued is deleted with the current item.            *)
LEMMA AbandonSound ==
  ASSUME NEW e \in Pipe, NEW f \in Files,
         \A g \in Files : ItemSound(e.items[g]),
         NoRequest(e)
  PROVE  LET r == Abandon(e, f)
         IN  /\ PipeInv(r)
             /\ Tracked(r) = e.deleted \cup Range(e.queue) \cup {f}
             /\ r.items = e.items
<1> DEFINE err == FirstError(e.error, "ProtocolError")
           b == [e EXCEPT !.error = err]
           c == Clear(b)
<1>1. err \in ErrorType
  BY FirstErrorType DEF Pipe, ErrorType
<1>2. Abandon(e, f) = LastItemFinished(c, f)
  BY DEF Abandon
<1> HIDE DEF err
<1>3. /\ b \in Pipe /\ b.items = e.items /\ b.queue = e.queue
      /\ b.deleted = e.deleted
  BY <1>1 DEF Pipe
<1> HIDE DEF b
<1>4. /\ c \in Pipe /\ c.items = e.items /\ c.queue = <<>>
      /\ c.deleted = e.deleted \cup Range(e.queue)
  <2> DEFINE none == <<>>
             del  == b.deleted \cup Range(b.queue)
  <2>1. none \in Seq(Files) /\ none = <<>>
    OBVIOUS
  <2>2. del \in SUBSET Files
    BY <1>3, QueueFiles DEF Pipe
  <2>3. c = [b EXCEPT !.queue = none, !.deleted = del]
    BY DEF Clear
  <2> HIDE DEF none, del
  <2>4. c \in Pipe /\ c.queue = none /\ c.deleted = del
        /\ c.items = b.items
    BY <1>3, <2>1, <2>2, <2>3 DEF Pipe
  <2>5. QED  BY <1>3, <2>1, <2>4 DEF del
<1> HIDE DEF c
<1>5. NoRequest(c) /\ \A g \in Files : ItemSound(c.items[g])
  BY <1>4 DEF NoRequest
<1>6. QED
  BY <1>2, <1>4, <1>5, LastItemFinishedSound
(* The pipeline has moved from e to r: it is sound again, T are the files  *)
(* it has seen so far, and the items of others have not been touched.      *)
MovesTo(e, r, T) ==
  /\ PipeInv(r)
  /\ Tracked(r) = T
  /\ \A g \in Files \ T : r.items[g] = e.items[g]

LEMMA OpenOutcomesType ==
  ASSUME NEW session \in SessionState, NEW o \in OpenOutcomes(session)
  PROVE  o.result \in {"ready", "pending", "failed"} /\ o.session \in SessionState
BY DEF OpenOutcomes, SessionState

(* Taking the next item: afterwards it is being uploaded, or the session   *)
(* failed at once and everything has been given up.                        *)
LEMMA UploadNextSound ==
  ASSUME NEW e, Sound(e), e.notified, NoRequest(e),
         e.queue # <<>>, NEW r \in UploadNext(e)
  PROVE  MovesTo(e, r, e.deleted \cup Range(e.queue))
<1> DEFINE f == Head(e.queue)
           rest == Tail(e.queue)
           T == e.deleted \cup Range(e.queue)
           taken == [e EXCEPT !.queue = Tail(@), !.current = f]
<1>1. e \in Pipe /\ e.queue \in Seq(Files) /\ e.items \in [Files -> Item]
      /\ e.deleted \subseteq Files
  BY DEF Sound, Pipe
<1>2. /\ rest \in Seq(Files) /\ f \in Files /\ Len(rest) = Len(e.queue) - 1
      /\ f = e.queue[1] /\ Len(e.queue) \in Nat \ {0}
      /\ \A n \in 1..Len(rest) : rest[n] = e.queue[n + 1] /\ n + 1 \in 1..Len(e.queue)
  BY <1>1
<1>3. Untouched(e.items[f]) /\ f \notin e.deleted
  BY <1>2 DEF Sound, QueueSound
<1>4. /\ \A m, n \in 1..Len(rest) : rest[m] = rest[n] => m = n
      /\ \A n \in 1..Len(rest) : /\ Untouched(e.items[rest[n]])
                                /\ rest[n] \notin e.deleted /\ rest[n] # f
  <2>1. \A m, n \in 1..Len(e.queue) : e.queue[m] = e.queue[n] => m = n
    BY DEF Sound, QueueSound
  <2>2. \A n \in 1..Len(e.queue) :
          Untouched(e.items[e.queue[n]]) /\ e.queue[n] \notin e.deleted
    BY DEF Sound, QueueSound
  <2>3. ASSUME NEW m \in 1..Len(rest), NEW n \in 1..Len(rest), rest[m] = rest[n]
        PROVE  m = n
    <3>1. m + 1 = n + 1
      BY <1>2, <2>1, <2>3
    <3>2. QED  BY <3>1
  <2>4. ASSUME NEW n \in 1..Len(rest) PROVE rest[n] # f
    <3>1. n + 1 # 1 /\ 1 \in 1..Len(e.queue)
      BY <1>2
    <3>2. QED  BY <1>2, <2>1, <3>1
  <2>5. QED  BY <1>2, <2>2, <2>3, <2>4
<1>5. Range(e.queue) = {f} \cup Range(rest)
  BY <1>1, RangeOfTail
<1>6. /\ taken \in Pipe /\ taken.queue = rest /\ taken.current = f
      /\ taken.items = e.items /\ taken.deleted = e.deleted
      /\ taken.notified
  <2>1. taken = [e EXCEPT !.queue = rest, !.current = f]
    OBVIOUS
  <2> HIDE DEF f, rest
  <2>2. [e EXCEPT !.queue = rest, !.current = f] \in Pipe
    BY <1>1, <1>2 DEF Pipe
  <2>3. e \in Pipe /\ e.notified
    BY <1>1
  <2>4. /\ taken.queue = rest /\ taken.current = f
        /\ taken.items = e.items /\ taken.deleted = e.deleted
        /\ taken.notified = e.notified
    BY <2>1, <2>3 DEF Pipe
  <2>5. QED  BY <2>1, <2>2, <2>3, <2>4
<1>7. \A g \in Files : e.items[g] \in Item /\ ItemSound(e.items[g]) /\ ~e.items[g].reply
  BY <1>1 DEF Sound, NoRequest
<1>8. PICK o \in OpenOutcomes(e.session) :
        r = CASE o.result = "ready" ->
                   [taken EXCEPT !.session = o.session, !.state = "Connected",
                                 !.items[f] = StartUpload(@, f \in disk)]
              [] o.result = "pending" ->
                   [taken EXCEPT !.session = o.session, !.state = "Connecting"]
              [] o.result = "failed" ->
                   Abandon([taken EXCEPT
                              !.session = o.session, !.state = "NoConnection",
                              !.error = FirstError(@, "ConnectionNotAvailable"),
                              !.items[f] = Cancel(@)], f)
  BY Zenon DEF UploadNext
<1>9. o.result \in {"ready", "pending", "failed"} /\ o.session \in SessionState
  BY <1>1, <1>8, OpenOutcomesType DEF Pipe
<1> HIDE DEF f, rest, taken
<1>10. CASE o.result = "ready"
  <2> DEFINE it == StartUpload(taken.items[f], f \in disk)
  <2>1. it \in Item /\ ItemSound(it) /\ it.wired
    BY <1>2, <1>6, <1>7, StartHandler
  <2>2. r = [taken EXCEPT !.session = o.session, !.state = "Connected", !.items[f] = it]
    BY <1>8, <1>10
  <2> HIDE DEF it
  <2>3. /\ r \in Pipe /\ r.queue = rest /\ r.current = f /\ r.state = "Connected"
        /\ r.deleted = e.deleted
        /\ r.items = [e.items EXCEPT ![f] = it]
    BY <1>2, <1>6, <1>9, <2>1, <2>2 DEF Pipe, EngineState
  <2>4. r.notified
    BY <1>6, <2>2 DEF Pipe
  <2>5. \A g \in Files : r.items[g] = IF g = f THEN it ELSE e.items[g]
    BY <1>1, <1>2, <2>3
  <2>6. Sound(r)
    <3>1. \A n \in 1..Len(rest) : rest[n] \in Files
      BY <1>2
    <3>2. QueueSound(r)
      BY <1>4, <2>3, <2>5, <3>1 DEF QueueSound
    <3>3. QED  BY <1>7, <2>1, <2>3, <2>5, <3>2 DEF Sound
  <2>7. Uploading(r)
    BY <1>2, <1>3, <1>4, <1>7, <2>1, <2>3, <2>5 DEF Uploading, CancelCompletes
  <2>8. Tracked(r) = T
    BY <1>5, <2>3, <2>4 DEF Tracked
  <2>9. \A g \in Files \ T : r.items[g] = e.items[g]
    BY <1>5, <2>5
  <2>10. QED  BY <2>4, <2>6, <2>7, <2>8, <2>9 DEF MovesTo, PipeInv
<1>11. CASE o.result = "pending"
  <2>1. r = [taken EXCEPT !.session = o.session, !.state = "Connecting"]
    BY <1>8, <1>11
  <2>2. /\ r \in Pipe /\ r.queue = rest /\ r.current = f /\ r.state = "Connecting"
        /\ r.deleted = e.deleted /\ r.items = e.items
    BY <1>6, <1>9, <2>1 DEF Pipe, EngineState
  <2>3. r.notified
    BY <1>6, <2>1 DEF Pipe
  <2>4. Sound(r)
    BY <1>4, <1>7, <2>2 DEF Sound, QueueSound
  <2>5. Uploading(r)
    BY <1>2, <1>3, <1>4, <1>7, <2>2 DEF Uploading, CancelCompletes, Untouched
  <2>6. Tracked(r) = T
    BY <1>5, <2>2, <2>3 DEF Tracked
  <2>7. QED  BY <2>2, <2>3, <2>4, <2>5, <2>6 DEF MovesTo, PipeInv
<1>12. CASE o.result = "failed"
  <2> DEFINE err == FirstError(taken.error, "ConnectionNotAvailable")
             it == Cancel(taken.items[f])
             lost == [taken EXCEPT !.session = o.session, !.state = "NoConnection",
                                   !.error = err, !.items[f] = it]
  <2>1. it \in Item /\ ItemSound(it) /\ ~it.reply
    BY <1>2, <1>6, <1>7, CancelHandler
  <2>2. err \in ErrorType
    BY <1>6, FirstErrorType DEF Pipe, ErrorType
  <2>3. r = Abandon(lost, f)
    BY <1>8, <1>12
  <2> HIDE DEF err, it
  <2>4. /\ lost \in Pipe /\ lost.queue = rest /\ lost.deleted = e.deleted
        /\ lost.items = [e.items EXCEPT ![f] = it]
    BY <1>2, <1>6, <1>9, <2>1, <2>2 DEF Pipe, EngineState
  <2> HIDE DEF lost
  <2>5. \A g \in Files : lost.items[g] = IF g = f THEN it ELSE e.items[g]
    BY <1>1, <1>2, <2>4
  <2>6. NoRequest(lost) /\ \A g \in Files : ItemSound(lost.items[g])
    BY <1>7, <2>1, <2>5 DEF NoRequest
  <2>7. /\ PipeInv(r) /\ r.items = lost.items
        /\ Tracked(r) = lost.deleted \cup Range(lost.queue) \cup {f}
    BY <1>2, <2>3, <2>4, <2>6, AbandonSound
  <2>8. Tracked(r) = T
    BY <1>5, <2>4, <2>7
  <2>9. \A g \in Files \ T : r.items[g] = e.items[g]
    BY <1>5, <2>5, <2>7
  <2>10. QED  BY <2>7, <2>8, <2>9 DEF MovesTo
<1>13. QED  BY <1>9, <1>10, <1>11, <1>12

(* What holds when the current item f has just completed.                  *)
Completing(e, f) ==
  /\ Sound(e) /\ NoRequest(e)
  /\ e.notified /\ f = e.current /\ f \in Files
  /\ \A n \in 1..Len(e.queue) : e.queue[n] # f

LEMMA ItemFinishedSound ==
  ASSUME NEW e, NEW f, Completing(e, f), NEW r \in ItemFinished(e, f)
  PROVE  MovesTo(e, r, e.deleted \cup Range(e.queue) \cup {f})
<1> USE DEF Completing
<1>1. CASE e.queue = <<>>
  <2>1. r = LastItemFinished(e, f)
    BY <1>1 DEF ItemFinished
  <2>2. /\ PipeInv(r) /\ Tracked(r) = e.deleted \cup {f} /\ r.items = e.items
    BY <1>1, <2>1, LastItemFinishedSound DEF Sound
  <2>3. Range(e.queue) = {}
    BY <1>1, RangeOfEmpty
  <2>4. QED  BY <2>2, <2>3 DEF MovesTo
<1>2. CASE e.queue # <<>>
  <2> DEFINE del == e.deleted \cup {f}
             d == [e EXCEPT !.deleted = del]
  <2>1. r \in UploadNext(d)
    BY <1>2 DEF ItemFinished
  <2>2. del \in SUBSET Files
    BY DEF Sound, Pipe
  <2> HIDE DEF del
  <2>3. /\ d \in Pipe /\ d.queue = e.queue /\ d.items = e.items
        /\ d.deleted = del
    BY <2>2 DEF Sound, Pipe
  <2>4. d.notified
    BY DEF Sound, Pipe
  <2> HIDE DEF d
  <2>5. Sound(d) /\ NoRequest(d)
    BY <2>3 DEF Sound, QueueSound, NoRequest, del
  <2>6. MovesTo(d, r, d.deleted \cup Range(d.queue))
    BY <1>2, <2>1, <2>3, <2>4, <2>5, UploadNextSound
  <2>7. d.deleted \cup Range(d.queue) = e.deleted \cup Range(e.queue) \cup {f}
    BY <2>3 DEF del
  <2>8. QED  BY <2>3, <2>6, <2>7 DEF MovesTo
<1>3. QED  BY <1>1, <1>2

LEMMA UploadFinishedSound ==
  ASSUME NEW e, NEW f, Completing(e, f), NEW r \in UploadFinished(e, f)
  PROVE  MovesTo(e, r, e.deleted \cup Range(e.queue) \cup {f})
<1> DEFINE err == FirstError(e.error, "ProtocolError")
           failed == [e EXCEPT !.error = err]
           n == e.sent + 1
           sent == [e EXCEPT !.sent = n]
<1>1. err \in ErrorType /\ n \in Nat
  BY FirstErrorType DEF Completing, Sound, Pipe, ErrorType
<1>2. \/ r \in ItemFinished(failed, f)
      \/ r = Abandon(e, f)
      \/ r \in ItemFinished(sent, f)
  BY DEF UploadFinished
<1> HIDE DEF err, n
<1>3. CASE r \in ItemFinished(failed, f)
  <2>1. /\ failed \in Pipe /\ failed.items = e.items /\ failed.queue = e.queue
        /\ failed.deleted = e.deleted
        /\ failed.current = e.current
    BY <1>1 DEF Completing, Sound, Pipe
  <2>2. failed.notified
    BY DEF Completing, Sound, Pipe
  <2> HIDE DEF failed
  <2>3. Completing(failed, f)
    BY <2>1, <2>2 DEF Completing, Sound, QueueSound, NoRequest
  <2>4. MovesTo(failed, r, failed.deleted \cup Range(failed.queue) \cup {f})
    BY <1>3, <2>3, ItemFinishedSound
  <2>5. QED  BY <2>1, <2>4 DEF MovesTo
<1>4. CASE r = Abandon(e, f)
  <2>1. /\ PipeInv(r) /\ r.items = e.items
        /\ Tracked(r) = e.deleted \cup Range(e.queue) \cup {f}
    BY <1>4, AbandonSound DEF Completing, Sound
  <2>2. QED  BY <2>1 DEF MovesTo
<1>5. CASE r \in ItemFinished(sent, f)
  <2>1. /\ sent \in Pipe /\ sent.items = e.items /\ sent.queue = e.queue
        /\ sent.deleted = e.deleted
        /\ sent.current = e.current
    BY <1>1 DEF Completing, Sound, Pipe
  <2>2. sent.notified
    BY DEF Completing, Sound, Pipe
  <2> HIDE DEF sent
  <2>3. Completing(sent, f)
    BY <2>1, <2>2 DEF Completing, Sound, QueueSound, NoRequest
  <2>4. MovesTo(sent, r, sent.deleted \cup Range(sent.queue) \cup {f})
    BY <1>5, <2>3, ItemFinishedSound
  <2>5. QED  BY <2>1, <2>4 DEF MovesTo
<1>6. QED  BY <1>2, <1>3, <1>4, <1>5

(* The current item ends its request and completes.  The engine's state    *)
(* need not be that of an upload any more: sessionDisconnected() changes   *)
(* it before it cancels the item.                                          *)
LEMMA CurrentCompletes ==
  ASSUME NEW e, Sound(e), e.notified,
         e.current \in Files,
         \A n \in 1..Len(e.queue) : e.queue[n] # e.current,
         \A g \in Files : e.items[g].reply => g = e.current,
         NEW it \in Item, ItemSound(it), ~it.reply,
         NEW r \in ItemBecomes(e, e.current, it, TRUE)
  PROVE  MovesTo(e, r, Tracked(e))
<1> DEFINE f == e.current
           d == [e EXCEPT !.items[f] = it]
<1>1. /\ d \in Pipe /\ d.queue = e.queue /\ d.deleted = e.deleted
      /\ d.current = f
      /\ d.items = [e.items EXCEPT ![f] = it]
  BY DEF Sound, Pipe
<1>2. d.notified
  BY DEF Sound, Pipe
<1>3. r \in UploadFinished(d, f)
  BY DEF ItemBecomes
<1> HIDE DEF d
<1>4. e.items \in [Files -> Item] /\ e.queue \in Seq(Files)
  BY DEF Sound, Pipe
<1>5. \A g \in Files : d.items[g] = IF g = f THEN it ELSE e.items[g]
  BY <1>1, <1>4
<1>6. QueueSound(d)
  <2>1. \A n \in 1..Len(e.queue) : e.queue[n] \in Files
    BY <1>4
  <2>2. QED  BY <1>1, <1>5, <2>1 DEF Sound, QueueSound
<1>7. Completing(d, f)
  BY <1>1, <1>2, <1>5, <1>6 DEF Completing, Sound, NoRequest
<1>8. MovesTo(d, r, d.deleted \cup Range(d.queue) \cup {f})
  BY <1>3, <1>7, UploadFinishedSound
<1>9. d.deleted \cup Range(d.queue) \cup {f} = Tracked(e)
  BY <1>1 DEF Tracked
<1>10. \A g \in Files \ Tracked(e) : d.items[g] = e.items[g]
  BY <1>5 DEF Tracked
<1>11. QED  BY <1>8, <1>9, <1>10 DEF MovesTo

(* Any other item changes without a request under way: nobody is told.     *)
LEMMA OtherItemChanges ==
  ASSUME NEW e, PipeInv(e), NEW f \in Files, ~Untouched(e.items[f]),
         e.notified => f # e.current,
         NEW it \in Item, ItemSound(it), ~it.reply,
         NEW r \in ItemBecomes(e, f, it, FALSE)
  PROVE  PipeInv(r) /\ Tracked(r) = Tracked(e)
         /\ \A g \in Files \ {f} : r.items[g] = e.items[g]
<1>1. r = [e EXCEPT !.items[f] = it]
  BY DEF ItemBecomes
<1>2. /\ r \in Pipe /\ r.queue = e.queue /\ r.deleted = e.deleted
      /\ r.current = e.current /\ r.state = e.state
      /\ r.items = [e.items EXCEPT ![f] = it]
  BY <1>1 DEF PipeInv, Sound, Pipe
<1>3. r.notified <=> e.notified
  BY <1>1 DEF PipeInv, Sound, Pipe
<1>4. e.items \in [Files -> Item] /\ e.queue \in Seq(Files)
  BY DEF PipeInv, Sound, Pipe
<1>5. \A g \in Files : r.items[g] = IF g = f THEN it ELSE e.items[g]
  BY <1>2, <1>4
<1>6. \A n \in 1..Len(e.queue) : e.queue[n] \in Files
  BY <1>4
<1>7. QueueSound(r)
  BY <1>2, <1>5, <1>6 DEF PipeInv, Sound, QueueSound
<1>8. Sound(r)
  BY <1>2, <1>5, <1>7 DEF PipeInv, Sound
<1>9. CASE e.notified
  BY <1>2, <1>3, <1>5, <1>8, <1>9 DEF PipeInv, Uploading, Tracked
<1>10. CASE ~e.notified
  BY <1>2, <1>3, <1>5, <1>8, <1>10 DEF PipeInv, Resting, NoRequest, Tracked
<1>11. QED  BY <1>9, <1>10, <1>5

LEMMA SessionChanges ==
  ASSUME NEW e, PipeInv(e), NEW s \in SessionState
  PROVE  LET r == [e EXCEPT !.session = s]
         IN  PipeInv(r) /\ Tracked(r) = Tracked(e) /\ r.items = e.items
<1> DEFINE r == [e EXCEPT !.session = s]
<1>1. /\ r \in Pipe /\ r.queue = e.queue /\ r.deleted = e.deleted
      /\ r.current = e.current /\ r.state = e.state
      /\ r.items = e.items
  BY DEF PipeInv, Sound, Pipe
<1>2. r.notified <=> e.notified
  BY DEF PipeInv, Sound, Pipe
<1> HIDE DEF r
<1>3. Sound(r)
  BY <1>1 DEF PipeInv, Sound, QueueSound
<1>4. PipeInv(r) /\ Tracked(r) = Tracked(e)
  BY <1>1, <1>2, <1>3 DEF PipeInv, Uploading, Resting, NoRequest, Tracked
<1>5. QED  BY <1>1, <1>4 DEF r

LEMMA CountChanges ==
  ASSUME NEW e, PipeInv(e)
  PROVE  LET r == [e EXCEPT !.nbrOfItems = @ + 1]
         IN  PipeInv(r) /\ Tracked(r) = Tracked(e) /\ r.items = e.items
<1> DEFINE r == [e EXCEPT !.nbrOfItems = @ + 1]
<1>0. e \in Pipe
  BY DEF PipeInv, Sound
<1>a. e.nbrOfItems + 1 \in Nat
  BY <1>0 DEF Pipe
<1>b. r \in Pipe
  BY <1>0, <1>a DEF Pipe
<1>1. /\ r \in Pipe /\ r.queue = e.queue /\ r.deleted = e.deleted
      /\ r.current = e.current /\ r.state = e.state
      /\ r.items = e.items
  BY <1>0, <1>b DEF Pipe
<1>2. r.notified <=> e.notified
  BY <1>0 DEF Pipe
<1> HIDE DEF r
<1>3. Sound(r)
  BY <1>1 DEF PipeInv, Sound, QueueSound
<1>4. PipeInv(r) /\ Tracked(r) = Tracked(e)
  BY <1>1, <1>2, <1>3 DEF PipeInv, Uploading, Resting, NoRequest, Tracked
<1>5. QED  BY <1>1, <1>4 DEF r

(* Cancelling the item that is being uploaded always completes it.         *)
LEMMA CancelCurrentSound ==
  ASSUME NEW e, Sound(e), e.notified,
         e.current \in Files, CancelCompletes(e.items[e.current]),
         \A n \in 1..Len(e.queue) : e.queue[n] # e.current,
         \A g \in Files : e.items[g].reply => g = e.current,
         NEW r \in CancelCurrent(e)
  PROVE  MovesTo(e, r, Tracked(e))
<1> DEFINE it == Cancel(e.items[e.current])
<1>1. it \in Item /\ ItemSound(it) /\ ~it.reply
  BY CancelHandler DEF Sound, Pipe
<1>2. r \in ItemBecomes(e, e.current, it, TRUE)
  BY DEF CancelCurrent, ItemBecomes
<1> HIDE DEF it
<1>3. QED  BY <1>1, <1>2, CurrentCompletes

LEMMA SessionLostSound ==
  ASSUME NEW e, PipeInv(e), NEW r \in SessionLost(e)
  PROVE  MovesTo(e, r, Tracked(e))
<1>1. CASE e.state \in {"Connecting", "Connected"}
  <2> DEFINE Lost(why) == [e EXCEPT !.state = "NoConnection",
                                    !.error = FirstError(@, why)]
  <2>1. e.notified /\ Uploading(e) /\ Sound(e)
    BY <1>1 DEF PipeInv, Resting
  <2>2. PICK why \in ErrorType : r \in CancelCurrent(Lost(why))
    BY <1>1 DEF SessionLost, ErrorType
  <2> DEFINE err == FirstError(e.error, why)
             d == [e EXCEPT !.state = "NoConnection", !.error = err]
  <2>3. err \in ErrorType
    BY <2>1, FirstErrorType DEF Sound, Pipe
  <2>4. r \in CancelCurrent(d)
    BY <2>2
  <2> HIDE DEF err
  <2>5. /\ d \in Pipe /\ d.queue = e.queue /\ d.deleted = e.deleted
        /\ d.current = e.current /\ d.items = e.items
    BY <2>1, <2>3 DEF Sound, Pipe, EngineState
  <2>6. d.notified
    BY <2>1 DEF Sound, Pipe
  <2> HIDE DEF d
  <2>7. Sound(d)
    BY <2>1, <2>5 DEF Sound, QueueSound
  <2>8. MovesTo(d, r, Tracked(d))
    BY <2>1, <2>4, <2>5, <2>6, <2>7, CancelCurrentSound DEF Uploading
  <2>9. Tracked(d) = Tracked(e)
    BY <2>1, <2>5, <2>6 DEF Tracked
  <2>10. QED  BY <2>5, <2>8, <2>9 DEF MovesTo
<1>2. CASE e.state \notin {"Connecting", "Connected"}
  <2>1. ~e.notified /\ Resting(e) /\ Sound(e)
    BY <1>2 DEF PipeInv, Uploading
  <2>2. r = [e EXCEPT !.state = "NoConnection"]
    BY <1>2 DEF SessionLost
  <2>3. /\ r \in Pipe /\ r.queue = e.queue /\ r.deleted = e.deleted
        /\ r.items = e.items /\ r.state = "NoConnection"
    BY <2>1, <2>2 DEF Sound, Pipe, EngineState
  <2>4. ~r.notified
    BY <2>1, <2>2 DEF Sound, Pipe
  <2>5. Sound(r) /\ Resting(r) /\ Tracked(r) = Tracked(e)
    BY <2>1, <2>3, <2>4 DEF Sound, QueueSound, Resting, NoRequest, Tracked
  <2>6. QED  BY <2>3, <2>4, <2>5 DEF MovesTo, PipeInv
<1>3. QED  BY <1>1, <1>2

-----------------------------------------------------------------------------
(* Events                                                                  *)

(* An event that only moves the pipeline, and possibly the files.          *)
LEMMA MoveStep ==
  ASSUME IInv, MovesTo(pipe, pipe', Tracked(pipe)),
         UNCHANGED <<requested, batch>>,
         disk' \subseteq Files, answered' \subseteq Files
  PROVE  IInv'
BY DEF IInv, MovesTo

LEMMA NoMove == PipeInv(pipe) => MovesTo(pipe, pipe, Tracked(pipe))
BY DEF MovesTo

LEMMA NewPipeSound ==
  /\ PipeInv(NewPipe) /\ Tracked(NewPipe) = {}
  /\ \A f \in Files : NewPipe.items[f] = NewItem /\ Untouched(NewPipe.items[f])
<1> DEFINE none == <<>>
<1>1. NewPipe \in Pipe
  <2>1. none \in Seq(Files) /\ none \in Seq(Report)
    OBVIOUS
  <2>2. NewItem \in Item
    BY DEF NewItem, Item, ItemStatus, ClientState, RequestState
  <2>3. [f \in Files |-> NewItem] \in [Files -> Item]
    BY <2>2
  <2>4. NewPipe =
            [items |-> [f \in Files |-> NewItem], queue |-> none,
             notified |-> FALSE, nbrOfItems |-> 0, current |-> NoItem,
             state |-> "NoConnection", error |-> "NoError", sent |-> 0,
             session |-> "none", deleted |-> {}, reports |-> none]
    BY DEF NewPipe
  <2> HIDE DEF none
  <2>5. QED
    BY <2>1, <2>3, <2>4 DEF Pipe, EngineState, ErrorType, SessionState
<1>2. /\ NewPipe.queue = <<>> /\ ~NewPipe.notified /\ NewPipe.deleted = {}
      /\ NewPipe.state = "NoConnection"
      /\ \A f \in Files : NewPipe.items[f] = NewItem
  BY DEF NewPipe
<1>3. ItemSound(NewItem) /\ Untouched(NewItem)
  BY DEF NewItem, ItemSound, Untouched, Requesting
<1>4. Sound(NewPipe)
  BY <1>1, <1>2, <1>3 DEF Sound, QueueSound
<1>5. Resting(NewPipe)
  BY <1>2, <1>3 DEF Resting, NoRequest, Untouched
<1>6. Tracked(NewPipe) = {}
  BY <1>2, RangeOfEmpty DEF Tracked
<1> QED BY <1>2, <1>3, <1>4, <1>5, <1>6 DEF PipeInv

LEMMA InitInv == Init => IInv
BY NewPipeSound DEF Init, IInv

(* What holds when a file f is enqueued that has not been added before.    *)
Enlists(p, f) ==
  /\ PipeInv(p)
  /\ f \in Files \ Tracked(p)
  /\ Untouched(p.items[f])

LEMMA EnqueueItemSound ==
  ASSUME NEW p, NEW f \in Files, Enlists(p, f), NEW r \in EnqueueItem(p, f)
  PROVE  MovesTo(p, r, Tracked(p) \cup {f})
<1> DEFINE q == Append(p.queue, f)
           e == [p EXCEPT !.queue = q]
           d == [e EXCEPT !.nbrOfItems = 0, !.notified = TRUE]
<1>1. /\ p \in Pipe /\ Sound(p) /\ PipeInv(p) /\ f \notin Tracked(p)
      /\ Untouched(p.items[f])
  BY DEF Enlists, PipeInv, Sound
<1>2. PICK t : /\ IF e.notified THEN t = e ELSE t \in UploadNext(d)
               /\ r = [t EXCEPT !.nbrOfItems = @ + 1]
  BY DEF EnqueueItem
<1>3. /\ q \in Seq(Files) /\ q # <<>> /\ Len(q) = Len(p.queue) + 1
      /\ Len(p.queue) \in Nat /\ q[Len(q)] = f
      /\ \A n \in 1..Len(p.queue) : q[n] = p.queue[n]
      /\ p.queue \in Seq(Files)
  BY <1>1 DEF Pipe
<1>4. Range(q) = Range(p.queue) \cup {f}
  BY <1>3, RangeOfAppend
<1>5. f \notin p.deleted /\ f \notin Range(p.queue)
      /\ (p.notified => f # p.current)
  BY <1>1 DEF Tracked
<1>6. \A n \in 1..Len(p.queue) : p.queue[n] \in Range(p.queue)
  BY <1>1, QueueFiles
<1> HIDE DEF q
<1>7. /\ e \in Pipe /\ e.queue = q /\ e.items = p.items
      /\ e.deleted = p.deleted /\ e.current = p.current
      /\ e.state = p.state
  BY <1>1, <1>3 DEF Pipe
<1>8. e.notified <=> p.notified
  BY <1>1 DEF Pipe
<1> HIDE DEF e
<1>9. Sound(e)
  <2>1. ASSUME NEW m \in 1..Len(q), NEW n \in 1..Len(q), q[m] = q[n]
        PROVE  m = n
    <3>1. CASE m \in 1..Len(p.queue) /\ n \in 1..Len(p.queue)
      BY <1>1, <1>3, <2>1, <3>1 DEF Sound, QueueSound
    <3>2. CASE m \notin 1..Len(p.queue) \/ n \notin 1..Len(p.queue)
      BY <1>3, <1>5, <1>6, <2>1, <3>2
    <3>3. QED  BY <3>1, <3>2
  <2>2. ASSUME NEW n \in 1..Len(q)
        PROVE  Untouched(p.items[q[n]]) /\ q[n] \notin p.deleted
    <3>1. CASE n \in 1..Len(p.queue)
      BY <1>1, <1>3, <3>1 DEF Sound, QueueSound
    <3>2. CASE n \notin 1..Len(p.queue)
      <4>1. n = Len(q)
        BY <1>3, <3>2
      <4>2. QED  BY <1>1, <1>3, <1>5, <4>1
    <3>3. QED  BY <3>1, <3>2
  <2>3. QED  BY <1>1, <1>7, <2>1, <2>2 DEF Sound, QueueSound
<1>10. PipeInv(t) /\ Tracked(t) = Tracked(p) \cup {f}
       /\ \A g \in Files \ Tracked(t) : t.items[g] = p.items[g]
  <2>1. CASE p.notified
    <3>1. t = e
      BY <1>2, <1>8, <2>1
    <3>2. \A n \in 1..Len(q) : q[n] # p.current
      <4>1. ASSUME NEW n \in 1..Len(q) PROVE q[n] # p.current
        <5>1. n \in 1..Len(p.queue) \/ n = Len(q)
          BY <1>3
        <5>2. QED  BY <1>1, <1>3, <1>5, <2>1, <5>1 DEF PipeInv, Uploading
      <4>2. QED  BY <4>1
    <3>3. Uploading(e)
      BY <1>1, <1>7, <2>1, <3>2 DEF PipeInv, Uploading
    <3>4. QED
      BY <1>4, <1>7, <1>8, <1>9, <2>1, <3>1, <3>3 DEF PipeInv, Tracked
  <2>2. CASE ~p.notified
    <3>1. t \in UploadNext(d)
      BY <1>2, <1>8, <2>2
    <3>2. /\ d \in Pipe /\ d.queue = q /\ d.items = p.items
          /\ d.deleted = p.deleted
      BY <1>7 DEF Pipe
    <3>3. d.notified
      BY <1>7 DEF Pipe
    <3> HIDE DEF d
    <3>4. Sound(d) /\ NoRequest(d)
      BY <1>1, <1>7, <1>9, <2>2, <3>2 DEF Sound, QueueSound, PipeInv, Resting, NoRequest
    <3>5. MovesTo(d, t, d.deleted \cup Range(d.queue))
      BY <1>3, <3>1, <3>2, <3>3, <3>4, UploadNextSound
    <3>6. QED
      BY <1>4, <2>2, <3>2, <3>5 DEF MovesTo, Tracked
  <2>3. QED  BY <2>1, <2>2
<1>11. PipeInv(r) /\ Tracked(r) = Tracked(t) /\ r.items = t.items
  BY <1>2, <1>10, CountChanges
<1>12. QED
  BY <1>10, <1>11 DEF MovesTo

LEMMA EnqueueStep ==
  ASSUME IInv, NEW f \in Files, Enqueue(f)
  PROVE  IInv'
<1>1. Enlists(pipe, f) /\ pipe' \in EnqueueItem(pipe, f) /\ requested = Tracked(pipe)
  BY DEF Enlists, IInv, Enqueue
<1>2. MovesTo(pipe, pipe', Tracked(pipe) \cup {f})
  BY <1>1, EnqueueItemSound
<1>3. requested' = requested \cup {f} /\ batch' = batch \cup {f}
      /\ UNCHANGED <<disk, answered>>
  BY DEF Enqueue
<1>4. QED
  BY <1>1, <1>2, <1>3 DEF IInv, MovesTo

LEMMA SessionOpenedStep ==
  ASSUME IInv, SessionOpened
  PROVE  IInv'
<1> DEFINE e == [pipe EXCEPT !.session = "open"]
           f == pipe.current
           it == StartUpload(pipe.items[f], f \in disk)
<1>1. PipeInv(e) /\ Tracked(e) = Tracked(pipe) /\ e.items = pipe.items
  BY SessionChanges DEF IInv, SessionState
<1>2. /\ e \in Pipe /\ e.queue = pipe.queue /\ e.current = f
      /\ e.state = pipe.state /\ e.deleted = pipe.deleted
  BY DEF IInv, PipeInv, Sound, Pipe, SessionState
<1>3. /\ UNCHANGED <<disk, answered, requested, batch>>
      /\ pipe' = IF e.state = "Connecting"
                 THEN [e EXCEPT !.state = "Connected",
                                !.items[e.current] = StartUpload(@, e.current \in disk)]
                 ELSE e
  BY DEF SessionOpened
<1> HIDE DEF e
<1>4. CASE e.state = "Connecting"
  <2>1. e.notified /\ Uploading(e) /\ Sound(e) /\ f \in Files
    BY <1>1, <1>2, <1>4 DEF PipeInv, Resting, Uploading
  <2>2. it \in Item /\ ItemSound(it) /\ it.wired
    <3>1. pipe.items[f] \in Item
      BY <2>1 DEF IInv, PipeInv, Sound, Pipe
    <3> QED BY <3>1, StartHandler
  <2>3. pipe' = [e EXCEPT !.state = "Connected", !.items[f] = it]
    BY <1>1, <1>2, <1>3, <1>4
  <2> HIDE DEF it, f
  <2>4. /\ pipe' \in Pipe /\ pipe'.queue = e.queue /\ pipe'.current = f
        /\ pipe'.state = "Connected" /\ pipe'.deleted = e.deleted
        /\ pipe'.items = [e.items EXCEPT ![f] = it]
    BY <1>2, <2>1, <2>2, <2>3 DEF Pipe, EngineState
  <2>5. pipe'.notified
    BY <1>2, <2>1, <2>3 DEF Pipe
  <2>6. \A g \in Files : pipe'.items[g] = IF g = f THEN it ELSE e.items[g]
    BY <1>2, <2>1, <2>4 DEF Pipe
  <2>7. QueueSound(pipe')
    <3>1. \A n \in 1..Len(e.queue) : e.queue[n] \in Files /\ e.queue[n] # f
      BY <1>2, <2>1 DEF Uploading, Pipe
    <3>2. QED  BY <2>1, <2>4, <2>6, <3>1 DEF Sound, QueueSound
  <2>8. Sound(pipe') /\ Uploading(pipe')
    BY <1>2, <2>1, <2>2, <2>4, <2>6, <2>7 DEF Sound, Uploading, CancelCompletes
  <2>9. Tracked(pipe') = Tracked(e)
    BY <1>2, <2>1, <2>4, <2>5 DEF Tracked
  <2>10. \A g \in Files \ Tracked(pipe) : pipe'.items[g] = pipe.items[g]
    BY <1>1, <1>2, <2>1, <2>6 DEF Tracked
  <2>11. MovesTo(pipe, pipe', Tracked(pipe))
    BY <1>1, <2>5, <2>8, <2>9, <2>10 DEF MovesTo, PipeInv
  <2>12. QED  BY <1>3, <2>11, MoveStep DEF IInv
<1>5. CASE e.state # "Connecting"
  <2>1. MovesTo(pipe, pipe', Tracked(pipe))
    BY <1>1, <1>3, <1>5 DEF MovesTo
  <2>2. QED  BY <1>3, <2>1, MoveStep DEF IInv
<1>6. QED  BY <1>4, <1>5

LEMMA SessionErrorStep ==
  ASSUME IInv, SessionError
  PROVE  IInv'
<1> DEFINE e == [pipe EXCEPT !.session = "idle"]
<1>1. PipeInv(e) /\ Tracked(e) = Tracked(pipe) /\ e.items = pipe.items
  BY SessionChanges DEF IInv, SessionState
<1>2. pipe' \in SessionLost(e) /\ UNCHANGED <<answered, requested, batch>> /\ disk' \subseteq Files
  BY DEF SessionError, Remaining, IInv
<1> HIDE DEF e
<1>3. MovesTo(e, pipe', Tracked(e))
  BY <1>1, <1>2, SessionLostSound
<1>4. QED  BY <1>1, <1>2, <1>3, MoveStep DEF MovesTo, IInv

LEMMA SessionDisconnectedStep ==
  ASSUME IInv, SessionDisconnected
  PROVE  IInv'
<1> DEFINE e == [pipe EXCEPT !.session = "idle"]
<1>1. PipeInv(e) /\ Tracked(e) = Tracked(pipe) /\ e.items = pipe.items
  BY SessionChanges DEF IInv, SessionState
<1>2. PICK x \in SessionLost(e) : pipe' = [x EXCEPT !.session = "none"]
  BY DEF SessionDisconnected
<1>3. UNCHANGED <<answered, requested, batch>> /\ disk' \subseteq Files
  BY DEF SessionDisconnected, Remaining, IInv
<1> HIDE DEF e
<1>4. MovesTo(e, x, Tracked(e))
  BY <1>1, <1>2, SessionLostSound
<1>5. PipeInv(pipe') /\ Tracked(pipe') = Tracked(x) /\ pipe'.items = x.items
  BY <1>2, <1>4, SessionChanges DEF MovesTo, SessionState
<1>6. QED  BY <1>1, <1>3, <1>4, <1>5, MoveStep DEF MovesTo, IInv

LEMMA ProgressStep ==
  ASSUME IInv, NEW f \in Files, Progress(f)
  PROVE  IInv'
<1> DEFINE it == HandleUploadProgress(pipe.items[f])
<1>1. PipeInv(pipe) /\ Sound(pipe) /\ pipe \in Pipe /\ pipe.items \in [Files -> Item]
  BY DEF IInv, PipeInv, Sound, Pipe
<1>2. /\ pipe.items[f].request = "open"
      /\ pipe' = [pipe EXCEPT !.items[f] = it]
      /\ UNCHANGED <<disk, answered, requested, batch>>
  BY DEF Progress
<1>3. pipe.notified /\ Uploading(pipe) /\ f = pipe.current
  BY <1>1, <1>2 DEF PipeInv, Resting, NoRequest, Uploading, Sound, ItemSound
<1>4. /\ it \in Item /\ ItemSound(it) /\ it.reply = pipe.items[f].reply
      /\ it.wired = pipe.items[f].wired /\ it.status = pipe.items[f].status
  BY <1>1, <1>2, ProgressHandler DEF Sound
<1> HIDE DEF it
<1>5. /\ pipe' \in Pipe /\ pipe'.queue = pipe.queue /\ pipe'.current = f
      /\ pipe'.state = pipe.state /\ pipe'.deleted = pipe.deleted
      /\ pipe'.items = [pipe.items EXCEPT ![f] = it]
  BY <1>1, <1>2, <1>3, <1>4 DEF Pipe
<1>6. pipe'.notified
  BY <1>1, <1>2, <1>3 DEF Pipe
<1>7. \A g \in Files : pipe'.items[g] = IF g = f THEN it ELSE pipe.items[g]
  BY <1>1, <1>5
<1>8. QueueSound(pipe')
  <2>1. \A n \in 1..Len(pipe.queue) : pipe.queue[n] \in Files /\ pipe.queue[n] # f
    BY <1>1, <1>3 DEF Uploading, Pipe
  <2>2. QED  BY <1>1, <1>5, <1>7, <2>1 DEF Sound, QueueSound
<1>9. pipe.state # "Connecting"
  BY <1>1, <1>2, <1>3 DEF Uploading, Untouched, Sound, ItemSound
<1>10. Sound(pipe') /\ Uploading(pipe')
  BY <1>1, <1>3, <1>4, <1>5, <1>7, <1>8, <1>9 DEF Sound, Uploading, CancelCompletes
<1>11. Tracked(pipe') = Tracked(pipe)
  BY <1>3, <1>5, <1>6 DEF Tracked
<1>12. \A g \in Files \ Tracked(pipe) : pipe'.items[g] = pipe.items[g]
  BY <1>3, <1>7 DEF Tracked
<1>13. MovesTo(pipe, pipe', Tracked(pipe))
  BY <1>6, <1>10, <1>11, <1>12 DEF MovesTo, PipeInv
<1>14. QED  BY <1>2, <1>13, MoveStep DEF IInv

(* The item has a client, and listens to it only for an open request.      *)
HasClient(it) == it.http # "None" /\ (it.wired => it.reply)

(* The end of a request, whether the item still listens or not.            *)
LEMMA RequestEnds ==
  ASSUME IInv, NEW f \in Files, HasClient(pipe.items[f]),
         NEW it \in Item, ItemSound(it), ~it.reply,
         pipe' \in ItemBecomes(pipe, f, it, pipe.items[f].wired),
         UNCHANGED <<requested, batch>>,
         disk' \subseteq Files, answered' \subseteq Files
  PROVE  IInv'
<1>1. PipeInv(pipe) /\ Sound(pipe) /\ ItemSound(pipe.items[f])
      /\ pipe.items[f] \in Item
  BY DEF IInv, PipeInv, Sound, Pipe
<1>2. CASE pipe.items[f].wired
  <2>1. pipe.items[f].reply
    BY <1>2 DEF HasClient
  <2>2. pipe.notified /\ Uploading(pipe) /\ f = pipe.current
    BY <1>1, <2>1 DEF PipeInv, Resting, NoRequest, Uploading
  <2>3. pipe' \in ItemBecomes(pipe, pipe.current, it, TRUE)
    BY <1>2, <2>2 DEF ItemBecomes
  <2>4. MovesTo(pipe, pipe', Tracked(pipe))
    BY <1>1, <2>2, <2>3, CurrentCompletes DEF Uploading
  <2>5. QED  BY <2>4, MoveStep
<1>3. CASE ~pipe.items[f].wired
  <2>1. pipe.items[f].http # "None" /\ pipe.items[f].status # "Waiting"
    BY <1>1 DEF ItemSound, HasClient
  <2>2. ~Untouched(pipe.items[f])
    BY <2>1 DEF Untouched
  <2>3. pipe.notified => f # pipe.current
    BY <1>1, <1>3, <2>1 DEF PipeInv, Uploading, CancelCompletes
  <2>4. pipe' \in ItemBecomes(pipe, f, it, FALSE)
    BY <1>3 DEF ItemBecomes
  <2>5. PipeInv(pipe') /\ Tracked(pipe') = Tracked(pipe)
        /\ \A g \in Files \ {f} : pipe'.items[g] = pipe.items[g]
    BY <1>1, <2>2, <2>3, <2>4, OtherItemChanges
  <2>6. f \in Tracked(pipe)
    BY <2>2 DEF IInv
  <2>7. MovesTo(pipe, pipe', Tracked(pipe))
    BY <2>5, <2>6 DEF MovesTo
  <2>8. QED  BY <2>7, MoveStep
<1>4. QED  BY <1>2, <1>3

(* The states in which a request ends, and what becomes of the item.       *)
LEMMA RequestEnding ==
  ASSUME NEW it \in Item, ItemSound(it),
         it.request # "none" \/ it.timer
  PROVE  /\ it.status # "Waiting" /\ HasClient(it)
         /\ it.request = "open" <=> it.reply
BY DEF Item, RequestState, ItemSound, HasClient, Requesting

LEMMA ReplyFinishedStep ==
  ASSUME IInv, NEW f \in Files, ReplyFinished(f)
  PROVE  IInv'
<1> DEFINE it == End(pipe.items[f])
<1>1. pipe.items[f] \in Item /\ ItemSound(pipe.items[f])
  BY DEF IInv, PipeInv, Sound, Pipe
<1>2. HasClient(pipe.items[f]) /\ pipe.items[f].status # "Waiting"
  BY <1>1, RequestEnding DEF ReplyFinished
<1>3. it \in Item /\ ItemSound(it) /\ ~it.reply
  BY <1>1, <1>2, FinishedHandler
<1>4. /\ pipe' \in ItemBecomes(pipe, f, it, pipe.items[f].wired)
      /\ disk' \subseteq Files /\ answered' \subseteq Files /\ UNCHANGED <<requested, batch>>
  BY DEF ReplyFinished, Remaining, IInv
<1> HIDE DEF it
<1> QED BY <1>2, <1>3, <1>4, RequestEnds

LEMMA ReplyErrorStep ==
  ASSUME IInv, NEW f \in Files, ReplyError(f)
  PROVE  IInv'
<1> DEFINE it == Fail(pipe.items[f])
<1>1. pipe.items[f] \in Item /\ ItemSound(pipe.items[f])
  BY DEF IInv, PipeInv, Sound, Pipe
<1>2. HasClient(pipe.items[f])
  BY <1>1, RequestEnding DEF ReplyError
<1>3. it \in Item /\ ItemSound(it) /\ ~it.reply
  BY <1>1, ErrorHandler DEF ReplyError
<1>4. /\ pipe' \in ItemBecomes(pipe, f, it, pipe.items[f].wired)
      /\ disk' \subseteq Files /\ UNCHANGED <<answered, requested, batch>>
  BY DEF ReplyError, Remaining, IInv
<1> HIDE DEF it
<1> QED BY <1>2, <1>3, <1>4, RequestEnds DEF IInv

LEMMA ReplyFinishedAfterErrorStep ==
  ASSUME IInv, NEW f \in Files, ReplyFinishedAfterError(f)
  PROVE  IInv'
<1> DEFINE it == End(pipe.items[f])
<1>1. pipe.items[f] \in Item /\ ItemSound(pipe.items[f])
  BY DEF IInv, PipeInv, Sound, Pipe
<1>2. HasClient(pipe.items[f]) /\ pipe.items[f].status # "Waiting"
  BY <1>1, RequestEnding DEF ReplyFinishedAfterError
<1>3. it \in Item /\ ItemSound(it) /\ ~it.reply
  BY <1>1, <1>2, FinishedHandler
<1>4. /\ pipe' \in ItemBecomes(pipe, f, it, pipe.items[f].wired)
      /\ disk' \subseteq Files /\ UNCHANGED <<answered, requested, batch>>
  BY DEF ReplyFinishedAfterError, Remaining, IInv
<1> HIDE DEF it
<1> QED BY <1>2, <1>3, <1>4, RequestEnds DEF IInv

LEMMA ConnectionTimeoutStep ==
  ASSUME IInv, NEW f \in Files, ConnectionTimeout(f)
  PROVE  IInv'
<1> DEFINE it == HttpCancel(pipe.items[f])
<1>1. pipe.items[f] \in Item /\ ItemSound(pipe.items[f])
  BY DEF IInv, PipeInv, Sound, Pipe
<1>2. HasClient(pipe.items[f]) /\ pipe.items[f].status # "Waiting"
  BY <1>1, RequestEnding DEF ConnectionTimeout
<1>3. it \in Item /\ ItemSound(it) /\ ~it.reply
  BY <1>1, <1>2, HttpCancelHandler
<1>4. /\ pipe' \in ItemBecomes(pipe, f, it, pipe.items[f].wired)
      /\ disk' \subseteq Files /\ UNCHANGED <<answered, requested, batch>>
  BY DEF ConnectionTimeout, Remaining, IInv
<1> HIDE DEF it
<1> QED BY <1>2, <1>3, <1>4, RequestEnds DEF IInv

LEMMA CancelAllStep ==
  ASSUME IInv, CancelAll
  PROVE  IInv'
<1>1. /\ pipe.notified /\ pipe' \in CancelCurrent(pipe)
      /\ UNCHANGED <<answered, requested, batch>> /\ disk' \subseteq Files
  BY DEF CancelAll, Remaining, IInv
<1>2. Sound(pipe) /\ Uploading(pipe)
  BY <1>1 DEF IInv, PipeInv
<1>3. MovesTo(pipe, pipe', Tracked(pipe))
  BY <1>1, <1>2, CancelCurrentSound DEF Uploading
<1>4. QED  BY <1>1, <1>3, MoveStep DEF IInv

LEMMA ProcessEndsStep ==
  ASSUME IInv, ProcessEnds
  PROVE  IInv'
BY NewPipeSound DEF ProcessEnds, IInv

(* The invariant is inductive.                                             *)
LEMMA NextInv == IInv /\ [Next]_vars => IInv'
<1> SUFFICES ASSUME IInv, [Next]_vars PROVE IInv'
  OBVIOUS
<1>2. ASSUME NEW f \in Files, FileVanishes(f) PROVE IInv'
  BY <1>2, NoMove, MoveStep DEF FileVanishes, IInv
<1>3. CASE UNCHANGED vars
  BY <1>3, NoMove, MoveStep DEF vars, IInv
<1>4. QED
  BY <1>2, <1>3, EnqueueStep, SessionOpenedStep, SessionErrorStep,
     SessionDisconnectedStep, ProgressStep, ReplyFinishedStep, ReplyErrorStep,
     ReplyFinishedAfterErrorStep, ConnectionTimeoutStep, CancelAllStep, ProcessEndsStep
     DEF Next, NetworkAnswers, SessionSettles

THEOREM Invariance == Spec => []IInv
BY InitInv, NextInv, PTL DEF Spec

-----------------------------------------------------------------------------
(* What follows from the invariant                                         *)

(* The pipeline's state, and the sets of files kept beside it, have their  *)
(* types in every reachable state.                                         *)
THEOREM TypeCorrect == Spec => []TypeOK
<1>1. IInv => TypeOK
  BY DEF IInv, TypeOK, PipeInv, Sound
<1>2. QED  BY <1>1, Invariance, PTL

(* No slot ever dereferences a deleted item: wherever the engine or        *)
(* cancelAll() uses currentItem, it exists and has yet to complete.        *)
THEOREM CurrentItemIsAlive == Spec => []CurrentItemAlive
<1>1. IInv => CurrentItemAlive
  BY DEF IInv, CurrentItemAlive, PipeInv, Uploading, Resting
<1>2. QED  BY <1>1, Invariance, PTL

(* At most one upload is under way, the current item's.                    *)
THEOREM RequestsAreSerial == Spec => []OneRequestAtATime
<1>1. IInv => OneRequestAtATime
  BY DEF IInv, OneRequestAtATime, PipeInv, Uploading, Resting, NoRequest
<1>2. QED  BY <1>1, Invariance, PTL

LEMMA QueueIsPending ==
  ASSUME IInv
  PROVE  /\ DOMAIN pipe.queue = 1..Len(pipe.queue)
         /\ \A f \in Range(pipe.queue) :
              \E n \in 1..Len(pipe.queue) : f = pipe.queue[n]
<1>1. pipe.queue \in Seq(Files)
  BY DEF IInv, PipeInv, Sound, Pipe
<1>2. QED  BY <1>1 DEF Range

(* Every file that was enqueued is in one place.                           *)
LEMMA Accounted == IInv => NoItemForgotten
<1> SUFFICES ASSUME IInv PROVE NoItemForgotten
  OBVIOUS
<1>1. requested = Pending \cup pipe.deleted
  BY DEF IInv, Tracked, Pending
<1>2. \A f \in Range(pipe.queue) : f \notin pipe.deleted
  BY QueueIsPending DEF IInv, PipeInv, Sound, QueueSound
<1>3. pipe.notified => pipe.current \notin pipe.deleted
                       /\ pipe.current \notin Range(pipe.queue)
  BY QueueIsPending DEF IInv, PipeInv, Uploading
<1>4. \A m, n \in DOMAIN pipe.queue : pipe.queue[m] = pipe.queue[n] => m = n
  BY QueueIsPending DEF IInv, PipeInv, Sound, QueueSound
<1> QED BY <1>1, <1>2, <1>3, <1>4 DEF NoItemForgotten, Pending

(* Every file enqueued is pending in one place or done.                    *)
THEOREM NothingForgotten == Spec => []NoItemForgotten
<1>1. QED  BY Accounted, Invariance, PTL

-----------------------------------------------------------------------------
(* What a slot settles                                                     *)

(* From e to r the queue has been told that the items in done are done: it *)
(* goes on with the next, or nothing is left and the batch is reported.    *)
Outcome(e, r, done) ==
  IF r.notified
  THEN r.deleted = e.deleted \cup done /\ r.reports = e.reports
  ELSE /\ r.deleted = e.deleted \cup done \cup Range(e.queue)
       /\ Len(r.reports) = Len(e.reports) + 1

(* Meanwhile an item keeps its state, unless it is the next: that may have *)
(* been started, or cancelled because the session failed at once.          *)
NextItem(e, r, g) ==
  \/ r.items[g] = e.items[g]
  \/ /\ g \in Range(e.queue) /\ r.notified /\ g = r.current
     /\ r.items[g] = StartUpload(e.items[g], g \in disk)
  \/ /\ g \in Range(e.queue) /\ ~r.notified
     /\ r.items[g] = Cancel(e.items[g])

Proceeds(e, r, done) ==
  Outcome(e, r, done) /\ \A g \in Files : NextItem(e, r, g)

\* The current item completes, with the state it.
Completes(e, r, it) ==
  /\ e.notified
  /\ Outcome(e, r, {e.current})
  /\ r.items[e.current] = it
  /\ \A g \in Files \ {e.current} : NextItem(e, r, g)

\* No item completes and none is taken.
Still(e, r) ==
  /\ r.deleted = e.deleted /\ r.reports = e.reports
  /\ \A g \in e.deleted : r.items[g].status = e.items[g].status

LEMMA CancelType == \A it \in Item : Cancel(it) \in Item
<1> SUFFICES ASSUME NEW it \in Item PROVE Cancel(it) \in Item
  OBVIOUS
<1>0. ASSUME NEW x \in Item PROVE HandleFinished(x) \in Item /\ HandleError(x) \in Item
  <2>1. HandleFinished(x) \in Item
    BY DEF HandleFinished, Item, ItemStatus, ClientState
  <2>2. HandleError(x) \in Item
    BY DEF HandleError, Item, ItemStatus
  <2> QED BY <2>1, <2>2
<1>1. ASSUME NEW x \in Item PROVE HandleFinished(x) \in Item /\ End(Fail(x)) \in Item
  <2>1. \A y \in Item : /\ [y EXCEPT !.request = "failed"] \in Item
                        /\ [y EXCEPT !.request = "none"] \in Item
    BY DEF Item, RequestState
  <2> QED BY <1>0, <2>1 DEF End, Fail
<1>2. ASSUME NEW x \in Item PROVE HttpCancel(x) \in Item
  <2>1. \A y \in Item : [y EXCEPT !.reply = FALSE] \in Item
    BY DEF Item
  <2> QED BY <1>1, <2>1 DEF HttpCancel
<1>3. [it EXCEPT !.status = "Cancelled"] \in Item
  BY DEF Item, ItemStatus
<1> QED BY <1>2, <1>3 DEF Cancel

LEMMA LastItemFinishedEffect ==
  ASSUME NEW e \in Pipe, NEW f \in Files
  PROVE  LET r == LastItemFinished(e, f)
         IN  /\ ~r.notified /\ Len(r.reports) = Len(e.reports) + 1
             /\ r.deleted = e.deleted \cup {f} /\ r.items = e.items
<1> DEFINE d == [e EXCEPT !.deleted = @ \cup {f}, !.notified = FALSE]
<1>1. /\ d \in Pipe /\ ~d.notified /\ d.items = e.items /\ d.deleted = e.deleted \cup {f}
      /\ d.reports = e.reports
  BY DEF Pipe
<1>2. LastItemFinished(e, f) = QueueDone(d)
  BY DEF LastItemFinished
<1> HIDE DEF d
<1> QED BY <1>1, <1>2, QueueDoneResult

LEMMA AbandonEffect ==
  ASSUME NEW e \in Pipe, NEW f \in Files
  PROVE  LET r == Abandon(e, f)
         IN  /\ ~r.notified /\ Len(r.reports) = Len(e.reports) + 1
             /\ r.deleted = e.deleted \cup {f} \cup Range(e.queue) /\ r.items = e.items
<1> DEFINE err == FirstError(e.error, "ProtocolError")
           none == <<>>
           del  == e.deleted \cup Range(e.queue)
           c == [e EXCEPT !.error = err, !.queue = none, !.deleted = del]
<1>1. err \in ErrorType
  BY FirstErrorType DEF Pipe, ErrorType
<1>2. none \in Seq(Files)
  OBVIOUS
<1>3. del \in SUBSET Files
  BY QueueFiles DEF Pipe
<1>4. Abandon(e, f) = LastItemFinished(c, f)
  BY DEF Abandon, Clear, Pipe
<1> HIDE DEF err, none, del
<1>5. c \in Pipe /\ c.items = e.items /\ c.deleted = del /\ c.reports = e.reports
  BY <1>1, <1>2, <1>3 DEF Pipe
<1> HIDE DEF c
<1>6. del \cup {f} = e.deleted \cup {f} \cup Range(e.queue)
  BY DEF del
<1> QED BY <1>4, <1>5, <1>6, LastItemFinishedEffect

LEMMA UploadNextEffect ==
  ASSUME NEW e \in Pipe, e.notified, e.queue # <<>>, NEW r \in UploadNext(e)
  PROVE  Proceeds(e, r, {})
<1> DEFINE f == Head(e.queue)
           rest == Tail(e.queue)
           taken == [e EXCEPT !.queue = rest, !.current = f]
<1>1. /\ e.queue \in Seq(Files) /\ rest \in Seq(Files) /\ f \in Files
      /\ Range(e.queue) = {f} \cup Range(rest)
  <2>1. e.queue \in Seq(Files)
    BY DEF Pipe
  <2> QED BY <2>1, RangeOfTail
<1>2. PICK o \in OpenOutcomes(e.session) :
        r = CASE o.result = "ready" ->
                   [taken EXCEPT !.session = o.session, !.state = "Connected",
                                 !.items[f] = StartUpload(@, f \in disk)]
              [] o.result = "pending" ->
                   [taken EXCEPT !.session = o.session, !.state = "Connecting"]
              [] o.result = "failed" ->
                   Abandon([taken EXCEPT
                              !.session = o.session, !.state = "NoConnection",
                              !.error = FirstError(@, "ConnectionNotAvailable"),
                              !.items[f] = Cancel(@)], f)
  BY Zenon DEF UploadNext
<1>3. o.result \in {"ready", "pending", "failed"} /\ o.session \in SessionState
  BY <1>2, OpenOutcomesType DEF Pipe
<1> HIDE DEF f, rest
<1>4. /\ taken \in Pipe /\ taken.current = f /\ taken.items = e.items /\ taken.queue = rest
      /\ taken.deleted = e.deleted /\ taken.notified /\ taken.items \in [Files -> Item]
      /\ taken.reports = e.reports
  BY <1>1 DEF Pipe
<1> HIDE DEF taken
<1>5. CASE o.result = "ready"
  <2> DEFINE it == StartUpload(taken.items[f], f \in disk)
  <2>1. r = [taken EXCEPT !.session = o.session, !.state = "Connected", !.items[f] = it]
    BY <1>2, <1>5
  <2> HIDE DEF it
  <2>2. /\ r.notified /\ r.deleted = e.deleted /\ r.current = f /\ r.reports = e.reports
        /\ \A g \in Files : r.items[g] = IF g = f THEN it ELSE e.items[g]
    BY <1>1, <1>4, <2>1 DEF Pipe
  <2>3. it = StartUpload(e.items[f], f \in disk)
    BY <1>4 DEF it
  <2> QED BY <1>1, <2>2, <2>3 DEF Proceeds, Outcome, NextItem
<1>6. CASE o.result = "pending"
  <2>1. r = [taken EXCEPT !.session = o.session, !.state = "Connecting"]
    BY <1>2, <1>6
  <2>2. r.notified /\ r.deleted = e.deleted /\ r.items = e.items /\ r.reports = e.reports
    BY <1>4, <2>1 DEF Pipe
  <2> QED BY <2>2 DEF Proceeds, Outcome, NextItem
<1>7. CASE o.result = "failed"
  <2> DEFINE err == FirstError(taken.error, "ConnectionNotAvailable")
             it == Cancel(taken.items[f])
             lost == [taken EXCEPT !.session = o.session, !.state = "NoConnection",
                                   !.error = err, !.items[f] = it]
  <2>1. it \in Item
    <3>1. taken.items[f] \in Item
      BY <1>1, <1>4
    <3> QED BY <3>1, CancelType
  <2>2. err \in ErrorType
    BY <1>4, FirstErrorType DEF Pipe, ErrorType
  <2>3. r = Abandon(lost, f)
    BY <1>2, <1>7
  <2> HIDE DEF err, it
  <2>4. /\ lost \in Pipe /\ lost.queue = rest /\ lost.deleted = e.deleted
        /\ lost.reports = e.reports
        /\ \A g \in Files : lost.items[g] = IF g = f THEN it ELSE e.items[g]
    BY <1>1, <1>3, <1>4, <2>1, <2>2 DEF Pipe, EngineState
  <2> HIDE DEF lost
  <2>5. /\ ~r.notified /\ Len(r.reports) = Len(e.reports) + 1 /\ r.items = lost.items
        /\ r.deleted = lost.deleted \cup {f} \cup Range(lost.queue)
    BY <1>1, <2>3, <2>4, AbandonEffect
  <2>6. it = Cancel(e.items[f])
    BY <1>4 DEF it
  <2> QED BY <1>1, <2>4, <2>5, <2>6 DEF Proceeds, Outcome, NextItem
<1> QED BY <1>3, <1>5, <1>6, <1>7

LEMMA ItemFinishedEffect ==
  ASSUME NEW e \in Pipe, e.notified, NEW f \in Files, NEW r \in ItemFinished(e, f)
  PROVE  Proceeds(e, r, {f})
<1>1. CASE e.queue = <<>>
  <2>1. r = LastItemFinished(e, f)
    BY <1>1 DEF ItemFinished
  <2>2. ~r.notified /\ Len(r.reports) = Len(e.reports) + 1 /\ r.deleted = e.deleted \cup {f} /\ r.items = e.items
    BY <2>1, LastItemFinishedEffect
  <2> QED BY <1>1, <2>2, RangeOfEmpty DEF Proceeds, Outcome, NextItem
<1>2. CASE e.queue # <<>>
  <2> DEFINE del == e.deleted \cup {f}
             d == [e EXCEPT !.deleted = del]
  <2>1. r \in UploadNext(d)
    BY <1>2 DEF ItemFinished
  <2>2. del \in SUBSET Files
    BY DEF Pipe
  <2> HIDE DEF del
  <2>3. /\ d \in Pipe /\ d.queue = e.queue /\ d.items = e.items
        /\ d.reports = e.reports /\ d.deleted = del /\ d.notified
    BY <2>2 DEF Pipe
  <2> HIDE DEF d
  <2>4. Proceeds(d, r, {})
    BY <1>2, <2>1, <2>3, UploadNextEffect
  <2> QED BY <2>3, <2>4 DEF Proceeds, Outcome, NextItem, del
<1> QED BY <1>1, <1>2

LEMMA UploadFinishedEffect ==
  ASSUME NEW e \in Pipe, e.notified, NEW f \in Files, NEW r \in UploadFinished(e, f)
  PROVE  Proceeds(e, r, {f})
<1> DEFINE err == FirstError(e.error, "ProtocolError")
           failed == [e EXCEPT !.error = err]
           sent == [e EXCEPT !.sent = @ + 1]
<1>1. err \in ErrorType
  BY FirstErrorType DEF Pipe, ErrorType
<1>2. \/ r \in ItemFinished(failed, f)
      \/ r = Abandon(e, f)
      \/ r \in ItemFinished(sent, f)
  BY DEF UploadFinished
<1> HIDE DEF err
<1>3. ASSUME NEW d \in Pipe, d.items = e.items, d.queue = e.queue, d.deleted = e.deleted,
             d.reports = e.reports, d.notified, r \in ItemFinished(d, f)
      PROVE  Proceeds(e, r, {f})
  <2>1. Proceeds(d, r, {f})
    BY <1>3, ItemFinishedEffect
  <2> QED BY <1>3, <2>1 DEF Proceeds, Outcome, NextItem
<1>4. /\ failed \in Pipe /\ failed.items = e.items /\ failed.queue = e.queue
      /\ failed.deleted = e.deleted /\ failed.reports = e.reports /\ failed.notified
  BY <1>1 DEF Pipe
<1>5. /\ sent \in Pipe /\ sent.items = e.items /\ sent.queue = e.queue
      /\ sent.deleted = e.deleted /\ sent.reports = e.reports /\ sent.notified
  <2> DEFINE n == e.sent + 1
  <2>1. n \in Nat
    BY DEF Pipe
  <2> HIDE DEF n
  <2>2. sent = [e EXCEPT !.sent = n]
    BY DEF n
  <2> QED BY <2>1, <2>2 DEF Pipe
<1> HIDE DEF failed, sent
<1>6. CASE r = Abandon(e, f)
  <2>1. /\ ~r.notified /\ Len(r.reports) = Len(e.reports) + 1 /\ r.items = e.items
        /\ r.deleted = e.deleted \cup {f} \cup Range(e.queue)
    BY <1>6, AbandonEffect
  <2> QED BY <2>1 DEF Proceeds, Outcome, NextItem
<1> QED BY <1>2, <1>3, <1>4, <1>5, <1>6

LEMMA CurrentCompletesEffect ==
  ASSUME NEW e \in Pipe, e.notified, e.current \in Files,
         \A n \in 1..Len(e.queue) : e.queue[n] # e.current,
         NEW it \in Item, NEW r \in ItemBecomes(e, e.current, it, TRUE)
  PROVE  Completes(e, r, it)
<1> DEFINE f == e.current
           d == [e EXCEPT !.items[f] = it]
<1>1. /\ d \in Pipe /\ d.queue = e.queue /\ d.deleted = e.deleted
      /\ d.reports = e.reports /\ d.notified
      /\ \A g \in Files : d.items[g] = IF g = f THEN it ELSE e.items[g]
  BY DEF Pipe
<1>2. r \in UploadFinished(d, f)
  BY DEF ItemBecomes
<1> HIDE DEF d
<1>3. Proceeds(d, r, {f})
  BY <1>1, <1>2, UploadFinishedEffect
<1>4. f \notin Range(e.queue)
  <2>1. e.queue \in Seq(Files)
    BY DEF Pipe
  <2> QED BY <2>1 DEF Range
<1> QED BY <1>1, <1>3, <1>4 DEF Proceeds, Outcome, NextItem, Completes

LEMMA CancelCurrentEffect ==
  ASSUME NEW e \in Pipe, e.notified, e.current \in Files,
         \A n \in 1..Len(e.queue) : e.queue[n] # e.current,
         CancelCompletes(e.items[e.current]), NEW r \in CancelCurrent(e)
  PROVE  Completes(e, r, Cancel(e.items[e.current]))
<1> DEFINE it == Cancel(e.items[e.current])
<1>1. it \in Item
  <2>1. e.items[e.current] \in Item
    BY DEF Pipe
  <2> QED BY <2>1, CancelType
<1>2. r \in ItemBecomes(e, e.current, it, TRUE)
  BY DEF CancelCurrent, ItemBecomes
<1> HIDE DEF it
<1>3. Completes(e, r, it)
  BY <1>1, <1>2, CurrentCompletesEffect
<1> QED BY <1>3 DEF it

LEMMA SessionLostEffect ==
  ASSUME NEW e, PipeInv(e), NEW r \in SessionLost(e)
  PROVE  IF e.notified
         THEN Completes(e, r, Cancel(e.items[e.current]))
         ELSE Still(e, r) /\ r.items = e.items
<1>1. CASE e.notified
  <2>1. Uploading(e) /\ e \in Pipe
    BY <1>1 DEF PipeInv, Sound
  <2>2. PICK why \in ErrorType :
          r \in CancelCurrent([e EXCEPT !.state = "NoConnection", !.error = FirstError(@, why)])
    BY <2>1 DEF SessionLost, ErrorType, Uploading
  <2> DEFINE err == FirstError(e.error, why)
             d == [e EXCEPT !.state = "NoConnection", !.error = err]
  <2>3. err \in ErrorType
    BY <2>1, FirstErrorType DEF Pipe
  <2>4. r \in CancelCurrent(d)
    BY <2>2
  <2> HIDE DEF err
  <2>5. /\ d \in Pipe /\ d.queue = e.queue /\ d.deleted = e.deleted
        /\ d.reports = e.reports /\ d.current = e.current /\ d.items = e.items
        /\ d.notified
    BY <1>1, <2>1, <2>3 DEF Pipe, EngineState
  <2> HIDE DEF d
  <2>6. Completes(d, r, Cancel(d.items[d.current]))
    BY <2>1, <2>4, <2>5, CancelCurrentEffect DEF Uploading
  <2> QED BY <1>1, <2>5, <2>6 DEF Completes, Outcome, NextItem
<1>2. CASE ~e.notified
  <2>1. Resting(e) /\ e \in Pipe
    BY <1>2 DEF PipeInv, Sound
  <2>2. r = [e EXCEPT !.state = "NoConnection"]
    BY <2>1 DEF SessionLost, Resting
  <2>3. r.deleted = e.deleted /\ r.reports = e.reports /\ r.items = e.items
    BY <2>1, <2>2 DEF Pipe
  <2> QED BY <1>2, <2>3 DEF Still
<1> QED BY <1>1, <1>2

-----------------------------------------------------------------------------
(* The engine implements a batch                                           *)

(* The queue has told the engine exactly if something is pending.          *)
Reporting == pipe.notified <=> Pending # {}

LEMMA ReportedWhenDone == IInv => Reporting
BY RangeOfEmpty DEF IInv, PipeInv, Uploading, Resting, Pending, Reporting

LEMMA QueuedUntouched ==
  ASSUME IInv
  PROVE  \A g \in Range(pipe.queue) : g \in Files \ pipe.deleted /\ Untouched(pipe.items[g])
<1>1. pipe.queue \in Seq(Files)
  BY DEF IInv, PipeInv, Sound, Pipe
<1>2. \A n \in 1..Len(pipe.queue) : pipe.queue[n] \in Files
  BY <1>1
<1> QED BY <1>2, QueueIsPending DEF IInv, PipeInv, Sound, QueueSound

LEMMA CompletesIsSettled ==
  ASSUME IInv, IInv', NEW it, Completes(pipe, pipe', it), UNCHANGED requested
  PROVE  Batch!Next
<1> DEFINE D == pipe'.deleted \ pipe.deleted
           done == {f \in D : pipe'.items[f].status = "Finished"}
           lost == D \ done
<1>1. /\ requested = Pending \cup pipe.deleted /\ Pending \cap pipe.deleted = {}
      /\ pipe.deleted \subseteq Files
  BY Accounted DEF NoItemForgotten, IInv, PipeInv, Sound, Pipe
<1>2. requested' = Pending' \cup pipe'.deleted /\ Pending' \cap pipe'.deleted = {}
  <2>1. IInv' => NoItemForgotten'
    BY Accounted, PTL
  <2> QED BY <2>1 DEF NoItemForgotten
<1>3. /\ pipe.notified /\ pipe.current \in Files \ pipe.deleted
      /\ pipe.current \in pipe'.deleted /\ pipe.deleted \subseteq pipe'.deleted
      /\ D \subseteq {pipe.current} \cup Range(pipe.queue)
  BY DEF Completes, Outcome, IInv, PipeInv, Uploading
<1>4. D \subseteq Pending /\ pipe.current \in D /\ Pending' = Pending \ D
  BY <1>1, <1>2, <1>3
<1>5. \A f \in pipe.deleted : pipe'.items[f] = pipe.items[f]
  BY <1>1, <1>3, QueuedUntouched DEF Completes, NextItem
<1>6. done \subseteq {pipe.current}
  <2> SUFFICES ASSUME NEW f \in D, f # pipe.current PROVE pipe'.items[f].status # "Finished"
    OBVIOUS
  <2>1. f \in Range(pipe.queue) /\ f \in Files /\ Untouched(pipe.items[f])
    BY <1>3, QueuedUntouched
  <2>2. pipe'.notified => f # pipe'.current
    BY <1>2 DEF Pending
  <2>3. pipe'.items[f] \in {pipe.items[f], Cancel(pipe.items[f])}
    BY <2>1, <2>2 DEF Completes, NextItem
  <2>4. pipe.items[f] \in Item
    BY <2>1 DEF IInv, PipeInv, Sound, Pipe
  <2> QED BY <2>1, <2>3, <2>4 DEF Untouched, Cancel, Item
<1>7. Uploaded' = Uploaded \cup done
  BY <1>3, <1>5 DEF Uploaded
<1>8. (pipe'.deleted \ Uploaded') = (pipe.deleted \ Uploaded) \cup lost
  BY <1>3, <1>7 DEF Uploaded
<1>9. Len(pipe'.reports) = IF Pending' = {} THEN Len(pipe.reports) + 1 ELSE Len(pipe.reports)
  <2>1. IInv' => Reporting'
    BY ReportedWhenDone, PTL
  <2> QED BY <2>1 DEF Reporting, Completes, Outcome
<1>10. Batch!Cardinality(done) <= 1
  <2>1. \A S : Batch!Cardinality(S) = Cardinality(S)
    BY DEF Batch!Cardinality, Cardinality
  <2>2. Cardinality({pipe.current}) = 1 /\ IsFiniteSet({pipe.current})
    BY FS_Singleton
  <2>3. Cardinality(done) <= Cardinality({pipe.current})
    BY <1>6, <2>2, FS_Subset
  <2> QED BY <2>1, <2>2, <2>3
<1>11. /\ done \cup lost = D /\ D # {} /\ done \cap lost = {}
       /\ done \in SUBSET Pending /\ lost \in SUBSET Pending
  BY <1>4
<1> HIDE DEF D, done, lost
<1>12. Batch!Settle(done, lost)
  BY <1>4, <1>7, <1>8, <1>9, <1>10, <1>11 DEF Batch!Settle
<1> QED BY <1>11, <1>12 DEF Batch!Next

LEMMA StillIsUnchanged ==
  ASSUME IInv, IInv', Still(pipe, pipe'), UNCHANGED requested
  PROVE  UNCHANGED Batch!vars
<1>1. requested = Pending \cup pipe.deleted /\ Pending \cap pipe.deleted = {}
  BY Accounted DEF NoItemForgotten
<1>2. requested' = Pending' \cup pipe'.deleted /\ Pending' \cap pipe'.deleted = {}
  <2>1. IInv' => NoItemForgotten'
    BY Accounted, PTL
  <2> QED BY <2>1 DEF NoItemForgotten
<1>3. Pending' = Pending
  BY <1>1, <1>2 DEF Still
<1>4. Uploaded' = Uploaded
  BY DEF Uploaded, Still
<1> QED BY <1>3, <1>4 DEF Still, Batch!vars

LEMMA EnqueueItemEffect ==
  ASSUME NEW p, NEW f \in Files, Enlists(p, f), NEW r \in EnqueueItem(p, f)
  PROVE  /\ IF r.notified
            THEN r.deleted = p.deleted /\ r.reports = p.reports
            ELSE ~p.notified /\ r.deleted = p.deleted \cup {f} /\ Len(r.reports) = Len(p.reports) + 1
         /\ \A g \in Files \ {f} : r.items[g] = p.items[g]
         /\ \/ r.items[f] = p.items[f]
            \/ r.notified /\ r.items[f] = StartUpload(p.items[f], f \in disk)
            \/ ~r.notified /\ r.items[f] = Cancel(p.items[f])
<1> DEFINE q == Append(p.queue, f)
           e == [p EXCEPT !.queue = q]
           d == [e EXCEPT !.nbrOfItems = 0, !.notified = TRUE]
<1>1. /\ p \in Pipe /\ Sound(p) /\ f \notin Tracked(p)
      /\ p.queue \in Seq(Files) /\ Untouched(p.items[f])
  BY DEF Enlists, PipeInv, Sound, Pipe
<1>2. PICK t : /\ IF e.notified THEN t = e ELSE t \in UploadNext(d)
               /\ r = [t EXCEPT !.nbrOfItems = @ + 1]
  BY DEF EnqueueItem
<1>3. q \in Seq(Files) /\ q # <<>>
  BY <1>1
<1> HIDE DEF q
<1>4. /\ e \in Pipe /\ e.queue = q /\ e.items = p.items /\ e.reports = p.reports
      /\ e.deleted = p.deleted /\ e.notified = p.notified
  BY <1>1, <1>3 DEF Pipe
<1> HIDE DEF e
<1>5. ASSUME t \in Pipe
      PROVE  /\ r.notified = t.notified /\ r.deleted = t.deleted
             /\ r.items = t.items /\ r.reports = t.reports /\ r.current = t.current
  <2> DEFINE n == t.nbrOfItems + 1
  <2> HIDE DEF n
  <2>1. r = [t EXCEPT !.nbrOfItems = n]
    BY <1>2 DEF n
  <2> QED BY <1>5, <2>1 DEF Pipe
<1>6. CASE p.notified
  <2>1. t = e
    BY <1>2, <1>4, <1>6
  <2>2. r.notified /\ r.deleted = p.deleted /\ r.items = p.items /\ r.reports = p.reports
    BY <1>4, <1>5, <1>6, <2>1
  <2> QED BY <1>1, <2>2
<1>7. CASE ~p.notified
  <2>1. p.queue = <<>> /\ NoRequest(p)
    BY <1>7 DEF Enlists, PipeInv, Resting
  <2>2. Range(q) = {f} /\ Len(q) = 1 /\ q[1] = f
    <3>1. Range(q) = Range(p.queue) \cup {f}
      BY <1>1, RangeOfAppend DEF q
    <3> QED BY <2>1, <3>1, RangeOfEmpty DEF q
  <2>3. /\ d \in Pipe /\ d.queue = q /\ d.items = p.items /\ d.reports = p.reports
        /\ d.deleted = p.deleted /\ d.notified
    BY <1>4 DEF Pipe
  <2>4. t \in UploadNext(d)
    BY <1>2, <1>4, <1>7
  <2> HIDE DEF d
  <2>5. f \notin p.deleted
    BY <1>1 DEF Tracked
  <2>6. Sound(d) /\ NoRequest(d)
    <3>1. \A n \in 1..Len(q) : n = 1
      BY <2>2
    <3>2. \A n \in 1..Len(q) : q[n] = f
      BY <2>2, <3>1
    <3>3. \A m, n \in 1..Len(q) : m = n
      BY <3>1
    <3>4. QueueSound(d)
      BY <1>1, <2>3, <2>5, <3>2, <3>3 DEF QueueSound
    <3> QED BY <1>1, <2>1, <2>3, <3>4 DEF Sound, NoRequest
  <2>7. t \in Pipe
    BY <1>3, <2>3, <2>4, <2>6, UploadNextSound DEF MovesTo, PipeInv, Sound
  <2>8. Proceeds(d, t, {})
    BY <1>3, <2>3, <2>4, UploadNextEffect
  <2> QED BY <1>1, <1>5, <1>7, <2>2, <2>3, <2>7, <2>8 DEF Proceeds, Outcome, NextItem
<1> QED BY <1>6, <1>7

LEMMA EnqueueEffect ==
  ASSUME IInv, NEW f \in Files, Enqueue(f)
  PROVE  /\ f \notin requested /\ requested' = requested \cup {f}
         /\ IF pipe'.notified
            THEN pipe'.deleted = pipe.deleted /\ pipe'.reports = pipe.reports
            ELSE ~pipe.notified /\ pipe'.deleted = pipe.deleted \cup {f} /\ Len(pipe'.reports) = Len(pipe.reports) + 1
         /\ \A g \in Files \ {f} : pipe'.items[g] = pipe.items[g]
         /\ \/ pipe'.items[f] = pipe.items[f]
            \/ pipe'.notified /\ pipe'.items[f] = StartUpload(pipe.items[f], f \in disk)
            \/ ~pipe'.notified /\ pipe'.items[f] = Cancel(pipe.items[f])
<1>1. Enlists(pipe, f) /\ pipe' \in EnqueueItem(pipe, f)
  BY DEF Enlists, IInv, Enqueue
<1>2. QED
  BY <1>1, EnqueueItemEffect DEF Enqueue

LEMMA EnqueueIsSubmitted ==
  ASSUME IInv, IInv', NEW f \in Files, Enqueue(f)
  PROVE  Batch!Next
<1>1. /\ f \notin requested /\ requested' = requested \cup {f}
      /\ IF pipe'.notified
         THEN pipe'.deleted = pipe.deleted /\ pipe'.reports = pipe.reports
         ELSE ~pipe.notified /\ pipe'.deleted = pipe.deleted \cup {f} /\ Len(pipe'.reports) = Len(pipe.reports) + 1
      /\ \A g \in Files \ {f} : pipe'.items[g] = pipe.items[g]
      /\ ~pipe'.notified => pipe'.items[f] \in {pipe.items[f], Cancel(pipe.items[f])}
  BY EnqueueEffect
<1>2. /\ requested = Pending \cup pipe.deleted /\ Pending \cap pipe.deleted = {}
      /\ pipe.deleted \subseteq Files /\ pipe.items[f] \in Item /\ Untouched(pipe.items[f])
  BY <1>1, Accounted DEF NoItemForgotten, IInv, PipeInv, Sound, Pipe
<1>3. requested' = Pending' \cup pipe'.deleted /\ Pending' \cap pipe'.deleted = {}
  <2>1. IInv' => NoItemForgotten'
    BY Accounted, PTL
  <2> QED BY <2>1 DEF NoItemForgotten
<1>4. f \notin Batch!Known
  BY <1>1, <1>2 DEF Batch!Known, Uploaded
<1>5. Reporting /\ Reporting'
  <2>1. IInv' => Reporting'
    BY ReportedWhenDone, PTL
  <2> QED BY <2>1, ReportedWhenDone
<1>6. CASE pipe'.notified
  <2>1. Pending' = Pending \cup {f}
    BY <1>1, <1>2, <1>3, <1>6
  <2>2. Uploaded' = Uploaded
    BY <1>1, <1>2, <1>6 DEF Uploaded
  <2>4. Batch!Submit(f)
    BY <1>1, <1>4, <1>6, <2>1, <2>2 DEF Batch!Submit
  <2> QED BY <2>4 DEF Batch!Next
<1>7. CASE ~pipe'.notified
  <2>1. Pending = {} /\ Pending' = {}
    BY <1>1, <1>5, <1>7 DEF Reporting
  <2>2. pipe'.items[f].status # "Finished"
    BY <1>1, <1>2, <1>7 DEF Untouched, Cancel, Item
  <2>3. Uploaded' = Uploaded
    BY <1>1, <1>2, <1>7, <2>2 DEF Uploaded
  <2>4. (pipe'.deleted \ Uploaded') = (pipe.deleted \ Uploaded) \cup {f}
    BY <1>1, <1>2, <1>7, <2>3 DEF Uploaded
  <2>5. Batch!SubmitAndFail(f)
    BY <1>1, <1>4, <1>7, <2>1, <2>3, <2>4 DEF Batch!SubmitAndFail
  <2> QED BY <2>5 DEF Batch!Next
<1> QED BY <1>6, <1>7

LEMMA SessionLostEvent ==
  ASSUME IInv, SessionError \/ SessionDisconnected
  PROVE  IF pipe.notified
         THEN Completes(pipe, pipe', Cancel(pipe.items[pipe.current]))
         ELSE Still(pipe, pipe') /\ pipe'.items = pipe.items
<1> DEFINE e == [pipe EXCEPT !.session = "idle"]
<1>1. /\ e \in Pipe /\ e.queue = pipe.queue /\ e.items = pipe.items /\ e.reports = pipe.reports
      /\ e.deleted = pipe.deleted /\ e.current = pipe.current /\ e.notified = pipe.notified
  BY DEF IInv, PipeInv, Sound, Pipe, SessionState
<1>2. PipeInv(e)
  BY SessionChanges DEF IInv, SessionState
<1>3. \E x \in SessionLost(e) : pipe' = x \/ pipe' = [x EXCEPT !.session = "none"]
  BY DEF SessionError, SessionDisconnected
<1> HIDE DEF e
<1>4. PICK x \in SessionLost(e) : pipe' = x \/ pipe' = [x EXCEPT !.session = "none"]
  BY <1>3
<1>5. x \in Pipe
  BY <1>2, SessionLostSound DEF MovesTo, PipeInv, Sound
<1>6. /\ pipe'.notified = x.notified /\ pipe'.deleted = x.deleted /\ pipe'.items = x.items
      /\ pipe'.reports = x.reports /\ pipe'.current = x.current
  BY <1>4, <1>5 DEF Pipe
<1>7. IF e.notified THEN Completes(e, x, Cancel(e.items[e.current])) ELSE Still(e, x) /\ x.items = e.items
  BY <1>2, SessionLostEffect
<1>8. CASE pipe.notified
  BY <1>1, <1>6, <1>7, <1>8 DEF Completes, Outcome, NextItem
<1>9. CASE ~pipe.notified
  BY <1>1, <1>6, <1>7, <1>9 DEF Still
<1> QED BY <1>8, <1>9

LEMMA SessionOpenedEffect ==
  ASSUME IInv, SessionOpened
  PROVE  /\ pipe'.deleted = pipe.deleted /\ pipe'.reports = pipe.reports
         /\ \/ pipe'.items = pipe.items
            \/ /\ pipe.notified /\ Untouched(pipe.items[pipe.current])
               /\ pipe'.items = [pipe.items EXCEPT ![pipe.current] =
                                   StartUpload(pipe.items[pipe.current], pipe.current \in disk)]
<1> DEFINE e == [pipe EXCEPT !.session = "open"]
           f == pipe.current
           it == StartUpload(pipe.items[f], f \in disk)
<1>1. /\ e \in Pipe /\ e.items = pipe.items /\ e.current = f
      /\ e.state = pipe.state /\ e.deleted = pipe.deleted /\ e.reports = pipe.reports
  BY DEF IInv, PipeInv, Sound, Pipe, SessionState
<1>2. pipe' = IF e.state = "Connecting"
              THEN [e EXCEPT !.state = "Connected",
                             !.items[e.current] = StartUpload(@, e.current \in disk)]
              ELSE e
  BY DEF SessionOpened
<1> HIDE DEF e
<1>3. CASE e.state = "Connecting"
  <2>1. pipe.notified /\ Untouched(pipe.items[f])
    BY <1>1, <1>3 DEF IInv, PipeInv, Resting, Uploading
  <2>2. pipe' = [e EXCEPT !.state = "Connected", !.items[f] = it]
    BY <1>1, <1>2, <1>3
  <2> HIDE DEF it, f
  <2>3. /\ pipe'.deleted = pipe.deleted /\ pipe'.reports = pipe.reports
        /\ pipe'.items = [pipe.items EXCEPT ![f] = it]
    BY <1>1, <2>2 DEF Pipe
  <2> QED BY <2>1, <2>3 DEF it, f
<1>4. CASE e.state # "Connecting"
  BY <1>1, <1>2, <1>4
<1> QED BY <1>3, <1>4

(* A request of f ends with its item in state it.                          *)
LEMMA RequestEndsEffect ==
  ASSUME IInv, NEW f \in Files, HasClient(pipe.items[f]), NEW it \in Item,
         pipe' \in ItemBecomes(pipe, f, it, pipe.items[f].wired)
  PROVE  IF pipe.items[f].wired
         THEN pipe.notified /\ f = pipe.current /\ Completes(pipe, pipe', it)
         ELSE /\ pipe'.deleted = pipe.deleted /\ pipe'.reports = pipe.reports
              /\ \A g \in Files : pipe'.items[g] = IF g = f THEN it ELSE pipe.items[g]
<1>1. PipeInv(pipe) /\ ItemSound(pipe.items[f]) /\ pipe \in Pipe /\ pipe.items[f] \in Item
  BY DEF IInv, PipeInv, Sound, Pipe
<1>2. CASE pipe.items[f].wired
  <2>1. pipe.items[f].reply
    BY <1>2 DEF HasClient
  <2>2. pipe.notified /\ Uploading(pipe) /\ f = pipe.current
    BY <1>1, <2>1 DEF PipeInv, Resting, NoRequest, Uploading
  <2>3. pipe' \in ItemBecomes(pipe, pipe.current, it, TRUE)
    BY <1>2, <2>2 DEF ItemBecomes
  <2>4. Completes(pipe, pipe', it)
    BY <1>1, <2>2, <2>3, CurrentCompletesEffect DEF Uploading
  <2> QED BY <1>2, <2>2, <2>4
<1>3. CASE ~pipe.items[f].wired
  <2>1. pipe' = [pipe EXCEPT !.items[f] = it]
    BY <1>3 DEF ItemBecomes
  <2>2. /\ pipe'.deleted = pipe.deleted /\ pipe'.reports = pipe.reports
        /\ pipe'.items = [pipe.items EXCEPT ![f] = it]
    BY <1>1, <2>1 DEF Pipe
  <2>3. pipe.items \in [Files -> Item]
    BY <1>1 DEF Pipe
  <2> QED BY <1>3, <2>2, <2>3
<1> QED BY <1>2, <1>3

\* The ways in which a request ends.
LEMMA EndOfRequest ==
  ASSUME IInv, NEW f \in Files,
         ReplyFinished(f) \/ ReplyError(f) \/ ReplyFinishedAfterError(f) \/ ConnectionTimeout(f)
  PROVE  \E it \in Item :
           /\ \/ ReplyFinished(f) /\ it = End(pipe.items[f])
              \/ ReplyError(f) /\ it = Fail(pipe.items[f])
              \/ ReplyFinishedAfterError(f) /\ it = End(pipe.items[f])
              \/ ConnectionTimeout(f) /\ it = HttpCancel(pipe.items[f])
           /\ ~pipe.items[f].wired => it.status = pipe.items[f].status
           /\ it.status # "Waiting" /\ (~ReplyFinished(f) => it.removed = pipe.items[f].removed)
           /\ UNCHANGED requested
           /\ IF pipe.items[f].wired
              THEN pipe.notified /\ f = pipe.current /\ Completes(pipe, pipe', it)
              ELSE /\ pipe'.deleted = pipe.deleted /\ pipe'.reports = pipe.reports
                   /\ \A g \in Files : pipe'.items[g] = IF g = f THEN it ELSE pipe.items[g]
<1> DEFINE old == pipe.items[f]
<1>1. old \in Item /\ ItemSound(old)
  BY DEF IInv, PipeInv, Sound, Pipe
<1>2. old.status # "Waiting" /\ HasClient(old) /\ (old.request = "open" <=> old.reply)
  BY <1>1, RequestEnding
     DEF ReplyFinished, ReplyError, ReplyFinishedAfterError, ConnectionTimeout
<1>3. End(old) \in Item /\ HttpCancel(old) \in Item /\ HttpCancel(old).removed = old.removed
  BY <1>1, <1>2, FinishedHandler, HttpCancelHandler
<1>4. ~old.wired => ~old.reply
  BY <1>1, <1>2 DEF ItemSound, Requesting, ReplyFinished, ReplyError,
       ReplyFinishedAfterError, ConnectionTimeout
<1>5. ~old.wired => End(old).status = old.status /\ HttpCancel(old).status = old.status
  BY <1>1, <1>4 DEF End, HandleFinished, HttpCancel, Item
<1>6. End(old).status # "Waiting" /\ HttpCancel(old).status # "Waiting"
  BY <1>1, <1>2 DEF End, Fail, HandleError, HandleFinished, HttpCancel, Item
<1>7. CASE ReplyFinished(f)
  <2>1. pipe' \in ItemBecomes(pipe, f, End(old), old.wired) /\ UNCHANGED requested
    BY <1>7 DEF ReplyFinished
  <2> HIDE DEF old
  <2> QED BY <1>2, <1>3, <1>5, <1>6, <1>7, <2>1, RequestEndsEffect DEF old
<1>8. CASE ReplyError(f)
  <2>1. pipe' \in ItemBecomes(pipe, f, Fail(old), old.wired) /\ UNCHANGED requested
    BY <1>8 DEF ReplyError
  <2>2. /\ Fail(old) \in Item /\ Fail(old).removed = old.removed
        /\ Fail(old).status # "Waiting" /\ old.wired
    BY <1>1, <1>4, <1>8, ErrorHandler DEF ReplyError, ItemSound
  <2> HIDE DEF old
  <2> QED BY <1>2, <1>8, <2>1, <2>2, RequestEndsEffect DEF old
<1>9. CASE ReplyFinishedAfterError(f)
  <2>1. pipe' \in ItemBecomes(pipe, f, End(old), old.wired) /\ UNCHANGED requested
    BY <1>9 DEF ReplyFinishedAfterError
  <2>2. End(old).removed = old.removed
    <3>1. End(old).removed = (old.removed \/ old.reply) /\ ~old.reply
      BY <1>1, <1>2, <1>9, FinishedHandler DEF ReplyFinishedAfterError
    <3> QED BY <1>1, <3>1 DEF Item
  <2> HIDE DEF old
  <2> QED BY <1>2, <1>3, <1>5, <1>6, <1>9, <2>1, <2>2, RequestEndsEffect DEF old
<1>10. CASE ConnectionTimeout(f)
  <2>1. pipe' \in ItemBecomes(pipe, f, HttpCancel(old), old.wired) /\ UNCHANGED requested
    BY <1>10 DEF ConnectionTimeout
  <2> HIDE DEF old
  <2> QED BY <1>2, <1>3, <1>5, <1>6, <1>10, <2>1, RequestEndsEffect DEF old
<1> QED BY <1>7, <1>8, <1>9, <1>10

LEMMA CancelAllEffect ==
  ASSUME IInv, CancelAll
  PROVE  Completes(pipe, pipe', Cancel(pipe.items[pipe.current]))
<1>1. pipe.notified /\ pipe' \in CancelCurrent(pipe)
  BY DEF CancelAll
<1>2. pipe \in Pipe /\ Uploading(pipe)
  BY <1>1 DEF IInv, PipeInv, Sound
<1> QED BY <1>1, <1>2, CancelCurrentEffect DEF Uploading

LEMMA ProgressEffect ==
  ASSUME IInv, NEW f \in Files, Progress(f)
  PROVE  /\ pipe'.deleted = pipe.deleted /\ pipe'.reports = pipe.reports
         /\ pipe'.items = [pipe.items EXCEPT ![f] = HandleUploadProgress(@)]
         /\ \A g \in Files : /\ pipe'.items[g].status = pipe.items[g].status
                              /\ pipe'.items[g].removed = pipe.items[g].removed
<1> DEFINE it == HandleUploadProgress(pipe.items[f])
<1>1. pipe \in Pipe /\ pipe.items \in [Files -> Item] /\ pipe' = [pipe EXCEPT !.items[f] = it]
      /\ pipe.items[f].request = "open" /\ ItemSound(pipe.items[f])
  BY DEF IInv, PipeInv, Sound, Pipe, Progress
<1>2. it.status = pipe.items[f].status /\ it.removed = pipe.items[f].removed
  BY <1>1, ProgressHandler
<1> HIDE DEF it
<1>3. /\ pipe'.deleted = pipe.deleted /\ pipe'.reports = pipe.reports
      /\ pipe'.items = [pipe.items EXCEPT ![f] = it]
  BY <1>1 DEF Pipe
<1>4. \A g \in Files : /\ pipe'.items[g].status = pipe.items[g].status
                        /\ pipe'.items[g].removed = pipe.items[g].removed
  BY <1>1, <1>2, <1>3
<1> QED BY <1>3, <1>4 DEF it

LEMMA ProcessEndsEffect ==
  ASSUME ProcessEnds
  PROVE  /\ pipe'.reports = <<>> /\ pipe'.deleted = {} /\ ~pipe'.notified /\ Pending' = {}
         /\ \A f \in Files : pipe'.items[f] = NewItem
         /\ requested' = {} /\ batch' = {} /\ UNCHANGED <<disk, answered>>
<1>1. /\ pipe'.reports = <<>> /\ pipe'.deleted = {} /\ ~pipe'.notified /\ pipe'.queue = <<>>
      /\ \A f \in Files : pipe'.items[f] = NewItem
  BY DEF ProcessEnds, NewPipe
<1> QED BY <1>1, RangeOfEmpty DEF ProcessEnds, Pending

LEMMA BatchStep ==
  ASSUME IInv, IInv', [Next]_vars
  PROVE  Batch!Next \/ UNCHANGED Batch!vars
<1>1. ASSUME NEW f \in Files, Enqueue(f) PROVE Batch!Next
  BY <1>1, EnqueueIsSubmitted
<1>2. ASSUME NEW f \in Files, Progress(f) PROVE UNCHANGED Batch!vars
  <2>1. Still(pipe, pipe')
    <3>1. pipe.deleted \subseteq Files
      BY DEF IInv, PipeInv, Sound, Pipe
    <3> QED BY <1>2, <3>1, ProgressEffect DEF Still
  <2> QED BY <1>2, <2>1, StillIsUnchanged DEF Progress
<1>3. ASSUME NEW f \in Files,
             ReplyFinished(f) \/ ReplyError(f) \/ ReplyFinishedAfterError(f) \/ ConnectionTimeout(f)
      PROVE  Batch!Next \/ UNCHANGED Batch!vars
  <2>1. PICK it \in Item :
          /\ ~pipe.items[f].wired => it.status = pipe.items[f].status
          /\ UNCHANGED requested
          /\ IF pipe.items[f].wired
             THEN pipe.notified /\ f = pipe.current /\ Completes(pipe, pipe', it)
             ELSE /\ pipe'.deleted = pipe.deleted /\ pipe'.reports = pipe.reports
                  /\ \A g \in Files : pipe'.items[g] = IF g = f THEN it ELSE pipe.items[g]
    BY <1>3, EndOfRequest
  <2>2. CASE pipe.items[f].wired
    BY <2>1, <2>2, CompletesIsSettled
  <2>3. CASE ~pipe.items[f].wired
    <3>1. pipe.deleted \subseteq Files
      BY DEF IInv, PipeInv, Sound, Pipe
    <3>2. Still(pipe, pipe')
      BY <2>1, <2>3, <3>1 DEF Still
    <3> QED BY <2>1, <3>2, StillIsUnchanged
  <2> QED BY <2>2, <2>3
<1>4. CASE SessionError \/ SessionDisconnected
  <2>1. UNCHANGED requested
    BY <1>4 DEF SessionError, SessionDisconnected
  <2> QED BY <1>4, <2>1, SessionLostEvent, CompletesIsSettled, StillIsUnchanged
<1>5. CASE SessionOpened
  <2>1. pipe.notified => pipe.current \notin pipe.deleted
    BY DEF IInv, PipeInv, Uploading
  <2>2. pipe.items \in [Files -> Item] /\ pipe.deleted \subseteq Files
    BY DEF IInv, PipeInv, Sound, Pipe
  <2>3. Still(pipe, pipe')
    BY <1>5, <2>1, <2>2, SessionOpenedEffect DEF Still
  <2>4. UNCHANGED requested
    BY <1>5 DEF SessionOpened
  <2> QED BY <2>3, <2>4, StillIsUnchanged
<1>6. CASE CancelAll
  <2>1. UNCHANGED requested
    BY <1>6 DEF CancelAll
  <2> QED BY <1>6, <2>1, CancelAllEffect, CompletesIsSettled
<1>7. CASE ProcessEnds
  <2>1. pipe'.deleted = {} /\ Pending' = {} /\ pipe'.reports = <<>>
    BY <1>7, ProcessEndsEffect
  <2>2. Len(pipe'.reports) = 0 /\ Uploaded' = {}
    BY <2>1 DEF Uploaded
  <2>3. Batch!End
    BY <2>1, <2>2 DEF Batch!End
  <2> QED BY <2>3 DEF Batch!Next
<1>8. CASE UNCHANGED <<pipe, requested>>
  <2>1. Still(pipe, pipe')
    BY <1>8 DEF Still
  <2> QED BY <1>8, <2>1, StillIsUnchanged
<1>9. ASSUME NEW f \in Files, FileVanishes(f) PROVE UNCHANGED <<pipe, requested>>
  BY <1>9 DEF FileVanishes
<1>10. UNCHANGED vars => UNCHANGED <<pipe, requested>>
  BY DEF vars
<1> QED BY <1>1, <1>2, <1>3, <1>4, <1>5, <1>6, <1>7, <1>8, <1>9, <1>10 DEF Next, NetworkAnswers, SessionSettles

(* For any set of files and whatever session, server and timers do, the    *)
(* engine and its queue settle each file of a batch once, as uploaded or   *)
(* as failed, and report in the step that settles the last of them         *)
(* (UploadBatch): that is all the auto uploader has to know of them.       *)
THEOREM EngineImplementsBatch == Spec => ImplementsBatch
<1>1. Init => Batch!Init
  <2> SUFFICES ASSUME Init PROVE Batch!Init
    OBVIOUS
  <2>1. Pending = {} /\ pipe.deleted = {} /\ Len(pipe.reports) = 0
    BY RangeOfEmpty DEF Init, NewPipe, Pending
  <2> QED BY <2>1 DEF Batch!Init, Uploaded
<1>2. IInv /\ IInv' /\ [Next]_vars => [Batch!Next]_(Batch!vars)
  BY BatchStep
<1> QED BY <1>1, <1>2, Invariance, PTL DEF Spec, ImplementsBatch, Batch!Spec

-----------------------------------------------------------------------------
(* When finished() comes                                                   *)

Reports(e, r) ==
  \/ r.reports = e.reports
  \/ Len(r.reports) = Len(e.reports) + 1 /\ ~r.notified

LEMMA ReportsStep ==
  ASSUME IInv, [Next]_vars
  PROVE  Reports(pipe, pipe') \/ ProcessEnds
<1>1. ASSUME NEW f \in Files, Enqueue(f) PROVE Reports(pipe, pipe')
  BY <1>1, EnqueueEffect DEF Reports
<1>2. ASSUME NEW f \in Files, Progress(f) PROVE Reports(pipe, pipe')
  BY <1>2, ProgressEffect DEF Reports
<1>3. ASSUME NEW f \in Files,
             ReplyFinished(f) \/ ReplyError(f) \/ ReplyFinishedAfterError(f) \/ ConnectionTimeout(f)
      PROVE  Reports(pipe, pipe')
  BY <1>3, EndOfRequest DEF Reports, Completes, Outcome
<1>4. CASE SessionError \/ SessionDisconnected
  BY <1>4, SessionLostEvent DEF Reports, Completes, Outcome, Still
<1>5. CASE SessionOpened
  BY <1>5, SessionOpenedEffect DEF Reports
<1>6. CASE CancelAll
  BY <1>6, CancelAllEffect DEF Reports, Completes, Outcome
<1>7. CASE UNCHANGED pipe
  BY <1>7 DEF Reports
<1> QED
  BY <1>1, <1>2, <1>3, <1>4, <1>5, <1>6, <1>7
     DEF Next, vars, NetworkAnswers, SessionSettles, FileVanishes

(* An engine emits finished() once at a time, with nothing left to do: not *)
(* for an item of a batch that goes on, and not again for one that is      *)
(* cancelled late.  What is enqueued afterwards is reported in turn.       *)
THEOREM FinishedComesLast == Spec => FinishedAtTheEnd
<1>1. ASSUME IInv, IInv', [Next]_vars, Len(pipe'.reports) > Len(pipe.reports)
      PROVE  /\ Len(pipe'.reports) = Len(pipe.reports) + 1
             /\ Pending' = {} /\ batch' \subseteq pipe'.deleted
  <2>1. pipe.reports \in Seq(Report)
    BY <1>1 DEF IInv, PipeInv, Sound, Pipe
  <2>2. Len(pipe.reports) \in Nat
    BY <2>1
  <2>3. ~ProcessEnds
    <3>1. ProcessEnds => Len(pipe'.reports) = 0
      BY ProcessEndsEffect
    <3> QED BY <1>1, <2>2, <3>1
  <2>4. Len(pipe'.reports) = Len(pipe.reports) + 1 /\ ~pipe'.notified
    BY <1>1, <2>2, <2>3, ReportsStep DEF Reports
  <2>5. Reporting' /\ NoItemForgotten'
    <3>1. IInv' => Reporting' /\ NoItemForgotten'
      BY ReportedWhenDone, Accounted, PTL
    <3> QED BY <1>1, <3>1
  <2>6. Pending' = {}
    BY <2>4, <2>5 DEF Reporting
  <2>7. batch' \subseteq requested'
    BY <1>1 DEF IInv
  <2> QED BY <2>4, <2>5, <2>6, <2>7 DEF NoItemForgotten
<1>2. IInv /\ IInv' /\ [Next]_vars
      => [Len(pipe'.reports) > Len(pipe.reports) =>
            /\ Len(pipe'.reports) = Len(pipe.reports) + 1
            /\ Pending' = {}
            /\ batch' \subseteq pipe'.deleted]_vars
  BY <1>1
<1> QED BY <1>2, Invariance, PTL DEF Spec, FinishedAtTheEnd

-----------------------------------------------------------------------------
(* What happens to the files                                               *)

\* From e to r no item removes its file, those of others apart.
Spares(e, r, others) == \A g \in Files \ others : r.items[g].removed = e.items[g].removed

LEMMA NextItemSpares ==
  ASSUME NEW e, NEW r, NEW g \in Files, e.items[g] \in Item, ItemSound(e.items[g]),
         NextItem(e, r, g)
  PROVE  r.items[g].removed = e.items[g].removed
<1>1. CASE r.items[g] = StartUpload(e.items[g], g \in disk)
  BY <1>1, StartHandler
<1>2. CASE r.items[g] = Cancel(e.items[g])
  BY <1>2, CancelHandler
<1> QED BY <1>1, <1>2 DEF NextItem

LEMMA CancelSpares ==
  ASSUME IInv, Completes(pipe, pipe', Cancel(pipe.items[pipe.current]))
  PROVE  Spares(pipe, pipe', {})
<1>1. \A g \in Files : pipe.items[g] \in Item /\ ItemSound(pipe.items[g])
  BY DEF IInv, PipeInv, Sound, Pipe
<1>2. pipe.current \in Files
  BY DEF Completes, IInv, PipeInv, Uploading
<1> QED BY <1>1, <1>2, NextItemSpares, CancelHandler DEF Completes, Spares

LEMMA EndOfRequestSpares ==
  ASSUME IInv, NEW f \in Files,
         ReplyFinished(f) \/ ReplyError(f) \/ ReplyFinishedAfterError(f) \/ ConnectionTimeout(f)
  PROVE  Spares(pipe, pipe', IF ReplyFinished(f) THEN {f} ELSE {})
<1>1. PICK it \in Item :
        /\ ~ReplyFinished(f) => it.removed = pipe.items[f].removed
        /\ IF pipe.items[f].wired
           THEN pipe.notified /\ f = pipe.current /\ Completes(pipe, pipe', it)
           ELSE /\ pipe'.deleted = pipe.deleted /\ pipe'.reports = pipe.reports
                /\ \A g \in Files : pipe'.items[g] = IF g = f THEN it ELSE pipe.items[g]
  BY EndOfRequest
<1>2. \A g \in Files : pipe.items[g] \in Item /\ ItemSound(pipe.items[g])
  BY DEF IInv, PipeInv, Sound, Pipe
<1>3. pipe'.items[f] = it
  BY <1>1 DEF Completes
<1>4. \A g \in Files \ {f} : pipe'.items[g].removed = pipe.items[g].removed
  BY <1>1, <1>2, NextItemSpares DEF Completes
<1> QED BY <1>1, <1>3, <1>4 DEF Spares

(* Only the end of a request without a network error removes a file.       *)
LEMMA StepSpares ==
  ASSUME IInv, [Next]_vars
  PROVE  \/ ProcessEnds \/ Spares(pipe, pipe', {})
         \/ \E f \in Files : (ReplyFinished(f) /\ Spares(pipe, pipe', {f}))
<1>0. \A g \in Files : pipe.items[g] \in Item /\ ItemSound(pipe.items[g])
  BY DEF IInv, PipeInv, Sound, Pipe
<1>1. ASSUME NEW f \in Files, Enqueue(f) PROVE Spares(pipe, pipe', {})
  BY <1>0, <1>1, EnqueueEffect, StartHandler, CancelHandler DEF Spares
<1>2. ASSUME NEW f \in Files, Progress(f) PROVE Spares(pipe, pipe', {})
  BY <1>2, ProgressEffect DEF Spares
<1>3. ASSUME NEW f \in Files, NetworkAnswers(f) \/ ReplyFinishedAfterError(f) \/ ConnectionTimeout(f)
      PROVE  Spares(pipe, pipe', {}) \/ (ReplyFinished(f) /\ Spares(pipe, pipe', {f}))
  BY <1>3, EndOfRequestSpares DEF NetworkAnswers
<1>4. CASE SessionError \/ SessionDisconnected
  <2>1. CASE pipe.notified
    BY <1>4, <2>1, SessionLostEvent, CancelSpares
  <2>2. CASE ~pipe.notified
    BY <1>4, <2>2, SessionLostEvent DEF Spares
  <2> QED BY <2>1, <2>2
<1>5. CASE SessionOpened
  <2>1. pipe.items \in [Files -> Item]
    BY DEF IInv, PipeInv, Sound, Pipe
  <2>2. \A g \in Files : pipe'.items[g] = pipe.items[g] \/ pipe'.items[g] = StartUpload(pipe.items[g], g \in disk)
    BY <1>5, <2>1, SessionOpenedEffect
  <2> QED BY <1>0, <2>2, StartHandler DEF Spares
<1>6. CASE CancelAll
  BY <1>6, CancelAllEffect, CancelSpares
<1>7. CASE UNCHANGED pipe
  BY <1>7 DEF Spares
<1> QED
  BY <1>1, <1>2, <1>3, <1>4, <1>5, <1>6, <1>7 DEF Next, SessionSettles, FileVanishes, vars

\* What an item has removed is not there any more.
FilesInv == \A f \in Files : pipe.items[f].removed => f \notin disk

\* disk is as it was, as long as no item removes anything.
LEMMA SparedFilesStay ==
  ASSUME IInv, FilesInv, NEW others, Spares(pipe, pipe', others), disk' = Remaining(disk, pipe'.items)
  PROVE  disk' \subseteq disk /\ disk \ disk' \subseteq others
<1>1. disk \subseteq Files
  BY DEF IInv
<1> QED BY <1>1 DEF FilesInv, Spares, Remaining

LEMMA FilesStep ==
  ASSUME IInv, FilesInv, [Next]_vars
  PROVE  /\ FilesInv' /\ disk' \subseteq disk /\ answered \subseteq answered'
         /\ disk \ disk' \subseteq Vanishing \cup answered'
<1>0. disk \subseteq Files /\ \A f \in Files : pipe.items[f] \in Item
  BY DEF IInv, PipeInv, Sound, Pipe
<1>1. CASE ProcessEnds
  BY <1>1, ProcessEndsEffect DEF FilesInv, NewItem
<1>2. ASSUME NEW f \in Files, ReplyFinished(f), Spares(pipe, pipe', {f})
      PROVE  /\ FilesInv' /\ disk' \subseteq disk /\ answered \subseteq answered'
             /\ disk \ disk' \subseteq Vanishing \cup answered'
  <2>1. disk' = Remaining(disk, pipe'.items) /\ answered' = answered \cup {f}
    BY <1>2 DEF ReplyFinished
  <2>2. disk' \subseteq disk /\ disk \ disk' \subseteq {f}
    BY <1>2, <2>1, SparedFilesStay
  <2>3. FilesInv'
    BY <2>1 DEF FilesInv, Remaining
  <2> QED BY <2>1, <2>2, <2>3
<1>3. CASE Spares(pipe, pipe', {}) /\ ~ProcessEnds
  <2>1. answered \subseteq answered'
    BY DEF Next, vars, NetworkAnswers, SessionSettles, Enqueue, Progress, ReplyFinished, ReplyError,
         ReplyFinishedAfterError, ConnectionTimeout, SessionOpened, SessionError,
         SessionDisconnected, CancelAll, ProcessEnds, FileVanishes
  <2>2. CASE disk' = Remaining(disk, pipe'.items)
    <3>1. disk' \subseteq disk /\ disk \ disk' \subseteq {}
      BY <1>3, <2>2, SparedFilesStay
    <3>2. FilesInv'
      BY <2>2 DEF FilesInv, Remaining
    <3> QED BY <2>1, <3>1, <3>2
  <2>3. CASE disk' = disk
    BY <1>3, <2>1, <2>3 DEF FilesInv, Spares
  <2>4. ASSUME NEW f \in Files, FileVanishes(f)
        PROVE  disk' \subseteq disk /\ disk \ disk' \subseteq Vanishing /\ FilesInv'
    BY <1>3, <2>4 DEF FileVanishes, FilesInv, Spares
  <2>5. \/ disk' = Remaining(disk, pipe'.items) \/ disk' = disk
        \/ \E f \in Files : FileVanishes(f)
    BY <1>3 DEF Next, vars, NetworkAnswers, SessionSettles, Enqueue, Progress, ReplyFinished,
         ReplyError, ReplyFinishedAfterError, ConnectionTimeout, SessionOpened, SessionError,
         SessionDisconnected, CancelAll
  <2> QED BY <2>1, <2>2, <2>3, <2>4, <2>5
<1> QED BY <1>1, <1>2, <1>3, StepSpares

LEMMA FilesInvariance == Spec => []FilesInv
<1>1. Init => FilesInv
  BY DEF Init, FilesInv, NewPipe, NewItem
<1>2. IInv /\ FilesInv /\ [Next]_vars => FilesInv'
  BY FilesStep
<1> QED BY <1>1, <1>2, Invariance, PTL DEF Spec

(* A report leaves the disk only when its own request has ended without a  *)
(* network error, or through another process: whatever happens to the      *)
(* session, to the requests of others or to the process, it stays.         *)
THEOREM ReportsAreKept == Spec => []AnsweredOrKept
<1>1. Init => AnsweredOrKept
  BY DEF Init, AnsweredOrKept
<1>2. IInv /\ FilesInv /\ AnsweredOrKept /\ [Next]_vars => AnsweredOrKept'
  BY FilesStep DEF AnsweredOrKept
<1> QED BY <1>1, <1>2, Invariance, FilesInvariance, PTL DEF Spec

-----------------------------------------------------------------------------
(* The engine keeps the contract of its items                              *)

Contract(f) == TheItem(f)!ItemNext(f) \/ UNCHANGED TheItem(f)!vars

\* The item of f has emitted uploadFinished().
Completed(f) == f \in pipe.deleted /\ pipe.items[f].status # "Waiting"

\* Neither the file of f nor what the server has of it changes.
FilesStay(f) == (f \in disk' <=> f \in disk) /\ (f \in answered' <=> f \in answered)

LEMMA SparedFilesStayThere ==
  ASSUME IInv, FilesInv, NEW others, Spares(pipe, pipe', others),
         disk' = Remaining(disk, pipe'.items), NEW f \in Files \ others,
         f \in answered' <=> f \in answered
  PROVE  FilesStay(f)
BY SparedFilesStay DEF FilesStay

LEMMA FileStaysOrIsRemoved ==
  ASSUME FilesInv', NEW f \in Files, FilesStay(f)
  PROVE  /\ disk' \cap {f} = TheItem(f)!Remaining(disk \cap {f}, [g \in {f} |-> pipe'.items[g]])
         /\ disk' \cap {f} = disk \cap {f} /\ answered' \cap {f} = answered \cap {f}
BY DEF FilesInv, FilesStay, TheItem!Remaining

LEMMA Emits ==
  ASSUME NEW f \in Files, NEW emits \in BOOLEAN,
         IF emits THEN ~Completed(f) /\ Completed(f)' ELSE Completed(f)' <=> Completed(f)
  PROVE  TheItem(f)!Complete(f, emits)
<1> DEFINE before == [g \in {f} |-> IF g \in pipe.deleted /\ pipe.items[g].status # "Waiting" THEN 1 ELSE 0]
           after == [g \in {f} |-> IF g \in pipe'.deleted /\ pipe'.items[g].status # "Waiting" THEN 1 ELSE 0]
<1>1. IF emits THEN before[f] = 0 /\ after[f] = 1 ELSE before[f] = after[f]
  BY DEF Completed
<1>2. before = [g \in {f} |-> before[f]] /\ after = [g \in {f} |-> after[f]]
  OBVIOUS
<1>3. after = IF emits THEN [before EXCEPT ![f] = @ + 1] ELSE before
  <2>1. CASE emits
    <3>1. after[f] = before[f] + 1
      BY <1>1, <2>1
    <3> HIDE DEF before, after
    <3> QED BY <1>2, <2>1, <3>1
  <2>2. CASE ~emits
    <3>1. after[f] = before[f]
      BY <1>1, <2>2
    <3> HIDE DEF before, after
    <3> QED BY <1>2, <2>2, <3>1
  <2> QED BY <2>1, <2>2
<1> QED BY <1>3 DEF TheItem!Complete

LEMMA ItemStays ==
  ASSUME NEW f \in Files, pipe'.items[f] = pipe.items[f], FilesStay(f), Completed(f)' <=> Completed(f)
  PROVE  Contract(f)
<1>1. [g \in {f} |-> pipe'.items[g]] = [g \in {f} |-> pipe.items[g]]
  OBVIOUS
<1>2. disk' \cap {f} = disk \cap {f} /\ answered' \cap {f} = answered \cap {f}
  BY DEF FilesStay
<1>3. [g \in {f} |-> IF g \in pipe'.deleted /\ pipe'.items[g].status # "Waiting" THEN 1 ELSE 0]
      = [g \in {f} |-> IF g \in pipe.deleted /\ pipe.items[g].status # "Waiting" THEN 1 ELSE 0]
  BY DEF Completed
<1>4. UNCHANGED TheItem(f)!vars
  BY <1>1, <1>2, <1>3 DEF TheItem!vars
<1> QED BY <1>4 DEF Contract

\* What the actions of an item ask for besides its completion.
LEMMA ItemIs ==
  ASSUME NEW f \in Files, NEW new, pipe'.items[f] = new
  PROVE  [g \in {f} |-> pipe'.items[g]] = [[g \in {f} |-> pipe.items[g]] EXCEPT ![f] = new]
OBVIOUS

LEMMA ItemStarts ==
  ASSUME NEW f \in Files, pipe.items[f].status = "Waiting",
         pipe'.items[f] = StartUpload(pipe.items[f], f \in disk), FilesStay(f),
         Completed(f)' <=> Completed(f)
  PROVE  Contract(f)
<1> DEFINE new == StartUpload(pipe.items[f], f \in disk)
<1>1. [g \in {f} |-> pipe'.items[g]] = [[g \in {f} |-> pipe.items[g]] EXCEPT ![f] = new]
  BY ItemIs
<1>2. new = TheItem(f)!StartUpload([g \in {f} |-> pipe.items[g]][f], f \in disk \cap {f})
  BY DEF TheItem!StartUpload, StartUpload
<1> HIDE DEF new
<1>3. disk' \cap {f} = disk \cap {f} /\ answered' \cap {f} = answered \cap {f}
  BY DEF FilesStay
<1>4. [g \in {f} |-> IF g \in pipe'.deleted /\ pipe'.items[g].status # "Waiting" THEN 1 ELSE 0]
      = [g \in {f} |-> IF g \in pipe.deleted /\ pipe.items[g].status # "Waiting" THEN 1 ELSE 0]
  BY DEF Completed
<1>5. TheItem(f)!Start(f)
  BY <1>1, <1>2, <1>3, <1>4 DEF TheItem!Start
<1> QED BY <1>5 DEF Contract, TheItem!ItemNext

LEMMA ItemIsCancelled ==
  ASSUME FilesInv', NEW f \in Files, CancelCompletes(pipe.items[f]), ~Completed(f), Completed(f)',
         pipe'.items[f] = Cancel(pipe.items[f]), FilesStay(f)
  PROVE  Contract(f)
<1> DEFINE old == pipe.items[f]
           new == Cancel(old)
<1>1. [g \in {f} |-> pipe'.items[g]] = [[g \in {f} |-> pipe.items[g]] EXCEPT ![f] = new]
  BY ItemIs
<1>2. /\ new = TheItem(f)!Cancel(old)
      /\ TheItem(f)!CancelCompletes(old)
  BY DEF TheItem!Cancel, TheItem!HttpCancel, TheItem!HandleError, TheItem!HandleFinished,
         TheItem!Fail, TheItem!End, TheItem!CancelCompletes, Cancel, HttpCancel, HandleError,
         HandleFinished, Fail, End, CancelCompletes
<1>3. /\ disk' \cap {f} = TheItem(f)!Remaining(disk \cap {f}, [g \in {f} |-> pipe'.items[g]])
      /\ answered' \cap {f} = answered \cap {f}
  BY FileStaysOrIsRemoved
<1>4. TheItem(f)!Complete(f, TRUE)
  BY Emits
<1>5. ~TheItem(f)!Completed(f)
  BY DEF TheItem!Completed, Completed
<1>6. [g \in {f} |-> pipe.items[g]][f] = old
  OBVIOUS
<1> HIDE DEF old, new
<1>7. TheItem(f)!Complete(f, TheItem(f)!CancelCompletes([g \in {f} |-> pipe.items[g]][f]))
  <2>1. TheItem(f)!CancelCompletes([g \in {f} |-> pipe.items[g]][f])
    BY <1>2, <1>6
  <2> QED BY <1>4, <2>1 DEF TheItem!Complete
<1>8. [g \in {f} |-> pipe'.items[g]]
      = [[g \in {f} |-> pipe.items[g]] EXCEPT ![f] = TheItem(f)!Cancel([g \in {f} |-> pipe.items[g]][f])]
  BY <1>1, <1>2, <1>6
<1>9. TheItem(f)!CancelItem(f)
  BY <1>3, <1>5, <1>7, <1>8 DEF TheItem!CancelItem
<1> QED BY <1>9 DEF Contract, TheItem!ItemNext

(* An item other than those that are done keeps its contract, whether it   *)
(* is the next, waits or is dropped.                                       *)
LEMMA OtherItemKept ==
  ASSUME IInv, IInv', FilesInv', NEW done, Outcome(pipe, pipe', done),
         NEW g \in Files \ done, NextItem(pipe, pipe', g), FilesStay(g)
  PROVE  Contract(g)
<1>1. g \in Range(pipe.queue) => g \notin pipe.deleted /\ Untouched(pipe.items[g])
  BY QueuedUntouched
<1>2. /\ g \in pipe.deleted => g \in pipe'.deleted
      /\ g \in pipe'.deleted => g \in pipe.deleted \/ g \in Range(pipe.queue)
      /\ ~pipe'.notified /\ g \in Range(pipe.queue) => g \in pipe'.deleted
  BY DEF Outcome
<1>3. CASE pipe'.items[g] = pipe.items[g]
  <2>1. Completed(g)' <=> Completed(g)
    BY <1>1, <1>2, <1>3 DEF Completed, Untouched
  <2> QED BY <1>3, <2>1, ItemStays
<1>4. CASE /\ g \in Range(pipe.queue) /\ pipe'.notified /\ g = pipe'.current
           /\ pipe'.items[g] = StartUpload(pipe.items[g], g \in disk)
  <2>1. g \notin pipe'.deleted
    BY <1>4 DEF IInv, PipeInv, Uploading
  <2>2. Completed(g)' <=> Completed(g)
    BY <1>1, <1>4, <2>1 DEF Completed
  <2> QED BY <1>1, <1>4, <2>2, ItemStarts DEF Untouched
<1>5. CASE /\ g \in Range(pipe.queue) /\ ~pipe'.notified
           /\ pipe'.items[g] = Cancel(pipe.items[g])
  <2>1. pipe.items[g] \in Item
    BY DEF IInv, PipeInv, Sound, Pipe
  <2>2. Cancel(pipe.items[g]).status = "Cancelled"
    BY <1>1, <1>5, <2>1 DEF Cancel, Untouched, Item
  <2>3. ~Completed(g) /\ Completed(g)'
    BY <1>1, <1>2, <1>5, <2>2 DEF Completed
  <2> QED BY <1>1, <1>5, <2>3, ItemIsCancelled DEF Untouched, CancelCompletes
<1> QED BY <1>3, <1>4, <1>5 DEF NextItem

LEMMA CurrentIsCancelled ==
  ASSUME IInv, IInv', FilesInv, FilesInv',
         Completes(pipe, pipe', Cancel(pipe.items[pipe.current])),
         disk' = Remaining(disk, pipe'.items), UNCHANGED answered, NEW g \in Files
  PROVE  Contract(g)
<1>1. FilesStay(g)
  BY CancelSpares, SparedFilesStayThere
<1>2. CASE g = pipe.current
  <2>1. g \notin pipe.deleted /\ CancelCompletes(pipe.items[g])
    BY <1>2 DEF Completes, IInv, PipeInv, Uploading
  <2>2. g \in pipe'.deleted /\ pipe'.items[g] = Cancel(pipe.items[g])
    BY <1>2 DEF Completes, Outcome
  <2>3. pipe.items[g] \in Item
    BY DEF IInv, PipeInv, Sound, Pipe
  <2>4. Cancel(pipe.items[g]).status # "Waiting"
    BY <2>3 DEF Cancel, HttpCancel, HandleError, HandleFinished, Fail, End, Item
  <2> QED BY <1>1, <2>1, <2>2, <2>4, ItemIsCancelled DEF Completed
<1>3. CASE g # pipe.current
  BY <1>1, <1>3, OtherItemKept DEF Completes
<1> QED BY <1>2, <1>3

(* An item emits uploadFinished() in the end of its request exactly if it  *)
(* still listens to its client.                                            *)
LEMMA EndOfRequestEmits ==
  ASSUME IInv, NEW f \in Files, NEW it \in Item, it.status # "Waiting",
         ~pipe.items[f].wired => it.status = pipe.items[f].status,
         IF pipe.items[f].wired
         THEN pipe.notified /\ f = pipe.current /\ Completes(pipe, pipe', it)
         ELSE /\ pipe'.deleted = pipe.deleted /\ pipe'.reports = pipe.reports
              /\ \A g \in Files : pipe'.items[g] = IF g = f THEN it ELSE pipe.items[g]
  PROVE  TheItem(f)!Complete(f, pipe.items[f].wired)
<1> DEFINE wired == pipe.items[f].wired
<1>1. wired \in BOOLEAN
  BY DEF IInv, PipeInv, Sound, Pipe, Item
<1>2. ASSUME wired PROVE ~Completed(f) /\ Completed(f)'
  <2>1. f \notin pipe.deleted
    BY <1>2 DEF IInv, PipeInv, Uploading
  <2>2. f \in pipe'.deleted /\ pipe'.items[f] = it
    BY <1>2 DEF Completes, Outcome
  <2> QED BY <2>1, <2>2 DEF Completed
<1>3. ASSUME ~wired PROVE Completed(f)' <=> Completed(f)
  BY <1>3 DEF Completed
<1> HIDE DEF wired
<1>4. ASSUME wired PROVE TheItem(f)!Complete(f, wired)
  <2>1. TheItem(f)!Complete(f, TRUE)
    BY <1>2, <1>4, Emits
  <2> QED BY <1>4, <2>1 DEF TheItem!Complete
<1>5. ASSUME ~wired PROVE TheItem(f)!Complete(f, wired)
  <2>1. TheItem(f)!Complete(f, FALSE)
    BY <1>3, <1>5, Emits
  <2> QED BY <1>5, <2>1 DEF TheItem!Complete
<1>6. TheItem(f)!Complete(f, wired)
  BY <1>1, <1>4, <1>5
<1> QED BY <1>6 DEF wired

LEMMA OthersStayAtEndOfRequest ==
  ASSUME IInv, IInv', FilesInv', NEW f \in Files, NEW it,
         IF pipe.items[f].wired
         THEN pipe.notified /\ f = pipe.current /\ Completes(pipe, pipe', it)
         ELSE /\ pipe'.deleted = pipe.deleted /\ pipe'.reports = pipe.reports
              /\ \A g \in Files : pipe'.items[g] = IF g = f THEN it ELSE pipe.items[g],
         NEW g \in Files \ {f}, FilesStay(g)
  PROVE  Contract(g)
<1>1. CASE pipe.items[f].wired
  BY <1>1, OtherItemKept DEF Completes
<1>2. CASE ~pipe.items[f].wired
  <2>1. pipe'.items[g] = pipe.items[g] /\ (Completed(g)' <=> Completed(g))
    BY <1>2 DEF Completed
  <2> QED BY <2>1, ItemStays
<1> QED BY <1>1, <1>2

LEMMA RequestEndIsKept ==
  ASSUME IInv, IInv', FilesInv, FilesInv', NEW f \in Files,
         ReplyFinished(f) \/ ReplyError(f) \/ ReplyFinishedAfterError(f) \/ ConnectionTimeout(f),
         NEW g \in Files
  PROVE  Contract(g)
<1> DEFINE old == pipe.items[f]
           was == [h \in {f} |-> pipe.items[h]]
           is == [h \in {f} |-> pipe'.items[h]]
<1>1. PICK it \in Item :
        /\ \/ ReplyFinished(f) /\ it = End(old)
           \/ ReplyError(f) /\ it = Fail(old)
           \/ ReplyFinishedAfterError(f) /\ it = End(old)
           \/ ConnectionTimeout(f) /\ it = HttpCancel(old)
        /\ ~old.wired => it.status = old.status
        /\ it.status # "Waiting"
        /\ UNCHANGED requested
        /\ IF old.wired
           THEN pipe.notified /\ f = pipe.current /\ Completes(pipe, pipe', it)
           ELSE /\ pipe'.deleted = pipe.deleted /\ pipe'.reports = pipe.reports
                /\ \A h \in Files : pipe'.items[h] = IF h = f THEN it ELSE pipe.items[h]
  BY EndOfRequest
<1>2. CASE g # f
  <2>1. disk' = Remaining(disk, pipe'.items) /\ (g \in answered' <=> g \in answered)
    BY <1>1, <1>2 DEF ReplyFinished, ReplyError, ReplyFinishedAfterError, ConnectionTimeout
  <2>2. FilesStay(g)
    <3>1. CASE ReplyFinished(f)
      BY <1>2, <2>1, <3>1, EndOfRequestSpares, SparedFilesStayThere
    <3>2. CASE ~ReplyFinished(f)
      BY <1>2, <2>1, <3>2, EndOfRequestSpares, SparedFilesStayThere
    <3> QED BY <3>1, <3>2
  <2> QED BY <1>1, <1>2, <2>2, OthersStayAtEndOfRequest
<1>3. CASE g = f
  <2>1. pipe'.items[f] = it
    BY <1>1 DEF Completes
  <2>2. is = [was EXCEPT ![f] = it] /\ was[f] = old
    BY <2>1, ItemIs
  <2>3. TheItem(f)!Complete(f, old.wired)
    BY <1>1, EndOfRequestEmits
  <2>4. TheItem(f)!Complete(f, was[f].wired)
    BY <2>2, <2>3 DEF TheItem!Complete
  <2>5. disk' \cap {f} = TheItem(f)!Remaining(disk \cap {f}, is)
    <3>1. disk' = Remaining(disk, pipe'.items)
      BY <1>1 DEF ReplyFinished, ReplyError, ReplyFinishedAfterError, ConnectionTimeout
    <3> QED BY <3>1 DEF Remaining, TheItem!Remaining
  <2>6. CASE ReplyFinished(f) /\ it = End(old)
    <3>1. old.request = "open" /\ answered' \cap {f} = (answered \cap {f}) \cup {f}
      BY <2>6 DEF ReplyFinished
    <3>2. it = TheItem(f)!End(was[f])
      BY <2>2, <2>6 DEF TheItem!End, End, TheItem!HandleFinished, HandleFinished
    <3>3. is = [was EXCEPT ![f] = TheItem(f)!End(was[f])]
      BY <2>2, <3>2
    <3>4. TheItem(f)!ReplyFinished(f)
      BY <2>2, <2>4, <2>5, <3>1, <3>3 DEF TheItem!ReplyFinished, TheItem!Complete
    <3> QED BY <1>3, <3>4 DEF Contract, TheItem!ItemNext
  <2>7. CASE ReplyError(f) /\ it = Fail(old)
    <3>1. old.request = "open" /\ answered' \cap {f} = answered \cap {f}
      BY <2>7 DEF ReplyError
    <3>2. it = TheItem(f)!Fail(was[f])
      BY <2>2, <2>7 DEF TheItem!Fail, Fail, TheItem!HandleError, HandleError
    <3>3. is = [was EXCEPT ![f] = TheItem(f)!Fail(was[f])]
      BY <2>2, <3>2
    <3>4. TheItem(f)!ReplyError(f)
      BY <2>2, <2>4, <2>5, <3>1, <3>3 DEF TheItem!ReplyError, TheItem!Complete
    <3> QED BY <1>3, <3>4 DEF Contract, TheItem!ItemNext
  <2>8. CASE ReplyFinishedAfterError(f) /\ it = End(old)
    <3>1. old.request = "failed" /\ answered' \cap {f} = answered \cap {f}
      BY <2>8 DEF ReplyFinishedAfterError
    <3>2. it = TheItem(f)!End(was[f])
      BY <2>2, <2>8 DEF TheItem!End, End, TheItem!HandleFinished, HandleFinished
    <3>3. is = [was EXCEPT ![f] = TheItem(f)!End(was[f])]
      BY <2>2, <3>2
    <3>4. TheItem(f)!ReplyFinishedAfterError(f)
      BY <2>2, <2>4, <2>5, <3>1, <3>3 DEF TheItem!ReplyFinishedAfterError, TheItem!Complete
    <3> QED BY <1>3, <3>4 DEF Contract, TheItem!ItemNext
  <2>9. CASE ConnectionTimeout(f) /\ it = HttpCancel(old)
    <3>1. old.timer /\ answered' \cap {f} = answered \cap {f}
      BY <2>9 DEF ConnectionTimeout
    <3>2. it = TheItem(f)!HttpCancel(was[f])
      BY <2>2, <2>9 DEF TheItem!HttpCancel, TheItem!HandleError, TheItem!HandleFinished,
           TheItem!Fail, TheItem!End, HttpCancel, HandleError, HandleFinished, Fail, End
    <3>3. is = [was EXCEPT ![f] = TheItem(f)!HttpCancel(was[f])]
      BY <2>2, <3>2
    <3>4. TheItem(f)!ConnectionTimeout(f)
      BY <2>2, <2>4, <2>5, <3>1, <3>3 DEF TheItem!ConnectionTimeout, TheItem!Complete
    <3> QED BY <1>3, <3>4 DEF Contract, TheItem!ItemNext
  <2> QED BY <1>1, <2>6, <2>7, <2>8, <2>9
<1> QED BY <1>2, <1>3

LEMMA EnqueueIsKept ==
  ASSUME IInv, IInv', FilesInv', NEW f \in Files, Enqueue(f), NEW g \in Files
  PROVE  Contract(g)
<1>1. /\ f \notin requested
      /\ IF pipe'.notified
         THEN pipe'.deleted = pipe.deleted
         ELSE ~pipe.notified /\ pipe'.deleted = pipe.deleted \cup {f}
      /\ \A h \in Files \ {f} : pipe'.items[h] = pipe.items[h]
      /\ \/ pipe'.items[f] = pipe.items[f]
         \/ pipe'.notified /\ pipe'.items[f] = StartUpload(pipe.items[f], f \in disk)
         \/ ~pipe'.notified /\ pipe'.items[f] = Cancel(pipe.items[f])
  BY EnqueueEffect
<1>2. FilesStay(g)
  BY DEF FilesStay, Enqueue
<1>3. f \notin pipe.deleted /\ Untouched(pipe.items[f]) /\ pipe.items[f] \in Item
  BY <1>1 DEF IInv, Tracked, PipeInv, Sound, Pipe
<1>4. CASE pipe'.items[g] = pipe.items[g]
  <2>1. Completed(g)' <=> Completed(g)
    BY <1>1, <1>3, <1>4 DEF Completed, Untouched
  <2> QED BY <1>2, <1>4, <2>1, ItemStays
<1>5. CASE g = f /\ pipe'.notified /\ pipe'.items[f] = StartUpload(pipe.items[f], f \in disk)
  <2>1. Completed(f)' <=> Completed(f)
    BY <1>1, <1>3, <1>5 DEF Completed
  <2> QED BY <1>2, <1>3, <1>5, <2>1, ItemStarts DEF Untouched
<1>6. CASE g = f /\ ~pipe'.notified /\ pipe'.items[f] = Cancel(pipe.items[f])
  <2>1. Cancel(pipe.items[f]).status = "Cancelled"
    BY <1>3 DEF Cancel, Untouched, Item
  <2>2. ~Completed(f) /\ Completed(f)'
    BY <1>1, <1>3, <1>6, <2>1 DEF Completed
  <2> QED BY <1>2, <1>3, <1>6, <2>2, ItemIsCancelled DEF Untouched, CancelCompletes
<1> QED BY <1>1, <1>4, <1>5, <1>6

LEMMA ProgressIsKept ==
  ASSUME IInv, NEW f \in Files, Progress(f), NEW g \in Files
  PROVE  Contract(g)
<1> DEFINE was == [h \in {f} |-> pipe.items[h]]
           is == [h \in {f} |-> pipe'.items[h]]
<1>1. /\ pipe'.deleted = pipe.deleted
      /\ pipe'.items = [pipe.items EXCEPT ![f] = HandleUploadProgress(@)]
      /\ \A h \in Files : pipe'.items[h].status = pipe.items[h].status
  BY ProgressEffect
<1>2. pipe.items \in [Files -> Item] /\ UNCHANGED <<disk, answered>> /\ pipe.items[f].request = "open"
  BY DEF IInv, PipeInv, Sound, Pipe, Progress
<1>3. Completed(g)' <=> Completed(g)
  BY <1>1 DEF Completed
<1>4. FilesStay(g)
  BY <1>2 DEF FilesStay
<1>5. CASE g # f
  <2>1. pipe'.items[g] = pipe.items[g]
    BY <1>1, <1>2, <1>5
  <2> QED BY <1>3, <1>4, <2>1, ItemStays
<1>6. CASE g = f
  <2>1. HandleUploadProgress(pipe.items[f]) = TheItem(f)!HandleUploadProgress(pipe.items[f])
    BY DEF TheItem!HandleUploadProgress, HandleUploadProgress
  <2>2. pipe'.items[f] = TheItem(f)!HandleUploadProgress(pipe.items[f])
    BY <1>1, <1>2, <2>1
  <2>3. is = [was EXCEPT ![f] = TheItem(f)!HandleUploadProgress(pipe.items[f])] /\ was[f] = pipe.items[f]
    BY <2>2, ItemIs
  <2>4. TheItem(f)!Complete(f, FALSE)
    BY <1>3, <1>6, Emits
  <2>5. [h \in {f} |-> IF h \in pipe'.deleted /\ pipe'.items[h].status # "Waiting" THEN 1 ELSE 0]
        = [h \in {f} |-> IF h \in pipe.deleted /\ pipe.items[h].status # "Waiting" THEN 1 ELSE 0]
    BY <2>4 DEF TheItem!Complete
  <2>6. disk' \cap {f} = disk \cap {f} /\ answered' \cap {f} = answered \cap {f}
    BY <1>2
  <2> HIDE DEF was, is
  <2>7. TheItem(f)!Progress(f)
    BY <1>2, <2>3, <2>5, <2>6 DEF TheItem!Progress, was, is
  <2> QED BY <1>6, <2>7 DEF Contract, TheItem!ItemNext
<1> QED BY <1>5, <1>6

LEMMA ContractStep ==
  ASSUME IInv, IInv', FilesInv, [Next]_vars, NEW g \in Files
  PROVE  ProcessEnds \/ Contract(g)
<1>0. FilesInv'
  BY FilesStep
<1>1. ASSUME NEW f \in Files, Enqueue(f) PROVE Contract(g)
  BY <1>0, <1>1, EnqueueIsKept
<1>2. ASSUME NEW f \in Files, FileVanishes(f) PROVE Contract(g)
  <2>1. /\ UNCHANGED <<pipe, answered>> /\ f \in Vanishing /\ f \in disk /\ disk' = disk \ {f}
    BY <1>2 DEF FileVanishes
  <2>2. Completed(g)' <=> Completed(g)
    BY <2>1 DEF Completed
  <2>3. CASE g # f
    <3>1. FilesStay(g)
      BY <2>1, <2>3 DEF FilesStay
    <3> QED BY <2>1, <2>2, <3>1, ItemStays
  <2>4. CASE g = f
    <3>1. /\ g \in (Vanishing \cap {g}) \cap (disk \cap {g})
          /\ disk' \cap {g} = (disk \cap {g}) \ {g} /\ answered' \cap {g} = answered \cap {g}
      BY <2>1, <2>4
    <3>2. [h \in {g} |-> pipe'.items[h]] = [h \in {g} |-> pipe.items[h]]
      BY <2>1
    <3>3. [h \in {g} |-> IF h \in pipe'.deleted /\ pipe'.items[h].status # "Waiting" THEN 1 ELSE 0]
          = [h \in {g} |-> IF h \in pipe.deleted /\ pipe.items[h].status # "Waiting" THEN 1 ELSE 0]
      BY <2>1
    <3>4. TheItem(g)!FileVanishes(g)
      BY <3>1, <3>2, <3>3 DEF TheItem!FileVanishes
    <3> QED BY <3>4 DEF Contract, TheItem!ItemNext
  <2> QED BY <2>3, <2>4
<1>3. ASSUME NEW f \in Files, Progress(f) PROVE Contract(g)
  BY <1>3, ProgressIsKept
<1>4. ASSUME NEW f \in Files, NetworkAnswers(f) \/ ReplyFinishedAfterError(f) \/ ConnectionTimeout(f)
      PROVE  Contract(g)
  BY <1>0, <1>4, RequestEndIsKept DEF NetworkAnswers
<1>5. CASE SessionError \/ SessionDisconnected
  <2>1. disk' = Remaining(disk, pipe'.items) /\ UNCHANGED answered
    BY <1>5 DEF SessionError, SessionDisconnected
  <2>2. CASE pipe.notified
    BY <1>0, <1>5, <2>1, <2>2, SessionLostEvent, CurrentIsCancelled
  <2>3. CASE ~pipe.notified
    <3>1. pipe'.items = pipe.items /\ pipe'.deleted = pipe.deleted
      BY <1>5, <2>3, SessionLostEvent DEF Still
    <3>2. FilesStay(g)
      BY <2>1, <3>1, SparedFilesStayThere DEF Spares
    <3> QED BY <3>1, <3>2, ItemStays DEF Completed
  <2> QED BY <2>2, <2>3
<1>6. CASE SessionOpened
  <2>1. UNCHANGED <<disk, answered>> /\ pipe'.deleted = pipe.deleted
    BY <1>6, SessionOpenedEffect DEF SessionOpened
  <2>2. FilesStay(g)
    BY <2>1 DEF FilesStay
  <2>3. pipe.items \in [Files -> Item]
    BY DEF IInv, PipeInv, Sound, Pipe
  <2>4. CASE pipe'.items[g] = pipe.items[g]
    BY <2>1, <2>2, <2>4, ItemStays DEF Completed
  <2>5. CASE pipe'.items[g] # pipe.items[g]
    <3>1. /\ pipe.notified /\ g = pipe.current /\ Untouched(pipe.items[g])
          /\ pipe'.items[g] = StartUpload(pipe.items[g], g \in disk)
      BY <1>6, <2>3, <2>5, SessionOpenedEffect
    <3>2. g \notin pipe.deleted
      BY <3>1 DEF IInv, PipeInv, Uploading
    <3>3. Completed(g)' <=> Completed(g)
      BY <2>1, <3>2 DEF Completed
    <3> QED BY <2>2, <3>1, <3>3, ItemStarts DEF Untouched
  <2> QED BY <2>4, <2>5
<1>7. CASE CancelAll
  BY <1>0, <1>7, CancelAllEffect, CurrentIsCancelled DEF CancelAll
<1>8. CASE UNCHANGED vars
  BY <1>8, ItemStays DEF FilesStay, Completed, vars
<1> QED BY <1>1, <1>2, <1>3, <1>4, <1>5, <1>6, <1>7, <1>8 DEF Next, SessionSettles

(* Whatever happens in the pipeline, each upload item sees only calls and  *)
(* events that it can live with: the queue and the engine start an item at *)
(* most once, while it waits, and cancel it only as long as it has not     *)
(* emitted uploadFinished().  What holds of a single item (UploadItem)     *)
(* therefore holds of the items in the queue.                              *)
THEOREM EngineKeepsItemContract == Spec => KeepsItemContract
<1>1. IInv /\ IInv' /\ FilesInv /\ [Next]_vars
      => [ProcessEnds \/
          \A f \in Files : TheItem(f)!ItemNext(f) \/ UNCHANGED TheItem(f)!vars]_vars
  BY ContractStep DEF Contract
<1> QED BY <1>1, Invariance, FilesInvariance, PTL DEF Spec, KeepsItemContract

-----------------------------------------------------------------------------
(* The count of a batch                                                    *)

(* Besides the current item, which is neither sent nor failed yet.         *)
Owing(e) ==
  IF e.error = "NoError"
  THEN e.nbrOfItems = e.sent + Len(e.queue) + 1
  ELSE e.nbrOfItems > e.sent + Len(e.queue) + 1

(* No request of the current item has ended unnoticed.                     *)
UnderWay(e) == e.items[e.current].http = "None" \/ e.items[e.current].reply

Honest(r) == r.error = "NoError" <=> r.sent = r.total

Counted(e) ==
  /\ e.notified => Owing(e) /\ UnderWay(e) /\ e.reports = <<>>
  /\ ~e.notified /\ e.reports = <<>> => e.error = "NoError" /\ e.sent = 0
  /\ \A n \in DOMAIN e.reports : Honest(e.reports[n])

(* A file is there until its item is done with.                            *)
CountInv == Counted(pipe) /\ Pending \subseteq disk

\* The queue can be read.
Readable(e) == \A n \in 1..Len(e.queue) : e.queue[n] \in disk /\ Untouched(e.items[e.queue[n]])

LEMMA LastItemCounts ==
  ASSUME NEW e \in Pipe, NEW f \in Files, e.reports = <<>>,
         e.error = "NoError" <=> e.sent = e.nbrOfItems
  PROVE  Counted(LastItemFinished(e, f))
<1> DEFINE d == [e EXCEPT !.deleted = @ \cup {f}, !.notified = FALSE]
           rep == [error |-> d.error, sent |-> d.sent, total |-> d.nbrOfItems]
           r == QueueDone(d)
<1>1. /\ d.reports = <<>> /\ d.notified = FALSE /\ d.error = e.error /\ d.sent = e.sent
      /\ d.nbrOfItems = e.nbrOfItems /\ d \in Pipe
  BY DEF Pipe
<1>2. LastItemFinished(e, f) = r
  BY DEF LastItemFinished
<1> HIDE DEF d
<1>3. Honest(rep)
  BY <1>1 DEF Honest
<1> HIDE DEF rep
<1>4. r.reports = Append(d.reports, rep) /\ r.notified = d.notified
  BY <1>1 DEF QueueDone, Pipe, rep
<1>5. r.reports = <<rep>>
  BY <1>1, <1>4
<1>6. r.reports # <<>> /\ \A n \in DOMAIN r.reports : r.reports[n] = rep
  BY <1>5
<1> HIDE DEF r
<1> QED BY <1>1, <1>2, <1>3, <1>4, <1>6 DEF Counted

LEMMA AbandonCounts ==
  ASSUME NEW e \in Pipe, NEW f \in Files, e.reports = <<>>, e.nbrOfItems > e.sent
  PROVE  Counted(Abandon(e, f))
<1> DEFINE err == FirstError(e.error, "ProtocolError")
           none == <<>>
           del  == e.deleted \cup Range(e.queue)
           c == [e EXCEPT !.error = err, !.queue = none, !.deleted = del]
<1>1. err \in ErrorType /\ err # "NoError"
  BY DEF Pipe, ErrorType, FirstError
<1>2. none \in Seq(Files) /\ del \in SUBSET Files
  BY QueueFiles DEF Pipe
<1>3. Abandon(e, f) = LastItemFinished(c, f)
  BY DEF Abandon, Clear, Pipe
<1> HIDE DEF err, none, del
<1>4. /\ c \in Pipe /\ c.error = err /\ c.sent = e.sent /\ c.nbrOfItems = e.nbrOfItems
      /\ c.reports = <<>>
  <2>1. c \in Pipe
    BY <1>1, <1>2 DEF Pipe
  <2>2. /\ c.error = err /\ c.sent = e.sent /\ c.nbrOfItems = e.nbrOfItems
        /\ c.reports = <<>>
    BY DEF Pipe
  <2> QED BY <2>1, <2>2
<1>5. e.sent # e.nbrOfItems
  BY DEF Pipe
<1> HIDE DEF c
<1> QED BY <1>1, <1>3, <1>4, <1>5, LastItemCounts

LEMMA UploadNextCounts ==
  ASSUME ~SyncErrors, NEW e \in Pipe, e.notified, e.queue # <<>>, Readable(e), NEW r \in UploadNext(e)
  PROVE  /\ r \in Pipe /\ r.notified /\ r.sent = e.sent /\ r.nbrOfItems = e.nbrOfItems
         /\ r.error = e.error /\ r.reports = e.reports /\ Len(r.queue) = Len(e.queue) - 1 /\ UnderWay(r)
<1> DEFINE f == Head(e.queue)
           rest == Tail(e.queue)
           taken == [e EXCEPT !.queue = rest, !.current = f]
<1>1. /\ e.queue \in Seq(Files) /\ rest \in Seq(Files) /\ f \in Files
      /\ Len(rest) = Len(e.queue) - 1 /\ f = e.queue[1] /\ 1 \in 1..Len(e.queue)
  <2>1. e.queue \in Seq(Files)
    BY DEF Pipe
  <2>2. Len(e.queue) \in Nat \ {0}
    BY <2>1, EmptySeq
  <2> QED BY <2>1, <2>2
<1>2. f \in disk /\ Untouched(e.items[f])
  BY <1>1 DEF Readable
<1>3. PICK o \in OpenOutcomes(e.session) :
        r = CASE o.result = "ready" ->
                   [taken EXCEPT !.session = o.session, !.state = "Connected",
                                 !.items[f] = StartUpload(@, f \in disk)]
              [] o.result = "pending" ->
                   [taken EXCEPT !.session = o.session, !.state = "Connecting"]
              [] o.result = "failed" ->
                   Abandon([taken EXCEPT
                              !.session = o.session, !.state = "NoConnection",
                              !.error = FirstError(@, "ConnectionNotAvailable"),
                              !.items[f] = Cancel(@)], f)
  BY Zenon DEF UploadNext
<1>4. o.result \in {"ready", "pending"} /\ o.session \in SessionState
  BY <1>3 DEF OpenOutcomes, SessionState
<1> HIDE DEF f, rest
<1>5. /\ taken \in Pipe /\ taken.current = f /\ taken.items = e.items /\ taken.queue = rest
      /\ taken.notified /\ taken.sent = e.sent /\ taken.nbrOfItems = e.nbrOfItems
      /\ taken.error = e.error /\ taken.reports = e.reports
  BY <1>1 DEF Pipe
<1> HIDE DEF taken
<1>6. CASE o.result = "ready"
  <2> DEFINE it == StartUpload(taken.items[f], f \in disk)
  <2>1. taken.items[f] \in Item
    BY <1>1, <1>5 DEF Pipe
  <2>2. it.reply /\ it \in Item
    <3>1. it \in Item
      BY <2>1, StartHandler
    <3>2. it.reply
      BY <1>2, <2>1 DEF StartUpload, Item
    <3> QED BY <3>1, <3>2
  <2>3. r = [taken EXCEPT !.session = o.session, !.state = "Connected", !.items[f] = it]
    BY <1>3, <1>6
  <2> HIDE DEF it
  <2>4. /\ r.current = f /\ r.items[f] = it /\ r.queue = rest
        /\ r.notified /\ r.sent = e.sent /\ r.nbrOfItems = e.nbrOfItems /\ r.error = e.error
        /\ r.reports = e.reports /\ r \in Pipe
    BY <1>1, <1>4, <1>5, <2>2, <2>3 DEF Pipe, EngineState
  <2> QED BY <1>1, <2>2, <2>4 DEF UnderWay
<1>7. CASE o.result = "pending"
  <2>0. r = [taken EXCEPT !.session = o.session, !.state = "Connecting"]
    BY <1>3, <1>7
  <2>1. /\ r.current = f /\ r.items = e.items /\ r.queue = rest
        /\ r.notified /\ r.sent = e.sent /\ r.nbrOfItems = e.nbrOfItems /\ r.error = e.error
        /\ r.reports = e.reports /\ r \in Pipe
    BY <1>1, <1>4, <1>5, <2>0 DEF Pipe, EngineState
  <2> QED BY <1>1, <1>2, <2>1 DEF UnderWay, Untouched
<1> QED BY <1>4, <1>6, <1>7

(* An item has been counted, as sent or as failed.                         *)
LEMMA ItemFinishedCounts ==
  ASSUME ~SyncErrors, NEW e \in Pipe, e.notified, e.reports = <<>>, Readable(e), NEW f \in Files,
         IF e.error = "NoError" THEN e.nbrOfItems = e.sent + Len(e.queue)
                                ELSE e.nbrOfItems > e.sent + Len(e.queue),
         NEW r \in ItemFinished(e, f)
  PROVE  Counted(r)
<1>0. e.sent \in Nat /\ e.nbrOfItems \in Nat /\ e.queue \in Seq(Files) /\ Len(e.queue) \in Nat
  BY DEF Pipe
<1>1. CASE e.queue = <<>>
  <2>1. r = LastItemFinished(e, f)
    BY <1>1 DEF ItemFinished
  <2>2. Len(e.queue) = 0
    BY <1>1
  <2>3. e.error = "NoError" <=> e.sent = e.nbrOfItems
    BY <1>0, <2>2
  <2> QED BY <2>1, <2>3, LastItemCounts
<1>2. CASE e.queue # <<>>
  <2> DEFINE del == e.deleted \cup {f}
             d == [e EXCEPT !.deleted = del]
  <2>1. r \in UploadNext(d)
    BY <1>2 DEF ItemFinished
  <2>2. del \in SUBSET Files
    BY DEF Pipe
  <2> HIDE DEF del
  <2>3. /\ d \in Pipe /\ d.queue = e.queue /\ d.items = e.items /\ d.sent = e.sent
        /\ d.nbrOfItems = e.nbrOfItems /\ d.error = e.error /\ d.reports = <<>> /\ d.notified
    BY <2>2 DEF Pipe
  <2> HIDE DEF d
  <2>4. /\ r.notified /\ r.sent = e.sent /\ r.nbrOfItems = e.nbrOfItems /\ r.error = e.error
        /\ r.reports = <<>> /\ Len(r.queue) = Len(e.queue) - 1 /\ UnderWay(r)
    BY <1>2, <2>1, <2>3, UploadNextCounts DEF Readable
  <2>5. Owing(r)
    <3> DEFINE was == Len(e.queue)
               now == Len(r.queue)
    <3>1. was \in Nat /\ now = was - 1
      BY <1>0, <2>4
    <3>2. IF e.error = "NoError" THEN e.nbrOfItems = e.sent + was ELSE e.nbrOfItems > e.sent + was
      OBVIOUS
    <3> HIDE DEF was, now
    <3>3. IF e.error = "NoError" THEN e.nbrOfItems = e.sent + now + 1
                                ELSE e.nbrOfItems > e.sent + now + 1
      BY <1>0, <3>1, <3>2
    <3> QED BY <2>4, <3>3 DEF Owing, now
  <2> QED BY <2>4, <2>5 DEF Counted
<1> QED BY <1>1, <1>2

LEMMA UploadFinishedCounts ==
  ASSUME ~SyncErrors, NEW e \in Pipe, e.notified, e.reports = <<>>, Readable(e), NEW f \in Files,
         Owing(e), NEW r \in UploadFinished(e, f)
  PROVE  Counted(r)
<1> DEFINE err == FirstError(e.error, "ProtocolError")
           failed == [e EXCEPT !.error = err]
           n == e.sent + 1
           sent == [e EXCEPT !.sent = n]
<1>1. err \in ErrorType /\ err # "NoError"
  BY DEF Pipe, ErrorType, FirstError
<1>2. e.sent \in Nat /\ e.nbrOfItems \in Nat /\ e.queue \in Seq(Files) /\ Len(e.queue) \in Nat
  BY DEF Pipe
<1>3. n \in Nat /\ n = e.sent + 1
  BY <1>2
<1>4. \/ r \in ItemFinished(failed, f)
      \/ r = Abandon(e, f)
      \/ r \in ItemFinished(sent, f)
  BY DEF UploadFinished
<1> HIDE DEF err, n
<1>5. CASE r \in ItemFinished(failed, f)
  <2>1. /\ failed \in Pipe /\ failed.queue = e.queue /\ failed.items = e.items /\ failed.sent = e.sent
        /\ failed.nbrOfItems = e.nbrOfItems /\ failed.error = err /\ failed.reports = <<>>
        /\ failed.notified
    BY <1>1 DEF Pipe
  <2> HIDE DEF failed
  <2>2. failed.nbrOfItems > failed.sent + Len(failed.queue)
    BY <1>2, <2>1 DEF Owing
  <2> QED BY <1>1, <1>5, <2>1, <2>2, ItemFinishedCounts DEF Readable
<1>6. CASE r = Abandon(e, f)
  <2>1. e.nbrOfItems > e.sent
    BY <1>2 DEF Owing
  <2> QED BY <1>6, <2>1, AbandonCounts
<1>7. CASE r \in ItemFinished(sent, f)
  <2>1. /\ sent \in Pipe /\ sent.queue = e.queue /\ sent.items = e.items /\ sent.sent = n
        /\ sent.nbrOfItems = e.nbrOfItems /\ sent.error = e.error /\ sent.reports = <<>>
        /\ sent.notified
    BY <1>3 DEF Pipe
  <2> HIDE DEF sent
  <2>2. IF sent.error = "NoError" THEN sent.nbrOfItems = sent.sent + Len(sent.queue)
                                  ELSE sent.nbrOfItems > sent.sent + Len(sent.queue)
    BY <1>2, <1>3, <2>1 DEF Owing
  <2> QED BY <1>7, <2>1, <2>2, ItemFinishedCounts DEF Readable
<1> QED BY <1>4, <1>5, <1>6, <1>7

(* A cancellation leaves at least the current item unsent.                 *)
LEMMA CancelCurrentCounts ==
  ASSUME NEW e \in Pipe, e.reports = <<>>, e.current \in Files, UnderWay(e),
         CancelCompletes(e.items[e.current]), e.nbrOfItems > e.sent,
         NEW r \in CancelCurrent(e)
  PROVE  Counted(r) /\ ~r.notified
<1> DEFINE f == e.current
           old == e.items[f]
           it == Cancel(old)
           d == [e EXCEPT !.items[f] = it]
<1>1. old \in Item
  BY DEF Pipe
<1>2. it \in Item
  BY <1>1, CancelType
<1>3. it.status = "Cancelled"
  BY <1>1 DEF UnderWay, Cancel, HttpCancel, HandleError, HandleFinished, Fail, End, Item
<1>4. r \in UploadFinished(d, f)
  BY DEF CancelCurrent, ItemBecomes
<1> HIDE DEF it
<1>5. /\ d \in Pipe /\ d.items[f] = it /\ d.reports = <<>>
      /\ d.nbrOfItems = e.nbrOfItems /\ d.sent = e.sent
  BY <1>2 DEF Pipe
<1> HIDE DEF d
<1>6. r = Abandon(d, f)
  BY <1>3, <1>4, <1>5 DEF UploadFinished
<1> QED BY <1>5, <1>6, AbandonCounts, AbandonEffect

LEMMA SomethingOwed ==
  ASSUME NEW e \in Pipe, Owing(e)
  PROVE  e.nbrOfItems > e.sent
<1>1. e.sent \in Nat /\ e.nbrOfItems \in Nat /\ e.queue \in Seq(Files) /\ Len(e.queue) \in Nat
  BY DEF Pipe
<1> QED BY <1>1 DEF Owing

LEMMA SessionLostCounts ==
  ASSUME NEW e, PipeInv(e), Counted(e), NEW r \in SessionLost(e)
  PROVE  Counted(r)
<1>1. CASE e.notified
  <2>1. Uploading(e) /\ e \in Pipe
    BY <1>1 DEF PipeInv, Sound
  <2>2. PICK why \in ErrorType :
          r \in CancelCurrent([e EXCEPT !.state = "NoConnection", !.error = FirstError(@, why)])
    BY <2>1 DEF SessionLost, ErrorType, Uploading
  <2> DEFINE err == FirstError(e.error, why)
             d == [e EXCEPT !.state = "NoConnection", !.error = err]
  <2>3. err \in ErrorType
    BY <2>1, FirstErrorType DEF Pipe
  <2>4. r \in CancelCurrent(d)
    BY <2>2
  <2> HIDE DEF err
  <2>5. /\ d \in Pipe /\ d.reports = e.reports /\ d.current = e.current /\ d.items = e.items
        /\ d.sent = e.sent /\ d.nbrOfItems = e.nbrOfItems
    BY <2>1, <2>3 DEF Pipe, EngineState
  <2> HIDE DEF d
  <2>6. Owing(e) /\ UnderWay(e) /\ e.reports = <<>>
    BY <1>1 DEF Counted
  <2>7. e.nbrOfItems > e.sent
    BY <2>1, <2>6, SomethingOwed
  <2> QED BY <2>1, <2>4, <2>5, <2>6, <2>7, CancelCurrentCounts DEF Uploading, UnderWay
<1>2. CASE ~e.notified
  <2>1. Resting(e) /\ e \in Pipe
    BY <1>2 DEF PipeInv, Sound
  <2>2. r = [e EXCEPT !.state = "NoConnection"]
    BY <2>1 DEF SessionLost, Resting
  <2>3. /\ r.reports = e.reports /\ r.error = e.error /\ r.sent = e.sent /\ ~r.notified
    BY <1>2, <2>1, <2>2 DEF Pipe
  <2> QED BY <1>2, <2>3 DEF Counted
<1> QED BY <1>1, <1>2

LEMMA QueueReadable == IInv /\ CountInv => Readable(pipe)
<1> SUFFICES ASSUME IInv, CountInv PROVE Readable(pipe)
  OBVIOUS
<1>1. \A n \in 1..Len(pipe.queue) : pipe.queue[n] \in Range(pipe.queue)
  BY QueueFiles DEF IInv, PipeInv, Sound
<1>2. \A n \in 1..Len(pipe.queue) : pipe.queue[n] \in disk
  BY <1>1 DEF CountInv, Pending
<1> QED BY <1>2 DEF IInv, PipeInv, Sound, QueueSound, Readable

LEMMA EnqueueItemCounts ==
  ASSUME ~SyncErrors, NEW p, NEW f \in Files, f \in disk, Enlists(p, f), Counted(p),
         p.reports = <<>>, NEW r \in EnqueueItem(p, f)
  PROVE  Counted(r) /\ r.notified /\ r.reports = <<>>
<1> DEFINE q == Append(p.queue, f)
           e == [p EXCEPT !.queue = q]
           d == [e EXCEPT !.nbrOfItems = 0, !.notified = TRUE]
<1>1. /\ p \in Pipe /\ p.reports = <<>> /\ p.queue \in Seq(Files)
      /\ Untouched(p.items[f]) /\ p.nbrOfItems \in Nat /\ p.sent \in Nat
  BY DEF Enlists, PipeInv, Sound, Pipe
<1>2. PICK t : /\ IF e.notified THEN t = e ELSE t \in UploadNext(d)
               /\ r = [t EXCEPT !.nbrOfItems = @ + 1]
  BY DEF EnqueueItem
<1>3. /\ q \in Seq(Files) /\ q # <<>> /\ Len(q) = Len(p.queue) + 1
      /\ Len(p.queue) \in Nat
  <2>1. p.queue \in Seq(Files) /\ f \in Files
    BY <1>1
  <2>2. Len(p.queue) \in Nat
    BY <2>1
  <2>3. q \in Seq(Files)
    BY <2>1
  <2>4. Len(q) = Len(p.queue) + 1
    BY <2>1
  <2>5. q # <<>>
    BY <2>1
  <2> QED BY <2>2, <2>3, <2>4, <2>5
<1> HIDE DEF q
<1>4. /\ e \in Pipe /\ e.queue = q /\ e.items = p.items /\ e.reports = <<>>
      /\ e.notified = p.notified /\ e.error = p.error /\ e.sent = p.sent
      /\ e.nbrOfItems = p.nbrOfItems /\ e.current = p.current
  BY <1>1, <1>3 DEF Pipe
<1> HIDE DEF e
<1>5. ASSUME t \in Pipe
      PROVE  /\ r.notified = t.notified /\ r.error = t.error /\ r.sent = t.sent
             /\ r.reports = t.reports /\ r.nbrOfItems = t.nbrOfItems + 1
             /\ r.queue = t.queue /\ r.items = t.items /\ r.current = t.current
  <2> DEFINE n == t.nbrOfItems + 1
  <2> HIDE DEF n
  <2>1. r = [t EXCEPT !.nbrOfItems = n]
    BY <1>2 DEF n
  <2>2. r.nbrOfItems = n
    BY <1>5, <2>1 DEF Pipe
  <2> QED BY <1>5, <2>1, <2>2 DEF Pipe, n
<1>6. CASE p.notified
  <2>1. t = e
    BY <1>2, <1>4, <1>6
  <2>2. t \in Pipe
    BY <1>4, <2>1
  <2>3. Owing(p) /\ UnderWay(p)
    BY <1>6 DEF Counted
  <2>4. /\ r.notified /\ r.error = p.error /\ r.sent = p.sent /\ r.reports = <<>>
        /\ r.nbrOfItems = p.nbrOfItems + 1 /\ Len(r.queue) = Len(p.queue) + 1
        /\ r.items = p.items /\ r.current = p.current
    BY <1>3, <1>4, <1>5, <1>6, <2>1, <2>2
  <2>5. Owing(r)
    <3>1. \A k, b, l \in Nat : b = k + l + 1 => b + 1 = k + (l + 1) + 1
      OBVIOUS
    <3>2. \A k, b, l \in Nat : b > k + l + 1 => b + 1 > k + (l + 1) + 1
      OBVIOUS
    <3>3. CASE p.error = "NoError"
      <4>1. p.nbrOfItems = p.sent + Len(p.queue) + 1
        BY <2>3, <3>3 DEF Owing
      <4>2. p.nbrOfItems + 1 = p.sent + (Len(p.queue) + 1) + 1
        BY <1>1, <1>3, <3>1, <4>1
      <4> QED BY <2>4, <3>3, <4>2 DEF Owing
    <3>4. CASE p.error # "NoError"
      <4>1. p.nbrOfItems > p.sent + Len(p.queue) + 1
        BY <2>3, <3>4 DEF Owing
      <4> QED BY <1>1, <1>3, <2>4, <3>2, <3>4, <4>1 DEF Owing
    <3> QED BY <3>3, <3>4
  <2>6. UnderWay(r)
    BY <2>3, <2>4 DEF UnderWay
  <2> QED BY <2>4, <2>5, <2>6 DEF Counted
<1>7. CASE ~p.notified
  <2>1. p.queue = <<>> /\ Len(p.queue) = 0 /\ p.error = "NoError" /\ p.sent = 0
    BY <1>1, <1>7 DEF Enlists, PipeInv, Resting, Counted
  <2>2. Len(q) = 1 /\ q[1] = f
    BY <2>1 DEF q
  <2>3. /\ d \in Pipe /\ d.queue = q /\ d.items = p.items /\ d.reports = <<>>
        /\ d.notified /\ d.error = "NoError" /\ d.sent = 0 /\ d.nbrOfItems = 0
    BY <1>4, <2>1 DEF Pipe
  <2>4. t \in UploadNext(d)
    BY <1>2, <1>4, <1>7
  <2> HIDE DEF d
  <2>5. Readable(d)
    <3>1. \A n \in 1..Len(q) : n = 1
      BY <2>2
    <3> QED BY <1>1, <2>2, <2>3, <3>1 DEF Readable
  <2>6. /\ t \in Pipe /\ t.notified /\ t.sent = d.sent /\ t.nbrOfItems = d.nbrOfItems
        /\ t.error = d.error /\ t.reports = d.reports /\ Len(t.queue) = Len(d.queue) - 1
        /\ UnderWay(t)
    BY <1>3, <2>3, <2>4, <2>5, UploadNextCounts
  <2>7. Len(d.queue) - 1 = 0
    BY <2>2, <2>3
  <2>8. /\ r.notified /\ r.error = "NoError" /\ r.sent = 0 /\ r.reports = <<>>
        /\ r.nbrOfItems = 1 /\ Len(r.queue) = 0
        /\ r.items = t.items /\ r.current = t.current
    <3>1. t.nbrOfItems + 1 = 1
      BY <2>3, <2>6
    <3>2. r.notified
      BY <1>5, <2>6
    <3> QED BY <1>5, <2>3, <2>6, <2>7, <3>1, <3>2
  <2>9. UnderWay(r)
    BY <2>6, <2>8 DEF UnderWay
  <2>10. Owing(r)
    BY <2>8 DEF Owing
  <2> QED BY <2>8, <2>9, <2>10 DEF Counted
<1> QED BY <1>6, <1>7

LEMMA RequestEndCounts ==
  ASSUME ~SyncErrors, IInv, CountInv, NEW f \in Files, HasClient(pipe.items[f]), NEW it \in Item,
         pipe' \in ItemBecomes(pipe, f, it, pipe.items[f].wired)
  PROVE  Counted(pipe')
<1> DEFINE d == [pipe EXCEPT !.items[f] = it]
<1>1. PipeInv(pipe) /\ pipe \in Pipe /\ ItemSound(pipe.items[f]) /\ pipe.items \in [Files -> Item]
  BY DEF IInv, PipeInv, Sound, Pipe
<1>2. /\ d \in Pipe /\ d.queue = pipe.queue /\ d.sent = pipe.sent /\ d.nbrOfItems = pipe.nbrOfItems
      /\ d.error = pipe.error /\ d.reports = pipe.reports /\ d.notified = pipe.notified
      /\ d.current = pipe.current /\ d.items = [pipe.items EXCEPT ![f] = it]
  BY <1>1 DEF Pipe
<1>3. CASE pipe.items[f].wired
  <2>1. pipe.items[f].reply
    BY <1>3 DEF HasClient
  <2>2. pipe.notified /\ Uploading(pipe) /\ f = pipe.current
    BY <1>1, <2>1 DEF PipeInv, Resting, NoRequest, Uploading
  <2>3. pipe' \in UploadFinished(d, f)
    BY <1>3 DEF ItemBecomes
  <2> HIDE DEF d
  <2>4. Owing(d)
    <3>1. Owing(pipe)
      BY <2>2 DEF CountInv, Counted
    <3> QED BY <1>2, <3>1 DEF Owing
  <2>5. Readable(d)
    <3>1. Readable(pipe)
      BY QueueReadable
    <3>2. pipe.queue \in Seq(Files) /\ \A n \in 1..Len(pipe.queue) : pipe.queue[n] # f
      BY <1>1, <2>2 DEF Uploading, Pipe
    <3>3. ASSUME NEW n \in 1..Len(pipe.queue)
          PROVE  d.items[pipe.queue[n]] = pipe.items[pipe.queue[n]]
      <4>1. pipe.queue[n] \in Files
        BY <3>2
      <4> QED BY <1>1, <1>2, <3>2, <4>1
    <3> QED BY <1>2, <3>1, <3>3 DEF Readable
  <2>6. d.reports = <<>> /\ d.notified
    BY <1>2, <2>2 DEF CountInv, Counted
  <2> QED BY <1>2, <2>3, <2>4, <2>5, <2>6, UploadFinishedCounts
<1>4. CASE ~pipe.items[f].wired
  <2>1. pipe' = d
    BY <1>4 DEF ItemBecomes
  <2> HIDE DEF d
  <2>2. ~pipe.items[f].reply /\ pipe.items[f].http # "None"
    BY <1>1, <1>4 DEF ItemSound, HasClient
  <2>3. CASE pipe.notified
    <3>1. Owing(pipe) /\ UnderWay(pipe) /\ pipe.reports = <<>> /\ pipe.current \in Files
      BY <1>1, <2>3 DEF CountInv, Counted, PipeInv, Uploading
    <3>2. f # pipe.current
      BY <2>2, <3>1 DEF UnderWay
    <3>3. Owing(d)
      BY <1>2, <3>1 DEF Owing
    <3>4. UnderWay(d)
      BY <1>1, <1>2, <3>1, <3>2 DEF UnderWay
    <3>5. d.notified /\ d.reports = <<>>
      BY <1>2, <2>3, <3>1
    <3> QED BY <2>1, <3>3, <3>4, <3>5 DEF Counted
  <2>4. CASE ~pipe.notified
    BY <1>2, <2>1, <2>4 DEF CountInv, Counted
  <2> QED BY <2>3, <2>4
<1> QED BY <1>3, <1>4

LEMMA SessionLostEventCounts ==
  ASSUME IInv, CountInv, SessionError \/ SessionDisconnected
  PROVE  Counted(pipe')
<1> DEFINE e == [pipe EXCEPT !.session = "idle"]
<1>1. /\ e \in Pipe /\ e.items = pipe.items /\ e.reports = pipe.reports /\ e.queue = pipe.queue
      /\ e.current = pipe.current /\ e.notified = pipe.notified /\ e.error = pipe.error
      /\ e.sent = pipe.sent /\ e.nbrOfItems = pipe.nbrOfItems
  BY DEF IInv, PipeInv, Sound, Pipe, SessionState
<1>2. PipeInv(e)
  BY SessionChanges DEF IInv, SessionState
<1>3. \E x \in SessionLost(e) : pipe' = x \/ pipe' = [x EXCEPT !.session = "none"]
  BY DEF SessionError, SessionDisconnected
<1> HIDE DEF e
<1>4. PICK x \in SessionLost(e) : pipe' = x \/ pipe' = [x EXCEPT !.session = "none"]
  BY <1>3
<1>5. x \in Pipe
  BY <1>2, SessionLostSound DEF MovesTo, PipeInv, Sound
<1>6. /\ pipe'.items = x.items /\ pipe'.reports = x.reports /\ pipe'.queue = x.queue
      /\ pipe'.current = x.current /\ pipe'.error = x.error
      /\ pipe'.sent = x.sent /\ pipe'.nbrOfItems = x.nbrOfItems
  BY <1>4, <1>5 DEF Pipe
<1>7. pipe'.notified <=> x.notified
  BY <1>4, <1>5 DEF Pipe
<1>8. Counted(e)
  <2>1. Counted(pipe)
    BY DEF CountInv
  <2> QED BY <1>1, <2>1 DEF Counted, Owing, UnderWay
<1>9. Counted(x)
  BY <1>2, <1>8, SessionLostCounts
<1>10. Owing(x) <=> Owing(pipe')
  BY <1>6 DEF Owing
<1>11. UnderWay(x) <=> UnderWay(pipe')
  BY <1>6 DEF UnderWay
<1> QED BY <1>6, <1>7, <1>9, <1>10, <1>11 DEF Counted

LEMMA SessionOpenedCounts ==
  ASSUME IInv, CountInv, SessionOpened
  PROVE  Counted(pipe')
<1> DEFINE f == pipe.current
           it == StartUpload(pipe.items[f], f \in disk)
<1>1. pipe \in Pipe /\ pipe.items \in [Files -> Item]
  BY DEF IInv, PipeInv, Sound, Pipe
<1>2. /\ pipe'.queue = pipe.queue /\ pipe'.sent = pipe.sent /\ pipe'.nbrOfItems = pipe.nbrOfItems
      /\ pipe'.error = pipe.error /\ pipe'.reports = pipe.reports /\ pipe'.current = pipe.current
  BY <1>1 DEF SessionOpened, Pipe
<1>3. pipe'.notified <=> pipe.notified
  BY <1>1 DEF SessionOpened, Pipe
<1>4. UnderWay(pipe) /\ pipe.notified => UnderWay(pipe')
  <2> SUFFICES ASSUME UnderWay(pipe), pipe.notified PROVE UnderWay(pipe')
    OBVIOUS
  <2>1. f \in Files /\ f \in disk
    BY DEF IInv, PipeInv, Uploading, CountInv, Pending
  <2>2. it.reply
    BY <2>1 DEF StartUpload
  <2>3. pipe'.items = pipe.items \/ pipe'.items = [pipe.items EXCEPT ![f] = it]
    BY SessionOpenedEffect
  <2> HIDE DEF it
  <2> QED BY <1>1, <1>2, <2>1, <2>2, <2>3 DEF UnderWay
<1>5. Owing(pipe') <=> Owing(pipe)
  BY <1>2 DEF Owing
<1> QED BY <1>2, <1>3, <1>4, <1>5 DEF CountInv, Counted

LEMMA ProgressCounts ==
  ASSUME IInv, CountInv, NEW f \in Files, Progress(f)
  PROVE  Counted(pipe')
<1> DEFINE it == HandleUploadProgress(pipe.items[f])
<1>1. /\ pipe \in Pipe /\ pipe.items \in [Files -> Item] /\ pipe' = [pipe EXCEPT !.items[f] = it]
      /\ pipe.items[f].request = "open" /\ pipe.items[f] \in Item /\ ItemSound(pipe.items[f])
  BY DEF IInv, PipeInv, Sound, Pipe, Progress
<1>2. it.reply
  BY <1>1, ProgressHandler DEF ItemSound
<1> HIDE DEF it
<1>3. /\ pipe'.queue = pipe.queue /\ pipe'.sent = pipe.sent /\ pipe'.nbrOfItems = pipe.nbrOfItems
      /\ pipe'.error = pipe.error /\ pipe'.reports = pipe.reports /\ pipe'.current = pipe.current
      /\ pipe'.items = [pipe.items EXCEPT ![f] = it]
  BY <1>1 DEF Pipe
<1>4. pipe'.notified <=> pipe.notified
  BY <1>1 DEF Pipe
<1>5. UnderWay(pipe) /\ pipe.notified => UnderWay(pipe')
  <2>1. pipe.notified => pipe.current \in Files
    BY DEF IInv, PipeInv, Uploading
  <2> QED BY <1>1, <1>2, <1>3, <2>1 DEF UnderWay
<1>6. Owing(pipe') <=> Owing(pipe)
  BY <1>3 DEF Owing
<1> QED BY <1>3, <1>4, <1>5, <1>6 DEF CountInv, Counted

\* What happens to an engine whose batch is complete.
WorkGoesOn ==
  \/ \E f \in Files :
       \/ Progress(f) \/ NetworkAnswers(f)
       \/ ReplyFinishedAfterError(f) \/ ConnectionTimeout(f)
  \/ SessionSettles
  \/ CancelAll

(* Nothing has been enqueued with an engine after it has reported: then    *)
(* what it counts is what it has been given.                               *)
LEMMA CountStep ==
  ASSUME ~SyncErrors, IInv, IInv', FilesInv, CountInv, WorkGoesOn
  PROVE  CountInv'
<1>1. Counted(pipe) /\ Pending \subseteq disk
  BY DEF CountInv
<1>2. ASSUME pipe.deleted \subseteq pipe'.deleted, NEW others, Spares(pipe, pipe', others),
             disk' = Remaining(disk, pipe'.items), others \subseteq pipe'.deleted
      PROVE  Pending' \subseteq disk'
  <2>1. requested = Pending \cup pipe.deleted
    BY Accounted DEF NoItemForgotten
  <2>2. NoItemForgotten'
    <3>1. IInv' => NoItemForgotten'
      BY Accounted, PTL
    <3> QED BY <3>1
  <2>3. requested' = Pending' \cup pipe'.deleted /\ Pending' \cap pipe'.deleted = {}
    BY <2>2 DEF NoItemForgotten
  <2>4. disk \ disk' \subseteq others
    BY <1>2, SparedFilesStay
  <2>5. requested' = requested
    BY DEF WorkGoesOn, NetworkAnswers, SessionSettles, Progress, ReplyFinished, ReplyError,
         ReplyFinishedAfterError, ConnectionTimeout, SessionOpened, SessionError,
         SessionDisconnected, CancelAll
  <2> QED BY <1>1, <1>2, <2>1, <2>3, <2>4, <2>5
<1>3. ASSUME pipe'.deleted = pipe.deleted, disk' = disk, requested' = requested
      PROVE  Pending' \subseteq disk'
  <2>1. requested = Pending \cup pipe.deleted
    BY Accounted DEF NoItemForgotten
  <2>2. NoItemForgotten'
    <3>1. IInv' => NoItemForgotten'
      BY Accounted, PTL
    <3> QED BY <3>1
  <2> QED BY <1>1, <1>3, <2>1, <2>2 DEF NoItemForgotten
<1>4. ASSUME NEW f \in Files, Progress(f) PROVE CountInv'
  <2>1. pipe'.deleted = pipe.deleted /\ disk' = disk /\ requested' = requested
    BY <1>4, ProgressEffect DEF Progress
  <2> QED BY <1>3, <1>4, <2>1, ProgressCounts DEF CountInv
<1>5. ASSUME NEW f \in Files,
             ReplyFinished(f) \/ ReplyError(f) \/ ReplyFinishedAfterError(f) \/ ConnectionTimeout(f)
      PROVE  CountInv'
  <2> DEFINE old == pipe.items[f]
  <2>1. old \in Item /\ ItemSound(old)
    BY DEF IInv, PipeInv, Sound, Pipe
  <2>2. HasClient(old) /\ (ReplyFinished(f) => old.reply /\ old.wired)
    BY <1>5, <2>1, RequestEnding
       DEF ReplyFinished, ReplyError, ReplyFinishedAfterError, ConnectionTimeout, ItemSound
  <2>3. PICK it \in Item :
          /\ \/ ReplyFinished(f) /\ it = End(old)
             \/ ReplyError(f) /\ it = Fail(old)
             \/ ReplyFinishedAfterError(f) /\ it = End(old)
             \/ ConnectionTimeout(f) /\ it = HttpCancel(old)
          /\ IF old.wired
             THEN pipe.notified /\ f = pipe.current /\ Completes(pipe, pipe', it)
             ELSE pipe'.deleted = pipe.deleted
    BY <1>5, EndOfRequest
  <2>4. pipe' \in ItemBecomes(pipe, f, it, old.wired)
    BY <2>3 DEF ReplyFinished, ReplyError, ReplyFinishedAfterError, ConnectionTimeout
  <2>5. Counted(pipe')
    BY <2>2, <2>4, RequestEndCounts
  <2>6. pipe.deleted \subseteq pipe'.deleted /\ (old.wired => f \in pipe'.deleted)
    BY <2>3 DEF Completes, Outcome
  <2>7. disk' = Remaining(disk, pipe'.items)
    BY <1>5 DEF ReplyFinished, ReplyError, ReplyFinishedAfterError, ConnectionTimeout
  <2>8. Spares(pipe, pipe', IF ReplyFinished(f) THEN {f} ELSE {})
    BY <1>5, EndOfRequestSpares
  <2>9. Pending' \subseteq disk'
    <3>1. (IF ReplyFinished(f) THEN {f} ELSE {}) \subseteq pipe'.deleted
      BY <2>2, <2>6
    <3> QED BY <1>2, <2>6, <2>7, <2>8, <3>1
  <2> QED BY <2>5, <2>9 DEF CountInv
<1>6. CASE SessionError \/ SessionDisconnected
  <2>1. disk' = Remaining(disk, pipe'.items)
    BY <1>6 DEF SessionError, SessionDisconnected
  <2>2. pipe.deleted \subseteq pipe'.deleted
    BY <1>6, SessionLostEvent DEF Completes, Outcome, Still
  <2>3. Spares(pipe, pipe', {})
    <3>1. CASE pipe.notified
      BY <1>6, <3>1, SessionLostEvent, CancelSpares
    <3>2. CASE ~pipe.notified
      BY <1>6, <3>2, SessionLostEvent DEF Spares
    <3> QED BY <3>1, <3>2
  <2>4. Pending' \subseteq disk'
    BY <1>2, <2>1, <2>2, <2>3
  <2> QED BY <1>6, <2>4, SessionLostEventCounts DEF CountInv
<1>7. CASE SessionOpened
  <2>1. pipe'.deleted = pipe.deleted /\ disk' = disk /\ requested' = requested
    BY <1>7, SessionOpenedEffect DEF SessionOpened
  <2> QED BY <1>3, <1>7, <2>1, SessionOpenedCounts DEF CountInv
<1>8. CASE CancelAll
  <2>1. disk' = Remaining(disk, pipe'.items) /\ pipe.deleted \subseteq pipe'.deleted
    BY <1>8, CancelAllEffect DEF CancelAll, Completes, Outcome
  <2>2. /\ pipe \in Pipe /\ pipe.reports = <<>> /\ pipe.current \in Files /\ UnderWay(pipe)
        /\ CancelCompletes(pipe.items[pipe.current]) /\ Owing(pipe)
        /\ pipe' \in CancelCurrent(pipe)
    BY <1>1, <1>8 DEF CancelAll, IInv, PipeInv, Sound, Uploading, Counted
  <2>3. pipe.nbrOfItems > pipe.sent
    BY <2>2, SomethingOwed
  <2>4. Counted(pipe')
    BY <2>2, <2>3, CancelCurrentCounts
  <2>5. Spares(pipe, pipe', {})
    BY <1>8, CancelAllEffect, CancelSpares
  <2>6. Pending' \subseteq disk'
    BY <1>2, <2>1, <2>5
  <2> QED BY <2>4, <2>6 DEF CountInv
<1> QED BY <1>4, <1>5, <1>6, <1>7, <1>8 DEF WorkGoesOn, NetworkAnswers, SessionSettles
=============================================================================
