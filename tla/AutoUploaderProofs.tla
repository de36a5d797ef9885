---------------------------- MODULE AutoUploaderProofs ----------------------------
(***************************************************************************)
(* Proofs about AutoUploader, for any finite number of files and any       *)
(* network.  While a service runs its engine, the invariant of the engine  *)
(* carries over; the rest is about the loop of uploadFiles(), in which the *)
(* engine may finish, and about the count of the files uploaded.           *)
(***************************************************************************)
EXTENDS AutoUploader, UploadEngineProofs, WellFoundedInduction

-----------------------------------------------------------------------------
(* The loop                                                                *)

LEMMA LeastNumber ==
  ASSUME NEW T \in SUBSET Nat, T # {}
  PROVE  \E m \in T : \A k \in T : m <= k
<1> DEFINE R == OpToRel(<, Nat)
<1>1. IsWellFoundedOn(R, Nat)
  BY NatLessThanWellFounded, Zenon
<1>2. \A k, l \in Nat : k < l => <<k, l>> \in R
  BY DEF OpToRel
<1> HIDE DEF R
<1>3. PICK m \in T : \A k \in T : ~ (<<k, m>> \in R)
  BY <1>1, WFMin
<1>4. \A k \in T : ~(k < m)
  BY <1>2, <1>3
<1> QED BY <1>4

(* Induction, for a set of numbers.                                        *)
LEMMA SetInduction ==
  ASSUME NEW S, 0 \in S, \A n \in S \cap Nat : n + 1 \in S
  PROVE  Nat \subseteq S
<1>1. SUFFICES ASSUME Nat \ S # {} PROVE FALSE
  OBVIOUS
<1>2. PICK m \in Nat \ S : \A k \in Nat \ S : m <= k
  BY <1>1, LeastNumber
<1>3. m # 0
  OBVIOUS
<1>4. m - 1 \in S \cap Nat
  BY <1>2, <1>3
<1>5. (m - 1) + 1 = m
  OBVIOUS
<1> QED BY <1>4, <1>5

\* The worlds after the rounds for the first n files.
Rounds(g, w, list, n) ==
  IF n = 0 THEN {w} ELSE UNION {AddFile(x, list[n]) : x \in g[n - 1]}

IsLoop(g, w, list, N) == g = [n \in 0..N |-> Rounds(g, w, list, n)]

LEMMA LoopIsDefined ==
  ASSUME NEW w, NEW list, NEW N \in Nat
  PROVE  \E g : IsLoop(g, w, list, N)
<1> DEFINE S == {k \in Nat : \E g : IsLoop(g, w, list, k)}
<1>1. 0 \in S
  <2> DEFINE g == [n \in 0..0 |-> {w}]
  <2>1. IsLoop(g, w, list, 0)
    BY DEF Rounds, IsLoop
  <2> QED BY <2>1
<1>2. ASSUME NEW k \in S \cap Nat PROVE k + 1 \in S
  <2>1. PICK g : IsLoop(g, w, list, k)
    OBVIOUS
  <2> DEFINE h == [n \in 0..(k + 1) |-> IF n = k + 1 THEN Rounds(g, w, list, n) ELSE g[n]]
  <2>2. \A n \in 0..k : g[n] = Rounds(g, w, list, n)
    BY <2>1 DEF IsLoop
  <2>3. ASSUME NEW n \in 0..(k + 1) PROVE h[n] = Rounds(h, w, list, n)
    <3>1. h[n] = Rounds(g, w, list, n)
      BY <2>2
    <3>2. CASE n = 0
      BY <3>1, <3>2 DEF Rounds
    <3>3. CASE n # 0
      <4>1. n - 1 \in 0..(k + 1) /\ n - 1 # k + 1
        BY <3>3
      <4>2. h[n - 1] = g[n - 1]
        BY <4>1
      <4> HIDE DEF h
      <4> QED BY <3>1, <4>2 DEF Rounds
    <3> QED BY <3>2, <3>3
  <2>4. IsLoop(h, w, list, k + 1)
    <3>1. h = [n \in 0..(k + 1) |-> h[n]]
      OBVIOUS
    <3> HIDE DEF h
    <3> QED BY <2>3, <3>1 DEF IsLoop
  <2> HIDE DEF h
  <2> QED BY <2>4
<1>3. N \in S
  <2> HIDE DEF S
  <2> QED BY <1>1, <1>2, SetInduction
<1> QED BY <1>3

(* What each round leads from W[n - 1] to W[n], the loop leads from W[0]   *)
(* to the last.                                                            *)
LEMMA Loop ==
  ASSUME NEW w, NEW list \in Seq(Files), NEW W, w \in W[0],
         \A n \in 1..Len(list) : \A x \in W[n - 1] : AddFile(x, list[n]) \subseteq W[n]
  PROVE  AddFiles(w, list) \subseteq W[Len(list)]
<1> DEFINE N == Len(list)
           after == CHOOSE g : IsLoop(g, w, list, N)
           S == {k \in Nat : k \in 0..N => after[k] \subseteq W[k]}
<1>1. N \in Nat
  OBVIOUS
<1>2. \E g : IsLoop(g, w, list, N)
  <2> HIDE DEF N
  <2> QED BY <1>1, LoopIsDefined
<1>3. after = [n \in 0..N |-> Rounds(after, w, list, n)]
  BY <1>2 DEF IsLoop
<1>4. AddFiles(w, list) = after[N]
  BY DEF AddFiles, Rounds, IsLoop
<1> HIDE DEF after
<1>5. \A n \in 0..N : after[n] = Rounds(after, w, list, n)
  <2> HIDE DEF N
  <2> QED BY <1>3
<1>6. 0 \in S
  BY <1>1, <1>5 DEF Rounds
<1>7. ASSUME NEW k \in S \cap Nat PROVE k + 1 \in S
  <2> HIDE DEF N
  <2>1. SUFFICES ASSUME k + 1 \in 0..N PROVE after[k + 1] \subseteq W[k + 1]
    OBVIOUS
  <2>2. k \in 0..N /\ k + 1 \in 1..N /\ (k + 1) - 1 = k /\ k + 1 # 0
    BY <1>1, <2>1
  <2>3. after[k] \subseteq W[k]
    BY <2>2
  <2>4. after[k + 1] = UNION {AddFile(x, list[k + 1]) : x \in after[k]}
    BY <1>5, <2>1, <2>2 DEF Rounds
  <2>5. \A x \in W[k] : AddFile(x, list[k + 1]) \subseteq W[k + 1]
    BY <2>2 DEF N
  <2> QED BY <2>3, <2>4, <2>5
<1>8. N \in S
  <2> HIDE DEF S, N
  <2> QED BY <1>1, <1>6, <1>7, SetInduction
<1> HIDE DEF N
<1>9. after[N] \subseteq W[N]
  BY <1>1, <1>8
<1> QED BY <1>4, <1>9 DEF N

(* The same for what each round keeps.                                     *)
LEMMA LoopKeeps ==
  ASSUME NEW w, NEW list \in Seq(Files), NEW V, w \in V,
         \A x \in V : \A f \in Range(list) : AddFile(x, f) \subseteq V
  PROVE  AddFiles(w, list) \subseteq V
<1> DEFINE W == [n \in 0..Len(list) |-> V]
<1>1. Len(list) \in Nat /\ DOMAIN list = 1..Len(list)
  OBVIOUS
<1>2. \A n \in 1..Len(list) : list[n] \in Range(list) /\ W[n - 1] = V /\ W[n] = V
  BY <1>1 DEF Range
<1>3. w \in W[0] /\ W[Len(list)] = V
  BY <1>1
<1> HIDE DEF W
<1>4. AddFiles(w, list) \subseteq W[Len(list)]
  BY <1>2, <1>3, Loop
<1> QED BY <1>3, <1>4

-----------------------------------------------------------------------------
(* Types                                                                   *)

(* A slot of an engine that has been dropped still yields a pipeline; it   *)
(* is of no interest any more what pipeline.                               *)
LEMMA AbandonType ==
  ASSUME NEW e \in Pipe, NEW f \in Files
  PROVE  Abandon(e, f) \in Pipe
<1> DEFINE err == FirstError(e.error, "ProtocolError")
           del == e.deleted \cup Range(e.queue)
           a == [e EXCEPT !.error = err]
           c == Clear(a)
           d == [c EXCEPT !.deleted = @ \cup {f}, !.notified = FALSE]
<1>1. err \in ErrorType
  BY FirstErrorType DEF Pipe, ErrorType
<1>2. e.queue \in Seq(Files) /\ e.deleted \subseteq Files
  BY DEF Pipe
<1>3. Range(e.queue) \subseteq Files
  BY QueueFiles
<1> HIDE DEF err
<1>4. a \in Pipe /\ a.queue = e.queue /\ a.deleted = e.deleted
  BY <1>1 DEF Pipe
<1> HIDE DEF a
<1>5. c = [a EXCEPT !.queue = <<>>, !.deleted = del]
  BY <1>4 DEF Clear, Pipe
<1>6. del \subseteq Files
  BY <1>2, <1>3
<1> HIDE DEF c, del
<1>7. <<>> \in Seq(Files)
  OBVIOUS
<1>8. c \in Pipe
  BY <1>4, <1>5, <1>6, <1>7 DEF Pipe
<1>9. d \in Pipe
  BY <1>8 DEF Pipe
<1>10. Abandon(e, f) = QueueDone(d)
  BY DEF Abandon, LastItemFinished, a, c, err
<1> HIDE DEF d
<1> QED BY <1>9, <1>10, QueueDoneResult

LEMMA UploadNextType ==
  ASSUME NEW e \in Pipe, e.queue # <<>>, NEW r \in UploadNext(e)
  PROVE  r \in Pipe
<1> DEFINE f == Head(e.queue)
           taken == [e EXCEPT !.queue = Tail(@), !.current = f]
           it == StartUpload(e.items[f], f \in disk)
           cc == Cancel(e.items[f])
           err == FirstError(e.error, "ConnectionNotAvailable")
<1>1. e.queue \in Seq(Files) /\ f \in Files /\ Tail(e.queue) \in Seq(Files)
  BY DEF Pipe
<1>2. taken \in Pipe /\ taken.items = e.items /\ taken.error = e.error
  BY <1>1 DEF Pipe
<1>3. e.items[f] \in Item
  BY <1>1 DEF Pipe
<1>4. it \in Item
  BY <1>3, StartHandler
<1>5. cc \in Item
  BY <1>3, CancelType
<1>6. err \in ErrorType
  BY FirstErrorType DEF Pipe, ErrorType
<1>7. e.session \in SessionState
  BY DEF Pipe
<1>8. PICK o \in OpenOutcomes(e.session) :
        r = CASE o.result = "ready" ->
                   [taken EXCEPT !.session = o.session, !.state = "Connected",
                                 !.items[f] = StartUpload(@, f \in disk)]
              [] o.result = "pending" ->
                   [taken EXCEPT !.session = o.session, !.state = "Connecting"]
              [] o.result = "failed" ->
                   Abandon([taken EXCEPT
                              !.session = o.session, !.state = "NoConnection",
                              !.error = FirstError(@, "ConnectionNotAvailable"),
                              !.items[f] = Cancel(@)], f)
  BY DEF UploadNext
<1>9. o.result \in {"ready", "pending", "failed"} /\ o.session \in SessionState
  BY <1>7, OpenOutcomesType
<1> HIDE DEF f, taken
<1>10. CASE o.result = "ready"
  <2>1. r = [taken EXCEPT !.session = o.session, !.state = "Connected", !.items[f] = it]
    BY <1>1, <1>2, <1>8, <1>10 DEF Pipe
  <2> HIDE DEF it
  <2> QED BY <1>1, <1>2, <1>4, <1>9, <2>1 DEF Pipe, EngineState
<1>11. CASE o.result = "pending"
  <2>1. r = [taken EXCEPT !.session = o.session, !.state = "Connecting"]
    BY <1>8, <1>11
  <2> QED BY <1>2, <1>9, <2>1 DEF Pipe, EngineState
<1>12. CASE o.result = "failed"
  <2> DEFINE x == [taken EXCEPT !.session = o.session, !.state = "NoConnection",
                                !.error = err, !.items[f] = cc]
  <2>1. r = Abandon(x, f)
    BY <1>1, <1>2, <1>8, <1>12 DEF Pipe
  <2> HIDE DEF err, cc
  <2>2. x \in Pipe
    BY <1>1, <1>2, <1>5, <1>6, <1>9 DEF Pipe, EngineState
  <2> HIDE DEF x
  <2> QED BY <1>1, <2>1, <2>2, AbandonType
<1> QED BY <1>9, <1>10, <1>11, <1>12

LEMMA EnqueueItemType ==
  ASSUME NEW p \in Pipe, NEW f \in Files, NEW r \in EnqueueItem(p, f)
  PROVE  r \in Pipe
<1> DEFINE q == Append(p.queue, f)
           e == [p EXCEPT !.queue = q]
           d == [e EXCEPT !.nbrOfItems = 0, !.notified = TRUE]
<1>1. PICK t : /\ IF e.notified THEN t = e ELSE t \in UploadNext(d)
               /\ r = [t EXCEPT !.nbrOfItems = @ + 1]
  <2>1. e.notified = p.notified
    BY DEF Pipe
  <2> QED BY <2>1 DEF EnqueueItem
<1>2. p.queue \in Seq(Files)
  BY DEF Pipe
<1>3. q \in Seq(Files) /\ q # <<>>
  BY <1>2
<1> HIDE DEF q
<1>4. e \in Pipe /\ e.queue = q
  BY <1>3 DEF Pipe
<1> HIDE DEF e
<1>5. d \in Pipe /\ d.queue = q
  BY <1>4 DEF Pipe
<1> HIDE DEF d
<1>6. t \in Pipe
  BY <1>1, <1>3, <1>4, <1>5, UploadNextType
<1> DEFINE n == t.nbrOfItems + 1
<1>7. n \in Nat
  BY <1>6 DEF Pipe
<1>8. r = [t EXCEPT !.nbrOfItems = n]
  BY <1>1
<1> HIDE DEF n
<1> QED BY <1>6, <1>7, <1>8 DEF Pipe

LEMMA LastOf ==
  ASSUME NEW S, NEW q \in Seq(S), q # <<>>
  PROVE  Last(q) \in S /\ Len(q) \in Nat \ {0} /\ Last(q) = q[Len(q)]
BY DEF Last

(* The engine reports, and the service is done.                            *)
LEMMA EngineFinishedType ==
  ASSUME NEW s \in Service, NEW r \in Report
  PROVE  LET t == EngineFinished(s, r)
         IN  t \in Service /\ t.exiting /\ ~t.engine /\ ~t.activated /\ t.quitTimer = s.quitTimer
<1>1. r.sent \in Nat /\ r.total \in Nat
  BY DEF Report
<1> DEFINE bad == IF r.total > r.sent THEN r.total - r.sent ELSE 0
           good == IF r.sent > 0 THEN r.sent + s.uploadSuccessCount ELSE s.success
           cnt == IF r.sent > 0 THEN r.sent + s.uploadSuccessCount ELSE 0
<1>2. bad \in Nat /\ good \in Nat /\ cnt \in Nat
  BY <1>1 DEF Service
<1>3. Notify(s, r) = [s EXCEPT !.progress = FALSE, !.failed = bad, !.success = good,
                               !.uploadSuccessCount = cnt]
  BY DEF Notify, Service
<1> HIDE DEF bad, good, cnt
<1> DEFINE n == Notify(s, r)
<1>4. n \in Service /\ n.quitTimer = s.quitTimer
  BY <1>2, <1>3 DEF Service
<1> HIDE DEF n
<1>5. Saved(n) \in Service /\ Saved(n).quitTimer = s.quitTimer
  BY <1>4 DEF Saved, Service
<1>6. CASE Notifications
  <2>1. EngineFinished(s, r) = [Saved(n) EXCEPT !.activated = FALSE, !.engine = FALSE, !.exiting = TRUE]
    BY <1>6 DEF EngineFinished, n
  <2> QED BY <1>5, <2>1 DEF Service
<1>7. CASE ~Notifications
  <2>1. EngineFinished(s, r) = [s EXCEPT !.activated = FALSE, !.engine = FALSE, !.exiting = TRUE]
    BY <1>7 DEF EngineFinished
  <2> QED BY <2>1 DEF Service
<1> QED BY <1>6, <1>7

LEMMA HearType ==
  ASSUME NEW s \in Service, NEW before \in Pipe, NEW after \in Pipe
  PROVE  LET t == Hear(s, before, after)
         IN  /\ t \in Service
             /\ t # s => t.exiting /\ ~t.engine
             /\ before.reports = <<>> /\ after.reports = <<>> => t = s
             /\ s.engine /\ before.reports = <<>> /\ after.reports # <<>> => t.exiting /\ ~t.engine
<1>1. before.reports \in Seq(Report) /\ after.reports \in Seq(Report)
  BY DEF Pipe
<1>2. Len(before.reports) \in Nat /\ Len(after.reports) \in Nat
  BY <1>1
<1>3. CASE s.engine /\ Len(after.reports) > Len(before.reports)
  <2>1. after.reports # <<>>
    BY <1>2, <1>3
  <2>2. Last(after.reports) \in Report
    BY <1>1, <2>1, LastOf
  <2>3. Hear(s, before, after) = EngineFinished(s, Last(after.reports))
    BY <1>3 DEF Hear
  <2> QED BY <2>1, <2>2, <2>3, EngineFinishedType
<1>4. CASE ~(s.engine /\ Len(after.reports) > Len(before.reports))
  <2>1. Hear(s, before, after) = s
    BY <1>4 DEF Hear
  <2>2. before.reports = <<>> /\ after.reports # <<>> => Len(after.reports) > Len(before.reports)
    BY <1>1, <1>2
  <2> QED BY <1>4, <2>1, <2>2
<1> QED BY <1>3, <1>4

-----------------------------------------------------------------------------
(* The service at work                                                     *)

(* A service that has not been told to quit holds its engine, and one      *)
(* engine only: what has been requested is its batch, and nothing has been *)
(* reported yet.  One that has been told to has dropped it.                *)
AtWork(pip, svc, added) ==
  /\ PipeInv(pip)
  /\ added = Tracked(pip)
  /\ \A f \in Files \ added : Untouched(pip.items[f])
  /\ pip.reports = <<>>
  /\ svc.engine <=> svc.activated
  /\ added # {} => svc.activated
  /\ ~pip.notified => pip = NewPipe

ServiceInv ==
  /\ TypeOK
  /\ service \in Service
  /\ wanted \subseteq requested
  /\ service.exiting => ~service.engine
  /\ ~service.exiting => AtWork(pipe, service, requested) /\ batch = requested

LEMMA WorkIsSound == ServiceInv /\ ~service.exiting => IInv
BY DEF ServiceInv, AtWork, IInv, TypeOK

LEMMA NotifiedIsActive ==
  ASSUME ServiceInv, ~service.exiting
  PROVE  /\ pipe.notified => service.activated /\ service.engine
         /\ ~pipe.notified => pipe = NewPipe /\ requested = {}
<1>1. AtWork(pipe, service, requested)
  BY DEF ServiceInv
<1>2. ASSUME pipe.notified PROVE requested # {}
  BY <1>1, <1>2 DEF AtWork, Tracked
<1>3. ~pipe.notified => pipe = NewPipe /\ requested = {}
  BY <1>1, NewPipeSound DEF AtWork
<1>4. service.engine <=> service.activated
  BY <1>1 DEF AtWork
<1> QED BY <1>1, <1>2, <1>3, <1>4 DEF AtWork

(* The loop: what it leads through.                                        *)
World == [pipe : Pipe, service : Service, added : SUBSET Files]

LoopWorlds ==
  {x \in World :
     /\ requested \subseteq x.added
     /\ x.service.exiting => ~x.service.engine
     /\ ~x.service.exiting => x.service.engine /\ AtWork(x.pipe, x.service, x.added)}

LEMMA RoundKeeps ==
  ASSUME NEW x \in LoopWorlds, NEW f \in Files
  PROVE  AddFile(x, f) \subseteq {y \in LoopWorlds : f \in y.added /\ x.added \subseteq y.added}
<1>1. x.pipe \in Pipe /\ x.service \in Service /\ x.added \subseteq Files
  BY DEF LoopWorlds, World
<1>2. CASE f \in x.added
  BY <1>2 DEF AddFile
<1>3. CASE f \notin x.added
  <2>1. SUFFICES ASSUME NEW e \in EnqueueItem(x.pipe, f)
                 PROVE  [pipe |-> e, service |-> Hear(x.service, x.pipe, e), added |-> x.added \cup {f}]
                          \in LoopWorlds
    BY <1>3 DEF AddFile
  <2> DEFINE s == Hear(x.service, x.pipe, e)
             y == [pipe |-> e, service |-> s, added |-> x.added \cup {f}]
  <2>2. e \in Pipe
    BY <1>1, EnqueueItemType
  <2>3. /\ s \in Service
        /\ s # x.service => s.exiting /\ ~s.engine
        /\ x.pipe.reports = <<>> /\ e.reports = <<>> => s = x.service
        /\ x.service.engine /\ x.pipe.reports = <<>> /\ e.reports # <<>> => s.exiting /\ ~s.engine
    BY <1>1, <2>2, HearType
  <2>0. SUFFICES y \in LoopWorlds
    OBVIOUS
  <2> HIDE DEF s
  <2>4. /\ y \in World /\ requested \subseteq y.added
        /\ y.pipe = e /\ y.service = s /\ y.added = x.added \cup {f}
    BY <1>1, <2>2, <2>3 DEF World, LoopWorlds
  <2> HIDE DEF y
  <2>5. CASE x.service.exiting
    <3>1. s.exiting /\ ~s.engine
      BY <2>3, <2>5 DEF LoopWorlds
    <3> QED BY <2>4, <3>1 DEF LoopWorlds
  <2>6. CASE ~x.service.exiting
    <3>1. x.service.engine /\ AtWork(x.pipe, x.service, x.added)
      BY <2>6 DEF LoopWorlds
    <3>2. Enlists(x.pipe, f)
      BY <1>3, <3>1 DEF Enlists, AtWork
    <3>3. MovesTo(x.pipe, e, Tracked(x.pipe) \cup {f})
      BY <3>2, EnqueueItemSound
    <3>4. ~e.notified => e.reports # <<>>
      BY <3>2, EnqueueItemEffect
    <3>5. CASE e.reports # <<>>
      <4>1. s.exiting /\ ~s.engine
        BY <2>3, <3>1, <3>5 DEF AtWork
      <4> QED BY <2>4, <4>1 DEF LoopWorlds
    <3>6. CASE e.reports = <<>>
      <4>1. s = x.service
        BY <2>3, <3>1, <3>6 DEF AtWork
      <4>2. AtWork(e, s, x.added \cup {f})
        BY <3>1, <3>3, <3>4, <3>6, <4>1 DEF AtWork, MovesTo
      <4> QED BY <2>4, <2>6, <3>1, <4>1, <4>2 DEF LoopWorlds
    <3> QED BY <3>5, <3>6
  <2> QED BY <2>5, <2>6
<1> QED BY <1>2, <1>3

LEMMA LoopAdds ==
  ASSUME NEW x \in LoopWorlds, NEW list \in Seq(Files), NEW w \in AddFiles(x, list)
  PROVE  w \in LoopWorlds /\ Range(list) \subseteq w.added
<1> DEFINE W == [n \in 0..Len(list) |-> {y \in LoopWorlds : \A m \in 1..n : list[m] \in y.added}]
<1>1. Len(list) \in Nat /\ DOMAIN list = 1..Len(list)
  OBVIOUS
<1>2. x \in W[0]
  BY <1>1
<1>3. ASSUME NEW n \in 1..Len(list), NEW y \in W[n - 1] PROVE AddFile(y, list[n]) \subseteq W[n]
  <2>1. n - 1 \in 0..Len(list) /\ n \in 0..Len(list) /\ \A m \in 1..n : m \in 1..(n - 1) \/ m = n
    BY <1>1
  <2>2. y \in LoopWorlds /\ \A m \in 1..(n - 1) : list[m] \in y.added
    BY <2>1
  <2>3. list[n] \in Files
    BY <1>1
  <2>4. AddFile(y, list[n]) \subseteq {z \in LoopWorlds : list[n] \in z.added /\ y.added \subseteq z.added}
    BY <2>2, <2>3, RoundKeeps
  <2>5. \A z \in AddFile(y, list[n]) : z \in LoopWorlds /\ \A m \in 1..n : list[m] \in z.added
    BY <2>1, <2>2, <2>4
  <2> QED BY <2>1, <2>5
<1>4. W[Len(list)] = {y \in LoopWorlds : \A m \in 1..Len(list) : list[m] \in y.added}
  BY <1>1
<1> HIDE DEF W
<1>5. AddFiles(x, list) \subseteq W[Len(list)]
  BY <1>2, <1>3, Loop
<1> QED BY <1>1, <1>4, <1>5 DEF Range

\* What the daemon or the user may ask for.
LEMMA ListsAreOfFiles ==
  ASSUME IsFiniteSet(Files), disk \subseteq Files, NEW list \in Lists
  PROVE  list \in Seq(Files) /\ Range(list) \subseteq disk /\ ToSet(list) = Range(list)
<1>1. Cardinality(disk) \in Nat
  BY FS_Subset, FS_CardinalityType
<1>2. list \in Seq(disk)
  <2>1. CASE list \in SetToSeqs(disk)
    <3>1. list \in [1..Cardinality(disk) -> disk]
      BY <2>1 DEF SetToSeqs
    <3> QED BY <1>1, <3>1
  <2>2. ASSUME NEW f \in disk, list = <<f>> PROVE list \in Seq(disk)
    BY <2>2
  <2> QED BY <2>1, <2>2 DEF Lists
<1>3. list \in Seq(Files)
  BY <1>2
<1>4. DOMAIN list = 1..Len(list) /\ \A n \in 1..Len(list) : list[n] \in disk
  BY <1>2
<1> QED BY <1>3, <1>4 DEF Range, ToSet

LEMMA ServiceInitInv == ServiceInit => ServiceInv
<1> SUFFICES ASSUME ServiceInit PROVE ServiceInv
  OBVIOUS
<1>1. Init /\ pipe = NewPipe /\ requested = {} /\ batch = {} /\ wanted = {}
  BY DEF ServiceInit, Init
<1>2. TypeOK
  BY <1>1, InitInv, NewPipeSound DEF IInv, PipeInv, Sound, TypeOK
<1>3. service \in Service /\ ~service.exiting /\ ~service.engine /\ ~service.activated
  BY DEF ServiceInit, Service
<1>4. NewPipe.reports = <<>>
  BY DEF NewPipe
<1> QED BY <1>1, <1>2, <1>3, <1>4, NewPipeSound DEF ServiceInv, AtWork

(* A request finds the pipeline as it is: a service that is not active has *)
(* not done anything yet.                                                  *)
LEMMA ActivatedWorld ==
  ASSUME ServiceInv, ~service.exiting
  PROVE  /\ Activated.pipe = pipe /\ Activated.added = requested
         /\ Activated.service = [service EXCEPT !.activated = TRUE, !.engine = TRUE]
         /\ Activated \in LoopWorlds
         /\ (IF service.activated THEN batch ELSE {}) = requested
<1> DEFINE s == [service EXCEPT !.activated = TRUE, !.engine = TRUE]
<1>1. /\ AtWork(pipe, service, requested) /\ batch = requested /\ pipe \in Pipe
      /\ service \in Service /\ requested \subseteq Files
  BY DEF ServiceInv, TypeOK
<1>2. NewPipe \in Pipe
  BY NewPipeSound DEF PipeInv, Sound
<1>3. ~service.activated => requested = {} /\ pipe = NewPipe
  BY <1>1, NotifiedIsActive DEF AtWork
<1>4. FreshEngine(NewPipe) = NewPipe
  <2> DEFINE e == NewPipe
  <2>1. /\ e.current = NoItem /\ e.state = "NoConnection" /\ e.error = "NoError"
        /\ e.sent = 0 /\ e.session = "none" /\ e.reports = <<>>
    BY DEF NewPipe
  <2>2. e \in Pipe
    BY <1>2
  <2> HIDE DEF e
  <2>3. FreshEngine(e) = e
    BY <2>1, <2>2 DEF FreshEngine, Pipe
  <2> QED BY <2>3 DEF e
<1>5. /\ Activated.pipe = pipe /\ Activated.added = requested /\ Activated.service = s
      /\ Activated = [pipe |-> pipe, service |-> s, added |-> requested]
  BY <1>3, <1>4 DEF Activated
<1>6. s \in Service /\ s.engine /\ s.activated /\ (s.exiting <=> service.exiting)
  BY <1>1 DEF Service
<1>7. AtWork(pipe, s, requested)
  BY <1>1, <1>6 DEF AtWork
<1>8. Activated \in World
  BY <1>1, <1>5, <1>6 DEF World
<1>9. Activated \in LoopWorlds
  <2> HIDE DEF s
  <2> QED BY <1>5, <1>6, <1>7, <1>8 DEF LoopWorlds
<1> QED BY <1>1, <1>3, <1>5, <1>9

LEMMA UploadFilesStep ==
  ASSUME IsFiniteSet(Files), ServiceInv, NEW list \in Lists, NEW obey \in BOOLEAN, UploadFiles(list, obey)
  PROVE  ServiceInv'
<1>1. ~service.exiting /\ disk \subseteq Files /\ wanted \subseteq requested
  BY DEF UploadFiles, ServiceInv, TypeOK
<1>2. PICK w \in AddFiles(Activated, list) :
         /\ pipe' = w.pipe /\ requested' = w.added
         /\ batch' = (IF service.activated THEN batch ELSE {}) \cup (w.added \ requested)
         /\ service' = [w.service EXCEPT !.progress = @ \/ Notifications]
  BY DEF UploadFiles
<1>3. list \in Seq(Files) /\ ToSet(list) = Range(list)
  BY <1>1, ListsAreOfFiles
<1>4. w \in LoopWorlds /\ Range(list) \subseteq w.added
  BY <1>1, <1>2, <1>3, ActivatedWorld, LoopAdds
<1>5. /\ w.pipe \in Pipe /\ w.service \in Service /\ w.added \subseteq Files
      /\ requested \subseteq w.added
  BY <1>4 DEF LoopWorlds, World
<1>6. batch' = w.added
  BY <1>1, <1>2, <1>5, ActivatedWorld
<1>7. wanted' \subseteq requested'
  BY <1>1, <1>2, <1>3, <1>4, <1>5 DEF UploadFiles
<1>8. /\ service' \in Service
      /\ service'.exiting <=> w.service.exiting
      /\ service'.engine <=> w.service.engine
      /\ service'.activated <=> w.service.activated
  <2> DEFINE p == w.service.progress \/ Notifications
  <2>1. p \in BOOLEAN
    BY NotificationsAssumption
  <2>2. service' = [w.service EXCEPT !.progress = p]
    BY <1>2
  <2> HIDE DEF p
  <2> QED BY <1>5, <2>1, <2>2 DEF Service
<1>9. TypeOK'
  BY <1>1, <1>2, <1>5, <1>6 DEF TypeOK, UploadFiles, ServiceInv
<1>10. service'.exiting => ~service'.engine
  BY <1>4, <1>8 DEF LoopWorlds
<1>11. ASSUME ~service'.exiting PROVE AtWork(pipe', service', requested')
  <2>1. AtWork(w.pipe, w.service, w.added)
    BY <1>4, <1>8, <1>11 DEF LoopWorlds
  <2> QED BY <1>2, <1>8, <2>1 DEF AtWork
<1> QED BY <1>2, <1>6, <1>7, <1>8, <1>9, <1>10, <1>11 DEF ServiceInv

LEMMA RefuseUploadStep ==
  ASSUME ServiceInv, RefuseUpload
  PROVE  ServiceInv'
<1> DEFINE s == [service EXCEPT !.activated = TRUE, !.engine = TRUE]
<1>1. /\ ~service.exiting /\ AtWork(pipe, service, requested) /\ service \in Service
  BY DEF RefuseUpload, ServiceInv
<1>2. /\ pipe' = pipe /\ service' = [s EXCEPT !.quitTimer = TRUE] /\ batch' = requested
      /\ UNCHANGED <<disk, answered, requested, wanted>>
  BY <1>1, ActivatedWorld DEF RefuseUpload
<1>3. service' \in Service /\ service'.engine /\ service'.activated /\ ~service'.exiting
  BY <1>1, <1>2 DEF Service
<1>4. AtWork(pipe', service', requested')
  BY <1>1, <1>2, <1>3 DEF AtWork
<1> QED BY <1>2, <1>3, <1>4 DEF ServiceInv, TypeOK

(* quit() cancels nothing or what the engine could be told to cancel.      *)
LEMMA QuitIsCancelAll ==
  ASSUME ServiceInv, Quit
  PROVE  IInv /\ IInv' /\ [CancelAll]_vars /\ (pipe.notified => CancelAll)
<1>1. ~service.exiting /\ IInv
  BY WorkIsSound DEF Quit
<1>2. NoItem \notin Files
  BY EngineAssumption
<1>3. CASE pipe.notified
  <2>1. pipe.current \in Files
    BY <1>1, <1>3 DEF IInv, PipeInv, Uploading
  <2>2. service.activated /\ pipe.current # NoItem
    BY <1>1, <1>2, <1>3, <2>1, NotifiedIsActive
  <2>3. CancelAll
    BY <1>3, <2>2 DEF Quit, CancelAll
  <2> QED BY <1>1, <2>3, CancelAllStep
<1>4. CASE ~pipe.notified
  <2>1. pipe.current = NoItem
    BY <1>1, <1>4, NotifiedIsActive DEF NewPipe
  <2>2. UNCHANGED vars
    <3>1. pipe' = pipe /\ UNCHANGED <<answered, requested, batch>>
      BY <2>1 DEF Quit
    <3>2. \A f \in Files : ~pipe.items[f].removed
      BY <1>1, <1>4, NotifiedIsActive DEF NewPipe, NewItem
    <3>3. disk' = disk
      BY <1>1, <3>1, <3>2 DEF Quit, Remaining, IInv
    <3> QED BY <3>1, <3>3 DEF vars
  <2> QED BY <1>1, <1>4, <2>2, NextInv
<1> QED BY <1>3, <1>4

LEMMA QuitStep ==
  ASSUME ServiceInv, Quit
  PROVE  ServiceInv'
<1> DEFINE s == [service EXCEPT !.activated = FALSE]
           t == Hear(s, pipe, pipe')
<1>1. IInv /\ IInv'
  BY QuitIsCancelAll
<1>2. pipe \in Pipe /\ pipe' \in Pipe
  BY <1>1 DEF IInv, PipeInv, Sound
<1>3. service \in Service /\ s \in Service
  BY DEF ServiceInv, Service
<1>4. t \in Service
  BY <1>2, <1>3, HearType
<1>5. service' = [t EXCEPT !.engine = FALSE, !.quitTimer = FALSE, !.exiting = TRUE]
      /\ UNCHANGED <<requested, batch, wanted>>
      /\ disk' = Remaining(disk, pipe'.items) /\ answered' = answered
  BY DEF Quit
<1> HIDE DEF t
<1>6. service' \in Service /\ service'.exiting /\ ~service'.engine
  BY <1>4, <1>5 DEF Service
<1>7. disk' \subseteq Files
  BY <1>5 DEF Remaining, ServiceInv, TypeOK
<1> QED BY <1>2, <1>5, <1>6, <1>7 DEF ServiceInv, TypeOK

LEMMA ExitStep ==
  ASSUME ServiceInv, Exit
  PROVE  ServiceInv'
<1>1. /\ pipe' = NewPipe /\ requested' = {} /\ batch' = {} /\ wanted' = {}
      /\ service' = NewService /\ UNCHANGED <<disk, answered>>
  BY DEF Exit
<1>2. service' \in Service /\ ~service'.exiting /\ ~service'.engine /\ ~service'.activated
  <2>1. service \in Service
    BY DEF ServiceInv
  <2> QED BY <1>1, <2>1 DEF NewService, Service
<1>3. NewPipe \in Pipe /\ NewPipe.reports = <<>>
  BY NewPipeSound DEF PipeInv, Sound, NewPipe
<1>4. TypeOK'
  BY <1>1, <1>3 DEF TypeOK, ServiceInv
<1> QED BY <1>1, <1>2, <1>3, <1>4, NewPipeSound DEF ServiceInv, AtWork

LEMMA DaemonStartedStep ==
  ASSUME ServiceInv, DaemonStarted
  PROVE  ServiceInv'
<1> DEFINE n == IF Running THEN service.uploadSuccessCount ELSE 0
<1>1. service \in Service /\ UNCHANGED <<vars, wanted>>
  BY DEF ServiceInv, DaemonStarted
<1>2. n \in Nat
  BY <1>1 DEF Service
<1>3. service' = [service EXCEPT !.savedCount = 0, !.uploadSuccessCount = n]
  BY DEF DaemonStarted
<1> HIDE DEF n
<1>4. /\ service' \in Service
      /\ service'.exiting <=> service.exiting
      /\ service'.engine <=> service.engine
      /\ service'.activated <=> service.activated
  BY <1>1, <1>2, <1>3 DEF Service
<1> QED BY <1>1, <1>4 DEF ServiceInv, TypeOK, AtWork, vars

-----------------------------------------------------------------------------
(* What happens to the engine meanwhile                                    *)

LEMMA EventIsStep == EngineEvent => Next /\ UNCHANGED <<requested, batch>>
BY DEF EngineEvent, Next, NetworkAnswers, SessionSettles, SessionOpened, SessionError,
       SessionDisconnected, FileVanishes, Progress, ReplyFinished, ReplyError,
       ReplyFinishedAfterError, ConnectionTimeout

(* Nothing happens to an engine without an item; one with an item goes on  *)
(* with it, or with the next, or reports.                                  *)
LEMMA EventEffect ==
  ASSUME ServiceInv, EngineEvent
  PROVE  /\ ~pipe.notified => pipe' = pipe
         /\ pipe.notified => pipe'.notified \/ pipe'.reports # <<>>
<1>1. ~service.exiting /\ IInv
  BY WorkIsSound DEF EngineEvent
<1>2. ASSUME ~pipe.notified PROVE pipe' = pipe
  <2>1. pipe = NewPipe /\ pipe.session = "none" /\ \A f \in Files : pipe.items[f] = NewItem
    BY <1>1, <1>2, NotifiedIsActive, NewPipeSound DEF NewPipe
  <2>2. ~SessionSettles
    BY <2>1 DEF SessionSettles, SessionOpened, SessionError, SessionDisconnected
  <2>3. \A f \in Files : pipe.items[f].request = "none" /\ ~pipe.items[f].timer
    BY <2>1 DEF NewItem
  <2>4. PICK f \in Files : \/ FileVanishes(f) \/ Progress(f) \/ NetworkAnswers(f)
                           \/ ReplyFinishedAfterError(f) \/ ConnectionTimeout(f)
    BY <2>2 DEF EngineEvent
  <2> QED BY <2>3, <2>4 DEF FileVanishes, Progress, NetworkAnswers, ReplyFinished,
             ReplyError, ReplyFinishedAfterError, ConnectionTimeout
<1>3. ASSUME pipe.notified PROVE pipe'.notified \/ pipe'.reports # <<>>
  <2>2. pipe \in Pipe
    BY <1>1 DEF IInv, PipeInv, Sound
  <2>1. ASSUME NEW it, Completes(pipe, pipe', it) PROVE pipe'.notified \/ pipe'.reports # <<>>
    <3>1. Len(pipe.reports) \in Nat
      BY <2>2 DEF Pipe
    <3>2. pipe'.notified \/ Len(pipe'.reports) = Len(pipe.reports) + 1
      BY <2>1 DEF Completes, Outcome
    <3> QED BY <3>1, <3>2
  <2>3. CASE SessionSettles
    <3>1. CASE SessionOpened
      <4> DEFINE e == [pipe EXCEPT !.session = "open"]
      <4>1. e.notified
        BY <1>3, <2>2 DEF Pipe
      <4>2. e \in Pipe
        BY <2>2 DEF Pipe, SessionState
      <4>3. pipe' = IF e.state = "Connecting"
                    THEN [e EXCEPT !.state = "Connected",
                                   !.items[e.current] = StartUpload(@, e.current \in disk)]
                    ELSE e
        BY <3>1 DEF SessionOpened
      <4> HIDE DEF e
      <4>4. pipe'.notified
        BY <4>1, <4>2, <4>3 DEF Pipe
      <4> QED BY <4>4
    <3>2. CASE SessionError \/ SessionDisconnected
      BY <1>1, <1>3, <2>1, <3>2, SessionLostEvent
    <3> QED BY <2>3, <3>1, <3>2 DEF SessionSettles
  <2>4. ASSUME NEW f \in Files, FileVanishes(f) PROVE pipe'.notified
    BY <1>3, <2>4 DEF FileVanishes
  <2>5. ASSUME NEW f \in Files, Progress(f) PROVE pipe'.notified
    BY <1>3, <2>2, <2>5 DEF Progress, Pipe
  <2>6. ASSUME NEW f \in Files,
               ReplyFinished(f) \/ ReplyError(f) \/ ReplyFinishedAfterError(f) \/ ConnectionTimeout(f)
        PROVE  pipe'.notified \/ pipe'.reports # <<>>
    <3>1. CASE pipe.items[f].wired
      BY <1>1, <2>1, <2>6, <3>1, EndOfRequest
    <3>2. CASE ~pipe.items[f].wired
      <4>1. PICK it : pipe' \in ItemBecomes(pipe, f, it, pipe.items[f].wired)
        BY <2>6 DEF ReplyFinished, ReplyError, ReplyFinishedAfterError, ConnectionTimeout
      <4>2. pipe' = [pipe EXCEPT !.items[f] = it]
        BY <3>2, <4>1 DEF ItemBecomes
      <4>3. pipe'.notified
        BY <1>3, <2>2, <4>2 DEF Pipe
      <4> QED BY <4>3
    <3> QED BY <3>1, <3>2
  <2> QED BY <2>3, <2>4, <2>5, <2>6 DEF EngineEvent, NetworkAnswers
<1> QED BY <1>2, <1>3

LEMMA EngineEventStep ==
  ASSUME ServiceInv, EngineEvent
  PROVE  ServiceInv'
<1>1. /\ ~service.exiting /\ IInv /\ AtWork(pipe, service, requested) /\ service \in Service
      /\ batch = requested /\ wanted \subseteq requested
  BY WorkIsSound DEF EngineEvent, ServiceInv
<1>2. IInv' /\ UNCHANGED <<requested, batch, wanted>>
  BY <1>1, EventIsStep, NextInv DEF EngineEvent
<1>3. pipe \in Pipe /\ pipe' \in Pipe
  BY <1>1, <1>2 DEF IInv, PipeInv, Sound
<1>4. service' = Hear(service, pipe, pipe')
  BY DEF EngineEvent
<1>5. TypeOK' /\ wanted' \subseteq requested'
  BY <1>1, <1>2, <1>3 DEF IInv, TypeOK
<1>6. CASE pipe'.reports = <<>>
  <2>1. service' = service
    BY <1>1, <1>3, <1>4, <1>6, HearType DEF AtWork
  <2>2. ~pipe'.notified => pipe' = NewPipe
    BY <1>1, <1>6, EventEffect DEF AtWork
  <2>3. AtWork(pipe', service', requested')
    BY <1>1, <1>2, <1>6, <2>1, <2>2 DEF AtWork, IInv
  <2> QED BY <1>1, <1>2, <1>5, <2>1, <2>3 DEF ServiceInv
<1>7. CASE pipe'.reports # <<>>
  <2>1. pipe.notified
    BY <1>1, <1>7, EventEffect DEF AtWork
  <2>2. service.engine
    BY <1>1, <2>1, NotifiedIsActive
  <2>3. service' \in Service /\ service'.exiting /\ ~service'.engine
    BY <1>1, <1>3, <1>4, <1>7, <2>2, HearType DEF AtWork
  <2> QED BY <1>5, <2>3 DEF ServiceInv
<1> QED BY <1>6, <1>7

LEMMA ServiceNextInv ==
  ASSUME IsFiniteSet(Files)
  PROVE  ServiceInv /\ [ServiceNext]_allVars => ServiceInv'
<1> SUFFICES ASSUME ServiceInv, [ServiceNext]_allVars PROVE ServiceInv'
  OBVIOUS
<1>1. CASE UNCHANGED allVars
  BY <1>1 DEF allVars, vars, ServiceInv, TypeOK, AtWork
<1> QED BY <1>1, UploadFilesStep, RefuseUploadStep, QuitStep, ExitStep, DaemonStartedStep,
           EngineEventStep DEF ServiceNext

THEOREM ServiceInvariance ==
  ASSUME IsFiniteSet(Files)
  PROVE  ServiceSpec => []ServiceInv
<1>1. ServiceInv /\ [ServiceNext]_allVars => ServiceInv'
  BY ServiceNextInv
<1> QED BY <1>1, ServiceInitInv, PTL DEF ServiceSpec

(* Type correctness of the service, process after process: whatever the    *)
(* engine does within the loop of uploadFiles().                           *)
THEOREM ServiceTypeCorrect ==
  ASSUME IsFiniteSet(Files)
  PROVE  ServiceSpec => []ServiceTypeOK
<1>1. ServiceInv => ServiceTypeOK
  BY DEF ServiceInv, ServiceTypeOK
<1>2. ServiceSpec => []ServiceInv
  BY ServiceInvariance
<1> QED BY <1>1, <1>2, PTL

-----------------------------------------------------------------------------
(* What the engine tells of its count                                      *)

\* A request of the current item that was not made is for a file not there.
Reads(e) ==
  e.items[e.current].http # "None" /\ ~e.items[e.current].reply => e.current \notin disk

(* From e to r the count has become n; with the batch, it is reported.     *)
Tells(e, r, n) ==
  IF r.notified
  THEN r.sent = n /\ r.nbrOfItems = e.nbrOfItems /\ r.reports = <<>> /\ Reads(r)
  ELSE \E rep \in Report :
         r.reports = <<rep>> /\ rep.sent = n /\ rep.total = e.nbrOfItems

LEMMA LastItemFinishedTells ==
  ASSUME NEW e \in Pipe, NEW f \in Files, e.reports = <<>>
  PROVE  LET r == LastItemFinished(e, f)
         IN  /\ ~r.notified
             /\ r.reports = <<[error |-> e.error, sent |-> e.sent, total |-> e.nbrOfItems]>>
<1> DEFINE d == [e EXCEPT !.deleted = @ \cup {f}, !.notified = FALSE]
           rep == [error |-> e.error, sent |-> e.sent, total |-> e.nbrOfItems]
<1>1. /\ d \in Pipe /\ ~d.notified /\ d.reports = <<>> /\ d.error = e.error
      /\ d.sent = e.sent /\ d.nbrOfItems = e.nbrOfItems
  BY DEF Pipe
<1>2. LastItemFinished(e, f) = QueueDone(d)
  BY DEF LastItemFinished
<1> HIDE DEF d
<1>3. QueueDone(d).notified = d.notified /\ QueueDone(d).reports = Append(d.reports, rep)
  BY <1>1 DEF QueueDone, Pipe
<1>4. Append(<<>>, rep) = <<rep>>
  OBVIOUS
<1> QED BY <1>1, <1>2, <1>3, <1>4

LEMMA AbandonTells ==
  ASSUME NEW e \in Pipe, NEW f \in Files, e.reports = <<>>
  PROVE  Tells(e, Abandon(e, f), e.sent)
<1> DEFINE err == FirstError(e.error, "ProtocolError")
           c == [[e EXCEPT !.error = err] EXCEPT !.queue = <<>>, !.deleted = @ \cup Range(e.queue)]
           rep == [error |-> c.error, sent |-> c.sent, total |-> c.nbrOfItems]
<1>1. err \in ErrorType
  BY FirstErrorType DEF Pipe, ErrorType
<1>2. Range(e.queue) \subseteq Files /\ <<>> \in Seq(Files)
  BY QueueFiles
<1>3. Abandon(e, f) = LastItemFinished(c, f)
  BY DEF Abandon, Clear, Pipe
<1> HIDE DEF err
<1>4. c \in Pipe /\ c.reports = <<>> /\ c.sent = e.sent /\ c.nbrOfItems = e.nbrOfItems
  BY <1>1, <1>2 DEF Pipe
<1> HIDE DEF c
<1>5. rep \in Report /\ rep.sent = e.sent /\ rep.total = e.nbrOfItems
  BY <1>4 DEF Pipe, Report
<1>6. ~Abandon(e, f).notified /\ Abandon(e, f).reports = <<rep>>
  BY <1>3, <1>4, LastItemFinishedTells
<1> HIDE DEF rep
<1> QED BY <1>5, <1>6 DEF Tells

LEMMA UploadNextTells ==
  ASSUME NEW e, Sound(e), e.notified, e.queue # <<>>, e.reports = <<>>, NEW r \in UploadNext(e)
  PROVE  Tells(e, r, e.sent)
<1> DEFINE f == Head(e.queue)
           taken == [e EXCEPT !.queue = Tail(@), !.current = f]
           it == StartUpload(e.items[f], f \in disk)
           cc == Cancel(e.items[f])
           err == FirstError(e.error, "ConnectionNotAvailable")
<1>0. e \in Pipe
  BY DEF Sound
<1>1. e.queue \in Seq(Files) /\ f \in Files /\ Tail(e.queue) \in Seq(Files) /\ f = e.queue[1]
      /\ 1 \in 1..Len(e.queue)
  BY <1>0 DEF Pipe
<1>2. Untouched(e.items[f])
  BY <1>1 DEF Sound, QueueSound
<1>3. /\ taken \in Pipe /\ taken.items = e.items /\ taken.error = e.error /\ taken.notified
      /\ taken.reports = <<>> /\ taken.sent = e.sent /\ taken.nbrOfItems = e.nbrOfItems
      /\ taken.current = f
  BY <1>0, <1>1 DEF Pipe
<1>4. e.items[f] \in Item
  BY <1>0, <1>1 DEF Pipe
<1>5. it \in Item /\ (f \in disk => it.reply)
  <2>1. it \in Item
    BY <1>4, StartHandler
  <2>2. f \in disk => it.reply
    BY <1>4 DEF StartUpload, Item
  <2> QED BY <2>1, <2>2
<1>6. cc \in Item
  BY <1>4, CancelType
<1>7. err \in ErrorType
  BY <1>0, FirstErrorType DEF Pipe, ErrorType
<1>8. e.session \in SessionState
  BY <1>0 DEF Pipe
<1>9. PICK o \in OpenOutcomes(e.session) :
        r = CASE o.result = "ready" ->
                   [taken EXCEPT !.session = o.session, !.state = "Connected",
                                 !.items[f] = StartUpload(@, f \in disk)]
              [] o.result = "pending" ->
                   [taken EXCEPT !.session = o.session, !.state = "Connecting"]
              [] o.result = "failed" ->
                   Abandon([taken EXCEPT
                              !.session = o.session, !.state = "NoConnection",
                              !.error = FirstError(@, "ConnectionNotAvailable"),
                              !.items[f] = Cancel(@)], f)
  BY DEF UploadNext
<1>10. o.result \in {"ready", "pending", "failed"} /\ o.session \in SessionState
  BY <1>8, OpenOutcomesType
<1> HIDE DEF f, taken
<1>11. CASE o.result = "ready"
  <2>1. r = [taken EXCEPT !.session = o.session, !.state = "Connected", !.items[f] = it]
    BY <1>1, <1>3, <1>9, <1>11 DEF Pipe
  <2> HIDE DEF it
  <2>2. r.items[f] = it /\ r.current = f
    BY <1>1, <1>3, <2>1 DEF Pipe
  <2>3. Reads(r)
    BY <1>5, <2>2 DEF Reads
  <2> QED BY <1>3, <2>1, <2>3 DEF Tells, Pipe
<1>12. CASE o.result = "pending"
  <2>1. r = [taken EXCEPT !.session = o.session, !.state = "Connecting"]
    BY <1>9, <1>12
  <2>2. r.items = e.items /\ r.current = f
    BY <1>3, <2>1 DEF Pipe
  <2>3. Reads(r)
    BY <1>2, <2>2 DEF Reads, Untouched
  <2> QED BY <1>3, <2>1, <2>3 DEF Tells, Pipe
<1>13. CASE o.result = "failed"
  <2> DEFINE x == [taken EXCEPT !.session = o.session, !.state = "NoConnection",
                                !.error = err, !.items[f] = cc]
  <2>1. r = Abandon(x, f)
    BY <1>1, <1>3, <1>9, <1>13 DEF Pipe
  <2> HIDE DEF err, cc
  <2>2. x \in Pipe /\ x.reports = <<>> /\ x.sent = e.sent /\ x.nbrOfItems = e.nbrOfItems
    BY <1>1, <1>3, <1>6, <1>7, <1>10 DEF Pipe, EngineState
  <2> HIDE DEF x
  <2>3. Tells(x, r, x.sent)
    BY <1>1, <2>1, <2>2, AbandonTells
  <2>4. ~r.notified
    BY <1>1, <2>1, <2>2, AbandonEffect
  <2> QED BY <2>2, <2>3, <2>4 DEF Tells
<1> QED BY <1>10, <1>11, <1>12, <1>13

LEMMA ItemFinishedTells ==
  ASSUME NEW e, NEW f, Completing(e, f), e.reports = <<>>, NEW r \in ItemFinished(e, f)
  PROVE  Tells(e, r, e.sent)
<1> USE DEF Completing
<1>0. e \in Pipe
  BY DEF Sound
<1>1. CASE e.queue = <<>>
  <2> DEFINE rep == [error |-> e.error, sent |-> e.sent, total |-> e.nbrOfItems]
  <2>1. r = LastItemFinished(e, f)
    BY <1>1 DEF ItemFinished
  <2>2. ~r.notified /\ r.reports = <<rep>>
    BY <1>0, <2>1, LastItemFinishedTells
  <2>3. rep \in Report /\ rep.sent = e.sent /\ rep.total = e.nbrOfItems
    BY <1>0 DEF Pipe, Report
  <2> HIDE DEF rep
  <2> QED BY <2>2, <2>3 DEF Tells
<1>2. CASE e.queue # <<>>
  <2> DEFINE d == [e EXCEPT !.deleted = @ \cup {f}]
  <2>1. r \in UploadNext(d)
    BY <1>2 DEF ItemFinished
  <2>2. /\ d \in Pipe /\ d.notified /\ d.queue = e.queue /\ d.reports = <<>> /\ d.items = e.items
        /\ d.sent = e.sent /\ d.nbrOfItems = e.nbrOfItems /\ d.deleted = e.deleted \cup {f}
    BY <1>0 DEF Pipe
  <2> HIDE DEF d
  <2>3. Sound(d)
    BY <2>2 DEF Sound, QueueSound
  <2>4. Tells(d, r, d.sent)
    BY <1>2, <2>1, <2>2, <2>3, UploadNextTells
  <2> QED BY <2>2, <2>4 DEF Tells
<1> QED BY <1>1, <1>2

LEMMA UploadFinishedTells ==
  ASSUME NEW e, NEW f, Completing(e, f), e.reports = <<>>, NEW r \in UploadFinished(e, f)
  PROVE  Tells(e, r, IF e.items[f].status \in {"Error", "Cancelled"} THEN e.sent ELSE e.sent + 1)
<1> DEFINE err == FirstError(e.error, "ProtocolError")
           n == e.sent + 1
           d == [e EXCEPT !.error = err]
           g == [e EXCEPT !.sent = n]
<1>0. e \in Pipe /\ f \in Files /\ e.reports = <<>> /\ e.notified /\ Sound(e) /\ NoRequest(e)
  BY DEF Completing, Sound
<1>1. err \in ErrorType /\ n \in Nat
  BY <1>0, FirstErrorType DEF Pipe, ErrorType
<1> HIDE DEF err
<1>2. CASE e.items[f].status = "Error" /\ e.state # "NoConnection"
  <2>1. r \in ItemFinished(d, f)
    BY <1>2 DEF UploadFinished, err
  <2>2. /\ d \in Pipe /\ d.notified /\ d.queue = e.queue /\ d.reports = <<>> /\ d.items = e.items
        /\ d.sent = e.sent /\ d.nbrOfItems = e.nbrOfItems /\ d.deleted = e.deleted
        /\ d.current = e.current
    BY <1>0, <1>1 DEF Pipe
  <2> HIDE DEF d
  <2>3. Completing(d, f)
    BY <2>2 DEF Completing, Sound, QueueSound, NoRequest
  <2>4. Tells(d, r, d.sent)
    BY <2>1, <2>2, <2>3, ItemFinishedTells
  <2> QED BY <1>2, <2>2, <2>4 DEF Tells
<1>3. CASE ~(e.items[f].status = "Error" /\ e.state # "NoConnection")
           /\ e.items[f].status \in {"Error", "Cancelled"}
  <2>1. r = Abandon(e, f)
    BY <1>3 DEF UploadFinished
  <2> QED BY <1>0, <1>3, <2>1, AbandonTells
<1>4. CASE e.items[f].status \notin {"Error", "Cancelled"}
  <2>1. r \in ItemFinished(g, f)
    BY <1>4 DEF UploadFinished
  <2> HIDE DEF n
  <2>2. /\ g \in Pipe /\ g.notified /\ g.queue = e.queue /\ g.reports = <<>> /\ g.items = e.items
        /\ g.sent = n /\ g.nbrOfItems = e.nbrOfItems /\ g.deleted = e.deleted
        /\ g.current = e.current
    BY <1>0, <1>1 DEF Pipe
  <2> HIDE DEF g
  <2>3. Completing(g, f)
    BY <2>2 DEF Completing, Sound, QueueSound, NoRequest
  <2>4. Tells(g, r, g.sent)
    BY <2>1, <2>2, <2>3, ItemFinishedTells
  <2> QED BY <1>4, <2>2, <2>4 DEF Tells, n
<1> QED BY <1>2, <1>3, <1>4

\* The count when an item has completed with the state it.
CountOf(e, it) == IF it.status \in {"Error", "Cancelled"} THEN e.sent ELSE e.sent + 1

LEMMA CurrentCompletesTells ==
  ASSUME NEW e, Sound(e), e.notified, e.reports = <<>>,
         e.current \in Files,
         \A n \in 1..Len(e.queue) : e.queue[n] # e.current,
         \A g \in Files : e.items[g].reply => g = e.current,
         NEW it \in Item, ItemSound(it), ~it.reply,
         NEW r \in ItemBecomes(e, e.current, it, TRUE)
  PROVE  Tells(e, r, CountOf(e, it))
<1> DEFINE f == e.current
           d == [e EXCEPT !.items[f] = it]
<1>0. e \in Pipe
  BY DEF Sound
<1>1. r \in UploadFinished(d, f)
  BY DEF ItemBecomes
<1>2. /\ d \in Pipe /\ d.notified /\ d.queue = e.queue /\ d.reports = <<>>
      /\ d.sent = e.sent /\ d.nbrOfItems = e.nbrOfItems /\ d.deleted = e.deleted
      /\ d.current = f /\ d.items[f] = it /\ \A g \in Files \ {f} : d.items[g] = e.items[g]
  BY <1>0 DEF Pipe
<1> HIDE DEF d
<1>3. Completing(d, f)
  <2>1. ASSUME NEW n \in 1..Len(e.queue) PROVE e.queue[n] \in Files
    BY <1>0, QueueFiles
  <2> QED BY <1>2, <2>1 DEF Completing, Sound, QueueSound, NoRequest
<1> QED BY <1>1, <1>2, <1>3, UploadFinishedTells DEF Tells, CountOf

LEMMA CancelCurrentTells ==
  ASSUME NEW e, Sound(e), e.notified, e.reports = <<>>,
         e.current \in Files, CancelCompletes(e.items[e.current]),
         \A n \in 1..Len(e.queue) : e.queue[n] # e.current,
         \A g \in Files : e.items[g].reply => g = e.current,
         NEW r \in CancelCurrent(e)
  PROVE  Tells(e, r, CountOf(e, Cancel(e.items[e.current])))
<1> DEFINE it == Cancel(e.items[e.current])
<1>1. e.items[e.current] \in Item /\ ItemSound(e.items[e.current])
  BY DEF Sound, Pipe
<1>2. it \in Item /\ ItemSound(it) /\ ~it.reply
  BY <1>1, CancelHandler
<1>3. r \in ItemBecomes(e, e.current, it, TRUE)
  BY DEF CancelCurrent, ItemBecomes
<1> HIDE DEF it
<1>4. Tells(e, r, CountOf(e, it))
  BY <1>2, <1>3, CurrentCompletesTells
<1> QED BY <1>4 DEF it

LEMMA SessionLostTells ==
  ASSUME NEW e, PipeInv(e), e.notified, e.reports = <<>>, NEW r \in SessionLost(e)
  PROVE  Tells(e, r, CountOf(e, Cancel(e.items[e.current])))
<1> DEFINE why == IF e.state = "Connecting" THEN "ConnectionNotAvailable" ELSE "ConnectionClosed"
           err == FirstError(e.error, why)
           d == [e EXCEPT !.state = "NoConnection", !.error = err]
<1>1. Sound(e) /\ e \in Pipe /\ Uploading(e)
  BY DEF PipeInv, Sound
<1>2. err \in ErrorType
  BY <1>1, FirstErrorType DEF Pipe, ErrorType
<1>3. r \in CancelCurrent(d)
  <2>1. CASE e.state = "Connecting"
    BY <2>1 DEF SessionLost
  <2>2. CASE e.state = "Connected"
    BY <2>2 DEF SessionLost
  <2> QED BY <1>1, <2>1, <2>2 DEF Uploading
<1> HIDE DEF err
<1>4. /\ d \in Pipe /\ d.notified /\ d.queue = e.queue /\ d.reports = <<>> /\ d.items = e.items
      /\ d.sent = e.sent /\ d.nbrOfItems = e.nbrOfItems /\ d.deleted = e.deleted
      /\ d.current = e.current
  BY <1>1, <1>2 DEF Pipe, EngineState, Uploading
<1> HIDE DEF d
<1>5. Sound(d)
  BY <1>1, <1>4 DEF Sound, QueueSound
<1>6. Tells(d, r, CountOf(d, Cancel(d.items[d.current])))
  BY <1>1, <1>3, <1>4, <1>5, CancelCurrentTells DEF Uploading
<1> QED BY <1>4, <1>6 DEF Tells, CountOf

LEMMA EnqueueItemTells ==
  ASSUME NEW p, NEW f \in Files, Enlists(p, f), p.reports = <<>>, p.notified => Reads(p), NEW r \in EnqueueItem(p, f)
  PROVE  IF r.notified
         THEN /\ r.sent = p.sent /\ r.reports = <<>> /\ Reads(r)
              /\ r.nbrOfItems = (IF p.notified THEN p.nbrOfItems ELSE 0) + 1
         ELSE \E rep \in Report : r.reports = <<rep>> /\ rep.sent = p.sent
<1> DEFINE q == Append(p.queue, f)
           e == [p EXCEPT !.queue = q]
           d == [e EXCEPT !.nbrOfItems = 0, !.notified = TRUE]
<1>1. p \in Pipe /\ Sound(p) /\ p.reports = <<>> /\ p.queue \in Seq(Files) /\ f \in Files
  BY DEF Enlists, PipeInv, Sound, Pipe
<1>2. PICK t : /\ IF e.notified THEN t = e ELSE t \in UploadNext(d)
               /\ r = [t EXCEPT !.nbrOfItems = @ + 1]
  <2>1. e.notified = p.notified
    BY <1>1 DEF Pipe
  <2> QED BY <2>1 DEF EnqueueItem
<1>3. q \in Seq(Files) /\ q # <<>>
  BY <1>1
<1> HIDE DEF q
<1>4. /\ e \in Pipe /\ e.queue = q /\ e.items = p.items /\ e.reports = <<>> /\ e.deleted = p.deleted
      /\ e.notified = p.notified /\ e.sent = p.sent /\ e.nbrOfItems = p.nbrOfItems
      /\ e.current = p.current
  BY <1>1, <1>3 DEF Pipe
<1> HIDE DEF e
<1>5. ASSUME t \in Pipe
      PROVE  /\ r.notified = t.notified /\ r.sent = t.sent /\ r.reports = t.reports
             /\ r.nbrOfItems = t.nbrOfItems + 1 /\ r.items = t.items /\ r.current = t.current
  <2> DEFINE n == t.nbrOfItems + 1
  <2> HIDE DEF n
  <2>1. r = [t EXCEPT !.nbrOfItems = n]
    BY <1>2 DEF n
  <2>2. r.nbrOfItems = n
    BY <1>5, <2>1 DEF Pipe
  <2> QED BY <1>5, <2>1, <2>2 DEF Pipe, n
<1>6. CASE p.notified
  <2>1. t = e /\ t \in Pipe
    BY <1>2, <1>4, <1>6
  <2> QED BY <1>4, <1>5, <1>6, <2>1 DEF Reads
<1>7. CASE ~p.notified
  <2>1. t \in UploadNext(d)
    BY <1>2, <1>4, <1>7
  <2>2. /\ d \in Pipe /\ d.queue = q /\ d.items = p.items /\ d.reports = <<>> /\ d.notified
        /\ d.deleted = p.deleted /\ d.sent = p.sent /\ d.nbrOfItems = 0
    BY <1>4 DEF Pipe
  <2> HIDE DEF d
  <2>3. Sound(d)
    <3>1. p.queue = <<>> /\ f \notin p.deleted /\ Untouched(p.items[f])
      BY <1>7 DEF Enlists, PipeInv, Resting, Tracked
    <3>2. Len(q) = 1 /\ q[1] = f
      BY <3>1 DEF q
    <3>3. \A n \in 1..Len(q) : n = 1
      BY <3>2
    <3> QED BY <1>1, <2>2, <3>1, <3>2, <3>3 DEF Sound, QueueSound
  <2>4. Tells(d, t, d.sent)
    BY <1>3, <2>1, <2>2, <2>3, UploadNextTells
  <2>5. t \in Pipe
    BY <1>3, <2>1, <2>2, UploadNextType
  <2>6. CASE t.notified
    BY <1>5, <1>7, <2>2, <2>4, <2>5, <2>6 DEF Tells, Reads
  <2>7. CASE ~t.notified
    BY <1>5, <2>2, <2>4, <2>5, <2>7 DEF Tells
  <2> QED BY <2>6, <2>7
<1> QED BY <1>6, <1>7

\* The items that have been sent.
Sent(e) == {f \in Files : e.items[f].status = "Finished"}

(* The count n is that of the items that have been sent in this step, and  *)
(* what has been sent is not on the disk any more.                         *)
Tallied(n) ==
  /\ pipe.deleted \subseteq pipe'.deleted
  /\ \/ n = pipe.sent /\ Sent(pipe') = Sent(pipe)
     \/ /\ n = pipe.sent + 1 /\ Sent(pipe') = Sent(pipe) \cup {pipe.current}
        /\ pipe.current \in (Files \cap pipe'.deleted) \ (disk' \cup pipe.deleted)

LEMMA CompletesTallies ==
  ASSUME IInv, Sent(pipe) \subseteq pipe.deleted, NEW it, Completes(pipe, pipe', it),
         it.status \in {"Error", "Cancelled", "Finished"},
         it.status = "Finished" => pipe.current \notin disk'
  PROVE  Tallied(CountOf(pipe, it))
<1>1. pipe.notified /\ pipe.current \in Files \ pipe.deleted /\ pipe.sent \in Nat
  BY DEF Completes, IInv, PipeInv, Uploading, Sound, Pipe
<1>2. pipe.deleted \cup {pipe.current} \subseteq pipe'.deleted
  BY DEF Completes, Outcome
<1>3. ASSUME NEW g \in Files \ {pipe.current}
      PROVE  pipe'.items[g].status = "Finished" <=> pipe.items[g].status = "Finished"
  <2>1. NextItem(pipe, pipe', g)
    BY <1>3 DEF Completes
  <2>2. g \in Range(pipe.queue) => Untouched(pipe.items[g])
    BY QueuedUntouched
  <2>3. Untouched(pipe.items[g]) => Cancel(pipe.items[g]).status = "Cancelled"
    <3>1. pipe.items[g] \in Item
      BY DEF IInv, PipeInv, Sound, Pipe
    <3> QED BY <3>1 DEF Untouched, Cancel, Item
  <2>4. StartUpload(pipe.items[g], g \in disk).status \in {"Sending", "Error"}
    BY DEF StartUpload
  <2> QED BY <2>1, <2>2, <2>3, <2>4 DEF NextItem, Untouched
<1>4. pipe'.items[pipe.current] = it
  BY DEF Completes
<1>5. pipe.current \notin Sent(pipe)
  BY <1>1
<1>6. CASE it.status = "Finished"
  <2>1. Sent(pipe') = Sent(pipe) \cup {pipe.current}
    BY <1>1, <1>3, <1>4, <1>6 DEF Sent
  <2> QED BY <1>1, <1>2, <1>6, <2>1 DEF Tallied, CountOf
<1>7. CASE it.status # "Finished"
  <2>1. Sent(pipe') = Sent(pipe)
    BY <1>1, <1>3, <1>4, <1>5, <1>7 DEF Sent
  <2> QED BY <1>2, <1>7, <2>1 DEF Tallied, CountOf
<1> QED BY <1>6, <1>7

(* An item that is cancelled does not count, unless it could not be read.  *)
LEMMA CancelledStatus ==
  ASSUME NEW it \in Item, ItemSound(it)
  PROVE  /\ Cancel(it).status \in {"Cancelled", "Finished"}
         /\ Cancel(it).status = "Finished" => it.http # "None" /\ ~it.reply
<1> DEFINE c == [it EXCEPT !.status = "Cancelled"]
<1>1. /\ c \in Item /\ c.status = "Cancelled" /\ c.http = it.http
      /\ c.reply <=> it.reply
      /\ c.wired <=> it.wired
  BY DEF Item, ItemStatus
<1>2. Cancel(it) = IF it.http = "None" THEN c ELSE HttpCancel(c)
  BY DEF Cancel
<1> HIDE DEF c
<1>3. CASE c.reply
  <2>1. Fail(c) \in Item /\ ~Fail(c).wired /\ Fail(c).status = "Cancelled"
    BY <1>1 DEF Fail, HandleError, Item, ItemStatus, RequestState
  <2>2. HttpCancel(c) = HandleFinished([End(Fail(c)) EXCEPT !.reply = FALSE])
    BY <1>3 DEF HttpCancel
  <2>3. HttpCancel(c).status = "Cancelled"
    BY <2>1, <2>2 DEF End, HandleFinished, Item
  <2> QED BY <1>1, <1>2, <2>3
<1>4. CASE ~c.reply
  BY <1>1, <1>2, <1>4 DEF HttpCancel, HandleFinished, Item
<1> QED BY <1>3, <1>4

LEMMA CancelTallies ==
  ASSUME IInv, Sent(pipe) \subseteq pipe.deleted, pipe.notified, Reads(pipe), disk' \subseteq disk,
         Completes(pipe, pipe', Cancel(pipe.items[pipe.current]))
  PROVE  Tallied(CountOf(pipe, Cancel(pipe.items[pipe.current])))
<1> DEFINE it == Cancel(pipe.items[pipe.current])
<1>1. pipe.items[pipe.current] \in Item /\ ItemSound(pipe.items[pipe.current])
  BY DEF IInv, PipeInv, Sound, Uploading, Pipe
<1>2. /\ it.status \in {"Cancelled", "Finished"}
      /\ it.status = "Finished" => pipe.current \notin disk
  BY <1>1, CancelledStatus DEF Reads
<1> HIDE DEF it
<1>3. Completes(pipe, pipe', it)
  BY DEF it
<1>4. Tallied(CountOf(pipe, it))
  BY <1>2, <1>3, CompletesTallies
<1> QED BY <1>4 DEF it

LEMMA CancelAllTells ==
  ASSUME IInv, pipe.reports = <<>>, Sent(pipe) \subseteq pipe.deleted, pipe.notified, Reads(pipe),
         CancelAll
  PROVE  \E n : Tells(pipe, pipe', n) /\ Tallied(n)
<1>1. Uploading(pipe) /\ Sound(pipe)
  BY DEF IInv, PipeInv
<1>2. pipe' \in CancelCurrent(pipe) /\ disk' \subseteq disk
  BY DEF CancelAll, Remaining
<1>3. Tells(pipe, pipe', CountOf(pipe, Cancel(pipe.items[pipe.current])))
  BY <1>1, <1>2, CancelCurrentTells DEF Uploading
<1>4. Completes(pipe, pipe', Cancel(pipe.items[pipe.current]))
  BY CancelAllEffect
<1> QED BY <1>2, <1>3, <1>4, CancelTallies

LEMMA SessionLostEventTells ==
  ASSUME IInv, pipe.reports = <<>>, Sent(pipe) \subseteq pipe.deleted, pipe.notified, Reads(pipe),
         SessionError \/ SessionDisconnected
  PROVE  \E n : Tells(pipe, pipe', n) /\ Tallied(n)
<1> DEFINE e == [pipe EXCEPT !.session = "idle"]
           it == Cancel(pipe.items[pipe.current])
<1>1. pipe \in Pipe /\ PipeInv(pipe) /\ disk' \subseteq disk
  BY DEF IInv, PipeInv, Sound, SessionError, SessionDisconnected, Remaining
<1>2. PipeInv(e)
  BY <1>1, SessionChanges DEF SessionState
<1>3. /\ e.notified /\ e.current = pipe.current /\ e.items = pipe.items /\ e.sent = pipe.sent
      /\ e.nbrOfItems = pipe.nbrOfItems /\ e.reports = <<>> /\ e \in Pipe
  BY <1>1 DEF Pipe, SessionState
<1>4. PICK t \in SessionLost(e) : pipe' = t \/ pipe' = [t EXCEPT !.session = "none"]
  BY DEF SessionError, SessionDisconnected
<1> HIDE DEF e
<1>5. Tells(e, t, CountOf(e, it))
  BY <1>2, <1>3, SessionLostTells
<1>6. t \in Pipe
  BY <1>2, SessionLostSound DEF MovesTo, PipeInv, Sound
<1>7. /\ pipe'.notified <=> t.notified
      /\ pipe'.sent = t.sent /\ pipe'.nbrOfItems = t.nbrOfItems /\ pipe'.reports = t.reports
      /\ pipe'.items = t.items /\ pipe'.current = t.current
  BY <1>4, <1>6 DEF Pipe
<1>8. Tells(pipe, pipe', CountOf(pipe, it))
  BY <1>3, <1>5, <1>7 DEF Tells, CountOf, Reads
<1>9. Completes(pipe, pipe', it)
  BY SessionLostEvent
<1> QED BY <1>1, <1>8, <1>9, CancelTallies

LEMMA SessionOpenedTells ==
  ASSUME IInv, pipe.reports = <<>>, Sent(pipe) \subseteq pipe.deleted, pipe.notified, Reads(pipe),
         SessionOpened
  PROVE  \E n : Tells(pipe, pipe', n) /\ Tallied(n)
<1> DEFINE e == [pipe EXCEPT !.session = "open"]
           f == pipe.current
           it == StartUpload(pipe.items[f], f \in disk)
<1>1. /\ pipe \in Pipe /\ f \in Files /\ pipe.reports = <<>> /\ Uploading(pipe)
  BY DEF IInv, PipeInv, Sound, Uploading
<1>2. /\ e \in Pipe /\ e.items = pipe.items /\ e.current = f /\ e.state = pipe.state
      /\ e.sent = pipe.sent /\ e.nbrOfItems = pipe.nbrOfItems /\ e.reports = <<>> /\ e.notified
      /\ e.deleted = pipe.deleted
  BY <1>1 DEF Pipe, SessionState
<1>3. pipe' = IF e.state = "Connecting"
              THEN [e EXCEPT !.state = "Connected",
                             !.items[e.current] = StartUpload(@, e.current \in disk)]
              ELSE e
  BY DEF SessionOpened
<1> HIDE DEF e
<1>4. CASE pipe.state = "Connecting"
  <2>1. pipe' = [e EXCEPT !.state = "Connected", !.items[f] = it]
    BY <1>1, <1>2, <1>3, <1>4 DEF Pipe
  <2>2. it.status \in {"Sending", "Error"} /\ (f \in disk => it.reply)
    BY DEF StartUpload
  <2> HIDE DEF it
  <2>3. /\ pipe'.items[f] = it /\ pipe'.current = f /\ pipe'.notified /\ pipe'.sent = pipe.sent
        /\ pipe'.nbrOfItems = pipe.nbrOfItems /\ pipe'.reports = <<>> /\ pipe'.deleted = pipe.deleted
        /\ \A g \in Files \ {f} : pipe'.items[g] = pipe.items[g]
    BY <1>1, <1>2, <2>1 DEF Pipe
  <2>4. Untouched(pipe.items[f])
    BY <1>1, <1>4 DEF Uploading
  <2> HIDE DEF f
  <2>5. Sent(pipe') = Sent(pipe)
    BY <2>2, <2>3, <2>4 DEF Sent, Untouched
  <2>6. Reads(pipe')
    BY <2>2, <2>3 DEF Reads
  <2> QED BY <2>3, <2>5, <2>6 DEF Tells, Tallied
<1>5. CASE pipe.state # "Connecting"
  <2>1. pipe' = e
    BY <1>2, <1>3, <1>5
  <2> QED BY <1>2, <2>1 DEF Tells, Tallied, Sent, Reads
<1> QED BY <1>4, <1>5

LEMMA ProgressTells ==
  ASSUME IInv, pipe.reports = <<>>, Sent(pipe) \subseteq pipe.deleted, pipe.notified, Reads(pipe),
         NEW f \in Files, Progress(f)
  PROVE  \E n : Tells(pipe, pipe', n) /\ Tallied(n)
<1> DEFINE it == HandleUploadProgress(pipe.items[f])
<1>1. /\ pipe \in Pipe /\ pipe.current \in Files /\ pipe.items[f].request = "open"
      /\ pipe.items[f] \in Item /\ ItemSound(pipe.items[f])
  BY DEF IInv, PipeInv, Sound, Uploading, Progress, Pipe
<1>2. it.status = pipe.items[f].status /\ (it.reply <=> pipe.items[f].reply) /\ pipe.items[f].reply
  BY <1>1, ProgressHandler DEF ItemSound
<1>3. pipe' = [pipe EXCEPT !.items[f] = it]
  BY <1>1 DEF Progress, Pipe
<1> HIDE DEF it
<1>4. /\ pipe'.items[f] = it /\ pipe'.current = pipe.current /\ pipe'.notified /\ pipe'.sent = pipe.sent
      /\ pipe'.nbrOfItems = pipe.nbrOfItems /\ pipe'.reports = <<>> /\ pipe'.deleted = pipe.deleted
      /\ \A g \in Files \ {f} : pipe'.items[g] = pipe.items[g]
  BY <1>1, <1>3 DEF Pipe
<1>5. Sent(pipe') = Sent(pipe)
  BY <1>2, <1>4 DEF Sent
<1>6. Reads(pipe')
  BY <1>1, <1>2, <1>4 DEF Reads
<1> QED BY <1>4, <1>5, <1>6 DEF Tells, Tallied

(* What a request that has ended makes of its item.                        *)
LEMMA EndedStatus ==
  ASSUME NEW it \in Item, ItemSound(it), it.reply
  PROVE  /\ Fail(it).status \in {"Cancelled", "Error"}
         /\ End(it).status = "Finished"
         /\ HttpCancel(it).status \in {"Cancelled", "Error"}
<1>1. /\ Fail(it) \in Item /\ ~Fail(it).wired
      /\ Fail(it).status = (IF it.status = "Cancelled" THEN "Cancelled" ELSE "Error")
  BY DEF Fail, HandleError, Item, ItemStatus, RequestState
<1>2. End(it).status = "Finished"
  BY DEF End, HandleFinished, Item, ItemSound, Requesting
<1>3. HttpCancel(it) = HandleFinished([End(Fail(it)) EXCEPT !.reply = FALSE])
  BY DEF HttpCancel
<1>4. HttpCancel(it).status = Fail(it).status
  BY <1>1, <1>3 DEF End, HandleFinished, Item
<1> QED BY <1>1, <1>2, <1>4

LEMMA EndOfRequestTells ==
  ASSUME IInv, pipe.reports = <<>>, Sent(pipe) \subseteq pipe.deleted, pipe.notified, Reads(pipe),
         NEW f \in Files,
         ReplyFinished(f) \/ ReplyError(f) \/ ReplyFinishedAfterError(f) \/ ConnectionTimeout(f)
  PROVE  \E n : Tells(pipe, pipe', n) /\ Tallied(n)
<1> DEFINE old == pipe.items[f]
<1>1. /\ pipe \in Pipe /\ Sound(pipe) /\ Uploading(pipe) /\ old \in Item /\ ItemSound(old)
      /\ pipe.current \in Files
  BY DEF IInv, PipeInv, Sound, Uploading, Pipe
<1>2. /\ HasClient(old) /\ old.status # "Waiting"
      /\ ReplyFinished(f) \/ ReplyError(f) => old.reply
      /\ ReplyFinishedAfterError(f) => ~old.wired
  BY <1>1, RequestEnding DEF ReplyFinished, ReplyError, ReplyFinishedAfterError, ConnectionTimeout,
       ItemSound
<1>3. PICK it \in Item :
        /\ \/ ReplyFinished(f) /\ it = End(old)
           \/ ReplyError(f) /\ it = Fail(old)
           \/ ReplyFinishedAfterError(f) /\ it = End(old)
           \/ ConnectionTimeout(f) /\ it = HttpCancel(old)
        /\ ~old.wired => it.status = old.status
        /\ IF old.wired
           THEN pipe.notified /\ f = pipe.current /\ Completes(pipe, pipe', it)
           ELSE /\ pipe'.deleted = pipe.deleted /\ pipe'.reports = pipe.reports
                /\ \A g \in Files : pipe'.items[g] = IF g = f THEN it ELSE pipe.items[g]
  BY EndOfRequest
<1>4. ItemSound(it) /\ ~it.reply /\ pipe' \in ItemBecomes(pipe, f, it, old.wired)
  <2>1. old.request = "open" <=> old.reply
    BY <1>1 DEF ItemSound
  <2> QED BY <1>1, <1>2, <1>3, <2>1, FinishedHandler, ErrorHandler, HttpCancelHandler
          DEF ReplyFinished, ReplyError, ReplyFinishedAfterError, ConnectionTimeout
<1>5. CASE old.wired
  <2>1. f = pipe.current /\ Completes(pipe, pipe', it)
    BY <1>3, <1>5
  <2>2. pipe' \in ItemBecomes(pipe, pipe.current, it, TRUE)
    BY <1>4, <1>5, <2>1 DEF ItemBecomes
  <2>3. Tells(pipe, pipe', CountOf(pipe, it))
    BY <1>1, <1>4, <2>2, CurrentCompletesTells DEF Uploading
  <2>4. old.reply /\ ~ReplyFinishedAfterError(f)
    BY <1>2, <1>5 DEF HasClient
  <2>5. /\ it.status \in {"Error", "Cancelled", "Finished"}
        /\ it.status = "Finished" => ReplyFinished(f) /\ it = End(old)
    BY <1>1, <1>3, <2>4, EndedStatus
  <2>6. ASSUME it.status = "Finished" PROVE pipe.current \notin disk'
    <3>1. it.removed = (old.removed \/ old.reply) /\ ReplyFinished(f)
      BY <1>1, <1>2, <2>5, <2>6, FinishedHandler
    <3>2. it.removed
      BY <1>1, <2>4, <3>1 DEF Item
    <3>3. pipe'.items[f] = it
      BY <2>1 DEF Completes
    <3> QED BY <2>1, <3>1, <3>2, <3>3 DEF ReplyFinished, Remaining
  <2> QED BY <2>1, <2>3, <2>5, <2>6, CompletesTallies
<1>6. CASE ~old.wired
  <2>1. pipe' = [pipe EXCEPT !.items[f] = it]
    BY <1>4, <1>6 DEF ItemBecomes
  <2>2. /\ pipe'.items[f] = it /\ pipe'.current = pipe.current /\ pipe'.notified /\ pipe'.sent = pipe.sent
        /\ pipe'.nbrOfItems = pipe.nbrOfItems /\ pipe'.reports = <<>> /\ pipe'.deleted = pipe.deleted
        /\ \A g \in Files \ {f} : pipe'.items[g] = pipe.items[g]
    BY <1>1, <2>1 DEF Pipe
  <2>3. it.status = old.status
    BY <1>3, <1>6
  <2>4. Sent(pipe') = Sent(pipe)
    BY <2>2, <2>3 DEF Sent
  <2>5. f # pipe.current
    <3>1. CancelCompletes(pipe.items[pipe.current])
      BY <1>1 DEF Uploading
    <3> QED BY <1>2, <1>6, <3>1 DEF CancelCompletes
  <2>6. Reads(pipe')
    BY <1>1, <2>2, <2>5 DEF Reads
  <2> QED BY <2>2, <2>4, <2>6 DEF Tells, Tallied
<1> QED BY <1>5, <1>6

LEMMA EventTells ==
  ASSUME IInv, pipe.reports = <<>>, Sent(pipe) \subseteq pipe.deleted, pipe.notified, Reads(pipe),
         EngineEvent
  PROVE  \E n : Tells(pipe, pipe', n) /\ Tallied(n)
<1>1. ASSUME NEW f \in Files, FileVanishes(f)
      PROVE  \E n : Tells(pipe, pipe', n) /\ Tallied(n)
  <2>1. pipe' = pipe
    BY <1>1 DEF FileVanishes
  <2> QED BY <2>1 DEF Tells, Tallied
<1> QED BY <1>1, SessionOpenedTells, SessionLostEventTells, ProgressTells, EndOfRequestTells
        DEF EngineEvent, SessionSettles, NetworkAnswers

-----------------------------------------------------------------------------
(* What the user is told of it                                             *)

(* The files that are not on the disk any more, and not about to be        *)
(* uploaded again.                                                         *)
Gone == Files \ (disk \cup Pending)

Bounded(s, n) ==
  s.success <= n /\ s.uploadSuccessCount <= n /\ s.savedCount <= s.uploadSuccessCount

(* What the service has told of and what its engine has counted since are  *)
(* different files, and all of them are gone.                              *)
SuccessInv ==
  /\ Bounded(service, Cardinality(Files \ disk))
  /\ ~service.exiting =>
       /\ service.uploadSuccessCount + pipe.sent <= Cardinality(Gone)
       /\ Sent(pipe) \subseteq pipe.deleted
       /\ pipe.notified => Reads(pipe)

LEMMA EngineFinishedTells ==
  ASSUME NEW s \in Service, NEW r \in Report
  PROVE  LET t == EngineFinished(s, r)
         IN  /\ \A n \in Nat : Bounded(s, n) /\ s.uploadSuccessCount + r.sent <= n => Bounded(t, n)
             /\ IF Notifications
                THEN ~t.progress /\ t.failed = IF r.total > r.sent THEN r.total - r.sent ELSE 0
                ELSE t.progress <=> s.progress
<1>1. /\ r.sent \in Nat /\ r.total \in Nat
      /\ s.uploadSuccessCount \in Nat /\ s.success \in Nat /\ s.savedCount \in Nat
  BY DEF Report, Service
<1> DEFINE bad == IF r.total > r.sent THEN r.total - r.sent ELSE 0
           good == IF r.sent > 0 THEN r.sent + s.uploadSuccessCount ELSE s.success
           cnt == IF r.sent > 0 THEN r.sent + s.uploadSuccessCount ELSE 0
           t == EngineFinished(s, r)
<1>2. CASE Notifications
  <2>1. t = [s EXCEPT !.progress = FALSE, !.failed = bad, !.success = good, !.uploadSuccessCount = cnt,
                      !.savedCount = cnt, !.activated = FALSE, !.engine = FALSE, !.exiting = TRUE]
    BY <1>2 DEF EngineFinished, Saved, Notify, Service
  <2>2. ASSUME NEW n \in Nat, Bounded(s, n), s.uploadSuccessCount + r.sent <= n
        PROVE  good <= n /\ cnt <= n /\ cnt <= cnt
    BY <1>1, <2>2 DEF Bounded
  <2> HIDE DEF bad, good, cnt, t
  <2>3. t.success = good /\ t.uploadSuccessCount = cnt /\ t.savedCount = cnt /\ t.failed = bad
        /\ ~t.progress
    BY <2>1 DEF Service
  <2> QED BY <1>2, <2>2, <2>3 DEF Bounded, t, bad
<1>3. CASE ~Notifications
  <2>1. t = [s EXCEPT !.activated = FALSE, !.engine = FALSE, !.exiting = TRUE]
    BY <1>3 DEF EngineFinished
  <2> HIDE DEF t
  <2>2. t.success = s.success /\ t.uploadSuccessCount = s.uploadSuccessCount
        /\ t.savedCount = s.savedCount
    BY <2>1 DEF Service
  <2>3. t.progress <=> s.progress
    BY <2>1 DEF Service
  <2> QED BY <1>3, <2>2, <2>3 DEF Bounded, t
<1> QED BY <1>2, <1>3

(* The service hears the report, and nothing else.                         *)
LEMMA HearReport ==
  ASSUME NEW s, s.engine, NEW e, e.reports = <<>>, NEW r
  PROVE  /\ r.reports = <<>> => Hear(s, e, r) = s
         /\ \A rep : r.reports = <<rep>> => Hear(s, e, r) = EngineFinished(s, rep)
<1>1. r.reports = <<>> => Hear(s, e, r) = s
  BY DEF Hear
<1>2. ASSUME NEW rep, r.reports = <<rep>> PROVE Hear(s, e, r) = EngineFinished(s, rep)
  <2>1. Len(<<rep>>) = 1 /\ <<rep>>[1] = rep
    OBVIOUS
  <2>2. Last(r.reports) = rep /\ Len(r.reports) > Len(e.reports)
    BY <1>2, <2>1 DEF Last
  <2> QED BY <2>2 DEF Hear
<1> QED BY <1>1, <1>2

LEMMA HearTells ==
  ASSUME NEW s, s.engine, NEW e, e.reports = <<>>, NEW r, NEW n, Tells(e, r, n)
  PROVE  IF r.notified
         THEN Hear(s, e, r) = s
         ELSE \E rep \in Report : /\ rep.sent = n /\ rep.total = e.nbrOfItems
                                  /\ Hear(s, e, r) = EngineFinished(s, rep)
BY HearReport DEF Tells

(* What is counted anew is gone, and was not before.                       *)
LEMMA GoneGrows ==
  ASSUME IsFiniteSet(Files), IInv, IInv', pipe.notified, disk' \subseteq disk, requested' = requested,
         NEW n, Tallied(n), NEW c \in Nat, c + pipe.sent <= Cardinality(Gone)
  PROVE  c + n <= Cardinality(Gone')
<1>1. requested = Pending \cup pipe.deleted
  BY Accounted DEF NoItemForgotten
<1>2. requested' = Pending' \cup pipe'.deleted /\ Pending' \cap pipe'.deleted = {}
  <2>1. IInv' => NoItemForgotten'
    BY Accounted, PTL
  <2> QED BY <2>1 DEF NoItemForgotten
<1>3. Pending' \subseteq Pending /\ pipe.current \in Pending
  BY <1>1, <1>2 DEF Tallied, Pending
<1>4. IsFiniteSet(Gone) /\ IsFiniteSet(Gone') /\ Cardinality(Gone) \in Nat /\ Cardinality(Gone') \in Nat
  <2>1. Gone \subseteq Files /\ Gone' \subseteq Files
    BY DEF Gone
  <2> QED BY <2>1, FS_Subset, FS_CardinalityType
<1>5. pipe.sent \in Nat
  BY DEF IInv, PipeInv, Sound, Pipe
<1>6. CASE n = pipe.sent
  <2>1. Gone \subseteq Gone'
    BY <1>3 DEF Gone
  <2>2. Cardinality(Gone) <= Cardinality(Gone')
    BY <1>4, <2>1, FS_Subset
  <2> QED BY <1>4, <1>5, <1>6, <2>2
<1>7. CASE /\ n = pipe.sent + 1
           /\ pipe.current \in (Files \cap pipe'.deleted) \ (disk' \cup pipe.deleted)
  <2>1. pipe.current \in Gone' /\ pipe.current \notin Gone
    BY <1>2, <1>3, <1>7 DEF Gone
  <2>2. Gone \cup {pipe.current} \subseteq Gone'
    BY <1>3, <2>1 DEF Gone
  <2>3. Cardinality(Gone \cup {pipe.current}) = Cardinality(Gone) + 1
    BY <1>4, <2>1, FS_AddElement
  <2>4. Cardinality(Gone \cup {pipe.current}) <= Cardinality(Gone')
    BY <1>4, <2>2, FS_Subset
  <2> QED BY <1>4, <1>5, <1>7, <2>3, <2>4
<1> QED BY <1>6, <1>7 DEF Tallied

LEMMA Fewer ==
  ASSUME IsFiniteSet(Files)
  PROVE  /\ Cardinality(Files \ disk) \in Nat
         /\ Cardinality(Gone) \in Nat
         /\ Cardinality(Gone) <= Cardinality(Files \ disk)
<1>1. IsFiniteSet(Files \ disk) /\ Gone \subseteq Files \ disk
  BY FS_Subset DEF Gone
<1> QED BY <1>1, FS_Subset, FS_CardinalityType

LEMMA FewerLater ==
  ASSUME IsFiniteSet(Files), disk' \subseteq disk
  PROVE  /\ Cardinality(Files \ disk') \in Nat
         /\ Cardinality(Gone') \in Nat
         /\ Cardinality(Gone') <= Cardinality(Files \ disk')
         /\ Cardinality(Files \ disk) <= Cardinality(Files \ disk')
<1>1. IsFiniteSet(Files \ disk') /\ Gone' \subseteq Files \ disk' /\ Files \ disk \subseteq Files \ disk'
  BY FS_Subset DEF Gone
<1> QED BY <1>1, FS_Subset, FS_CardinalityType

LEMMA BoundedGrows ==
  ASSUME NEW s \in Service, NEW m \in Nat, NEW n \in Nat, m <= n, Bounded(s, m)
  PROVE  Bounded(s, n)
BY DEF Bounded, Service

(* One step of the engine at work: the service hears of it, or not.        *)
LEMMA CountGoesOn ==
  ASSUME IsFiniteSet(Files), ServiceInv, SuccessInv, ~service.exiting, pipe.notified,
         IInv', disk' \subseteq disk, requested' = requested,
         NEW n, Tells(pipe, pipe', n), Tallied(n)
  PROVE  /\ pipe'.notified =>
              /\ service.uploadSuccessCount + pipe'.sent <= Cardinality(Gone')
              /\ Sent(pipe') \subseteq pipe'.deleted
              /\ Reads(pipe')
         /\ \A rep \in Report : rep.sent = n =>
              Bounded(EngineFinished(service, rep), Cardinality(Files \ disk'))
<1>1. IInv /\ service \in Service /\ service.uploadSuccessCount \in Nat /\ pipe.sent \in Nat
  BY WorkIsSound DEF ServiceInv, Service, IInv, PipeInv, Sound, Pipe
<1>2. service.uploadSuccessCount + n <= Cardinality(Gone')
  BY <1>1, GoneGrows DEF SuccessInv
<1>3. n \in Nat
  BY <1>1 DEF Tallied
<1>4. Sent(pipe') \subseteq pipe'.deleted
  BY DEF SuccessInv, Tallied
<1>5. pipe'.notified => pipe'.sent = n /\ Reads(pipe')
  BY DEF Tells
<1>6. /\ Bounded(service, Cardinality(Files \ disk'))
      /\ Cardinality(Files \ disk') \in Nat
      /\ service.uploadSuccessCount + n <= Cardinality(Files \ disk')
  <2>1. Bounded(service, Cardinality(Files \ disk'))
    BY <1>1, Fewer, FewerLater, BoundedGrows DEF SuccessInv
  <2> QED BY <1>1, <1>2, <1>3, <2>1, FewerLater
<1>7. ASSUME NEW rep \in Report, rep.sent = n
      PROVE  Bounded(EngineFinished(service, rep), Cardinality(Files \ disk'))
  <2> DEFINE N == Cardinality(Files \ disk')
  <2>1. Bounded(service, N) /\ service.uploadSuccessCount + rep.sent <= N /\ N \in Nat
    BY <1>6, <1>7
  <2> HIDE DEF N
  <2>2. Bounded(EngineFinished(service, rep), N)
    BY <1>1, <2>1, EngineFinishedTells
  <2> QED BY <2>2 DEF N
<1> QED BY <1>2, <1>4, <1>5, <1>7

LEMMA EventDisk == EngineEvent => disk' \subseteq disk
BY DEF EngineEvent, SessionSettles, SessionOpened, SessionError, SessionDisconnected, FileVanishes,
       Progress, NetworkAnswers, ReplyFinished, ReplyError, ReplyFinishedAfterError,
       ConnectionTimeout, Remaining

LEMMA EventSuccess ==
  ASSUME IsFiniteSet(Files), ServiceInv, SuccessInv, EngineEvent
  PROVE  SuccessInv'
<1>1. /\ ~service.exiting /\ IInv /\ AtWork(pipe, service, requested) /\ service \in Service
      /\ pipe \in Pipe /\ pipe.reports = <<>> /\ service' = Hear(service, pipe, pipe')
  BY WorkIsSound DEF EngineEvent, ServiceInv, AtWork, PipeInv, Sound
<1>2. IInv' /\ requested' = requested /\ disk' \subseteq disk
  BY <1>1, EventIsStep, EventDisk, NextInv
<1>3. CASE pipe.notified
  <2>1. service.engine
    BY <1>1, <1>3, NotifiedIsActive
  <2>2. PICK n : Tells(pipe, pipe', n) /\ Tallied(n)
    BY <1>1, <1>3, EventTells DEF SuccessInv
  <2>3. IF pipe'.notified
        THEN service' = service
        ELSE \E rep \in Report : rep.sent = n /\ service' = EngineFinished(service, rep)
    BY <1>1, <2>1, <2>2, HearTells
  <2>4. CASE pipe'.notified
    <3>1. Bounded(service, Cardinality(Files \ disk'))
      BY <1>1, <1>2, Fewer, FewerLater, BoundedGrows DEF SuccessInv
    <3>2. /\ service.uploadSuccessCount + pipe'.sent <= Cardinality(Gone')
          /\ Sent(pipe') \subseteq pipe'.deleted /\ Reads(pipe')
      BY <1>1, <1>2, <1>3, <2>2, <2>4, CountGoesOn
    <3>3. Reads(pipe)'
      BY <1>2, <3>2 DEF Reads
    <3> QED BY <2>3, <2>4, <3>1, <3>2, <3>3 DEF SuccessInv
  <2>5. CASE ~pipe'.notified
    <3>1. PICK rep \in Report : rep.sent = n /\ service' = EngineFinished(service, rep)
      BY <2>3, <2>5
    <3>2. service'.exiting
      BY <1>1, <3>1, EngineFinishedType
    <3>3. Bounded(service', Cardinality(Files \ disk'))
      BY <1>1, <1>2, <1>3, <2>2, <3>1, CountGoesOn
    <3> QED BY <3>2, <3>3 DEF SuccessInv
  <2> QED BY <2>4, <2>5
<1>4. CASE ~pipe.notified
  <2>1. pipe' = pipe
    BY <1>4, EventEffect
  <2>2. service' = service
    BY <1>1, <2>1, HearType
  <2>3. Pending' = Pending
    BY <2>1 DEF Pending
  <2>4. Gone \subseteq Gone' /\ IsFiniteSet(Gone')
    BY <1>2, <2>3, FS_Subset DEF Gone
  <2>5. Cardinality(Gone) <= Cardinality(Gone')
    BY <2>4, FS_Subset
  <2>6. Bounded(service, Cardinality(Files \ disk'))
    BY <1>1, <1>2, Fewer, FewerLater, BoundedGrows DEF SuccessInv
  <2>7. service.uploadSuccessCount + pipe.sent <= Cardinality(Gone')
    <3>1. service.uploadSuccessCount \in Nat /\ pipe.sent \in Nat
      BY <1>1 DEF Service, Pipe
    <3> QED BY <1>1, <1>2, <2>5, <3>1, Fewer, FewerLater DEF SuccessInv
  <2> QED BY <1>1, <1>4, <2>1, <2>2, <2>6, <2>7 DEF SuccessInv
<1> QED BY <1>3, <1>4

LEMMA QuitSuccess ==
  ASSUME IsFiniteSet(Files), ServiceInv, SuccessInv, Quit
  PROVE  SuccessInv'
<1> DEFINE s == [service EXCEPT !.activated = FALSE]
           t == Hear(s, pipe, pipe')
<1>1. /\ ~service.exiting /\ AtWork(pipe, service, requested) /\ service \in Service
      /\ pipe \in Pipe /\ pipe.reports = <<>>
      /\ service' = [t EXCEPT !.engine = FALSE, !.quitTimer = FALSE, !.exiting = TRUE]
      /\ disk' \subseteq disk /\ requested' = requested
  BY DEF Quit, ServiceInv, AtWork, PipeInv, Sound, Remaining
<1>2. IInv /\ IInv' /\ (pipe.notified => CancelAll)
  BY QuitIsCancelAll
<1>3. /\ s \in Service /\ s.success = service.success /\ s.savedCount = service.savedCount
      /\ s.uploadSuccessCount = service.uploadSuccessCount
  BY <1>1 DEF Service
<1>4. s.engine <=> service.engine
  BY <1>1 DEF Service
<1> DEFINE N == Cardinality(Files \ disk')
<1>5. Bounded(s, N) /\ N \in Nat
  <2>1. Bounded(s, Cardinality(Files \ disk))
    BY <1>3 DEF SuccessInv, Bounded
  <2> QED BY <1>1, <1>3, <2>1, Fewer, FewerLater, BoundedGrows
<1>6. t \in Service
  BY <1>1, <1>2, <1>3, HearType DEF IInv, PipeInv, Sound
<1> HIDE DEF s
<1>7. Bounded(t, N)
  <2>1. CASE pipe.notified
    <3>1. s.engine
      BY <1>1, <1>4, <2>1, NotifiedIsActive
    <3>2. PICK n : Tells(pipe, pipe', n) /\ Tallied(n)
      BY <1>1, <1>2, <2>1, CancelAllTells DEF SuccessInv
    <3>3. pipe'.notified => t = s
      BY <1>1, <1>3, <3>1, <3>2, HearTells
    <3>4. ~pipe'.notified => \E rep \in Report : rep.sent = n /\ t = EngineFinished(s, rep)
      BY <1>1, <1>3, <3>1, <3>2, HearTells
    <3>5. service.uploadSuccessCount + n <= N
      <4>1. service.uploadSuccessCount \in Nat /\ pipe.sent \in Nat
        BY <1>1 DEF Service, Pipe
      <4>2. n \in Nat
        BY <3>2, <4>1 DEF Tallied
      <4>3. service.uploadSuccessCount + n <= Cardinality(Gone')
        BY <1>1, <1>2, <2>1, <3>2, <4>1, GoneGrows DEF SuccessInv
      <4> QED BY <1>1, <1>5, <4>1, <4>2, <4>3, FewerLater
    <3> HIDE DEF t, N
    <3>6. \A rep \in Report : rep.sent = n => Bounded(EngineFinished(s, rep), N)
      BY <1>3, <1>5, <3>5, EngineFinishedTells
    <3> QED BY <1>5, <3>3, <3>4, <3>6
  <2>2. CASE ~pipe.notified
    <3>1. pipe.current = NoItem
      BY <1>1, <2>2, NotifiedIsActive DEF NewPipe
    <3>2. pipe' = pipe
      BY <3>1 DEF Quit
    <3>3. t = s
      BY <1>1, <1>3, <3>2, HearType
    <3> QED BY <1>5, <3>3
  <2> QED BY <2>1, <2>2
<1> HIDE DEF t
<1>8. /\ service'.exiting /\ service'.success = t.success
      /\ service'.uploadSuccessCount = t.uploadSuccessCount /\ service'.savedCount = t.savedCount
  BY <1>1, <1>6 DEF Service
<1>9. Cardinality(Files \ disk)' = N
  OBVIOUS
<1> QED BY <1>7, <1>8, <1>9 DEF SuccessInv, Bounded

LEMMA ExitSuccess ==
  ASSUME IsFiniteSet(Files), ServiceInv, SuccessInv, Exit
  PROVE  SuccessInv'
<1>1. /\ pipe' = NewPipe /\ disk' = disk
      /\ service' = NewService /\ service \in Service
  BY DEF Exit, ServiceInv
<1>2. /\ service'.uploadSuccessCount = service.savedCount /\ service'.savedCount = service.savedCount
      /\ service'.success = service.success
  BY <1>1 DEF NewService, Service
<1>3. /\ NewPipe.sent = 0 /\ ~NewPipe.notified /\ NewPipe.queue = <<>>
      /\ \A f \in Files : NewPipe.items[f].status = "Waiting"
  BY DEF NewPipe, NewItem
<1>4. Pending' = {} /\ Sent(pipe') = {}
  BY <1>1, <1>3, RangeOfEmpty DEF Pending, Sent
<1>5. Gone' = Files \ disk
  BY <1>1, <1>4 DEF Gone
<1>6. /\ service.success \in Nat /\ service.uploadSuccessCount \in Nat /\ service.savedCount \in Nat
      /\ service.success <= Cardinality(Files \ disk)
      /\ service.uploadSuccessCount <= Cardinality(Files \ disk)
      /\ service.savedCount <= service.uploadSuccessCount
      /\ Cardinality(Files \ disk) \in Nat
  BY <1>1, Fewer DEF Service, SuccessInv, Bounded
<1>7. service.savedCount <= Cardinality(Files \ disk) /\ service.savedCount <= service.savedCount
      /\ service.savedCount + 0 = service.savedCount
  BY <1>6
<1>8. Bounded(service', Cardinality(Files \ disk'))
  BY <1>1, <1>2, <1>6, <1>7 DEF Bounded
<1> QED BY <1>1, <1>2, <1>3, <1>4, <1>5, <1>7, <1>8 DEF SuccessInv

LEMMA DaemonStartedSuccess ==
  ASSUME IsFiniteSet(Files), ServiceInv, SuccessInv, DaemonStarted
  PROVE  SuccessInv'
<1> DEFINE n == IF Running THEN service.uploadSuccessCount ELSE 0
<1>1. service \in Service /\ UNCHANGED vars /\ service.uploadSuccessCount \in Nat
      /\ service.success \in Nat
  BY DEF ServiceInv, DaemonStarted, Service
<1>2. n \in Nat /\ n <= service.uploadSuccessCount
  BY <1>1
<1>3. service' = [service EXCEPT !.savedCount = 0, !.uploadSuccessCount = n]
  BY DEF DaemonStarted
<1> HIDE DEF n
<1>4. /\ service'.uploadSuccessCount = n /\ service'.savedCount = 0 /\ service'.success = service.success
      /\ service'.exiting <=> service.exiting
  BY <1>1, <1>3 DEF Service
<1>5. Gone' = Gone /\ disk' = disk /\ pipe' = pipe
  BY <1>1 DEF Gone, Pending, vars
<1>6. Cardinality(Gone) \in Nat /\ Cardinality(Files \ disk) \in Nat
  BY Fewer
<1>7. Bounded(service', Cardinality(Files \ disk'))
  BY <1>1, <1>2, <1>4, <1>5, <1>6 DEF SuccessInv, Bounded
<1>8. ~service.exiting => n + pipe.sent <= Cardinality(Gone)
  <2>1. ~service.exiting => pipe.sent \in Nat
    BY WorkIsSound DEF IInv, PipeInv, Sound, Pipe
  <2> QED BY <1>1, <1>2, <1>6, <2>1 DEF SuccessInv
<1> QED BY <1>4, <1>5, <1>7, <1>8 DEF SuccessInv, Reads

LEMMA RefuseUploadSuccess ==
  ASSUME ServiceInv, SuccessInv, RefuseUpload
  PROVE  SuccessInv'
<1> DEFINE s == [service EXCEPT !.activated = TRUE, !.engine = TRUE]
<1>1. ~service.exiting /\ service \in Service
  BY DEF RefuseUpload, ServiceInv
<1>2. /\ pipe' = pipe /\ service' = [s EXCEPT !.quitTimer = TRUE] /\ disk' = disk
  BY <1>1, ActivatedWorld DEF RefuseUpload
<1>3. /\ service'.success = service.success /\ service'.savedCount = service.savedCount
      /\ service'.uploadSuccessCount = service.uploadSuccessCount
  BY <1>1, <1>2 DEF Service
<1>4. Gone' = Gone
  BY <1>2 DEF Gone, Pending
<1> QED BY <1>1, <1>2, <1>3, <1>4 DEF SuccessInv, Bounded, Reads

(* The loop counts nothing: whoever fails in it has not sent anything.     *)
SuccessWorlds ==
  {x \in LoopWorlds :
     /\ x.added \subseteq requested \cup disk
     /\ Bounded(x.service, Cardinality(Files \ disk))
     /\ ~x.service.exiting =>
          /\ x.service.uploadSuccessCount = service.uploadSuccessCount
          /\ x.pipe.sent = pipe.sent
          /\ Sent(x.pipe) = Sent(pipe)
          /\ pipe.deleted \subseteq x.pipe.deleted
          /\ x.pipe.notified => Reads(x.pipe)}

LEMMA RoundCountsNothing ==
  ASSUME IsFiniteSet(Files), ServiceInv, SuccessInv, ~service.exiting,
         NEW x \in SuccessWorlds, NEW f \in Files \cap disk
  PROVE  AddFile(x, f) \subseteq SuccessWorlds
<1>1. /\ x \in LoopWorlds /\ x.service \in Service /\ x.pipe \in Pipe /\ f \in Files
      /\ Bounded(x.service, Cardinality(Files \ disk))
  BY DEF SuccessWorlds, LoopWorlds, World
<1>2. CASE f \in x.added
  BY <1>2 DEF AddFile
<1>3. CASE f \notin x.added
  <2>1. SUFFICES ASSUME NEW y \in AddFile(x, f) PROVE y \in SuccessWorlds
    OBVIOUS
  <2>2. PICK e \in EnqueueItem(x.pipe, f) :
          y = [pipe |-> e, service |-> Hear(x.service, x.pipe, e), added |-> x.added \cup {f}]
    BY <1>3 DEF AddFile
  <2>3. /\ y \in LoopWorlds /\ y.pipe = e /\ y.service = Hear(x.service, x.pipe, e)
        /\ y.added \subseteq requested \cup disk
    BY <1>1, <2>2, RoundKeeps DEF SuccessWorlds
  <2>4. CASE x.service.exiting
    <3>1. ~x.service.engine
      BY <1>1, <2>4 DEF LoopWorlds
    <3>2. y.service = x.service
      BY <2>3, <3>1 DEF Hear
    <3> QED BY <1>1, <2>3, <2>4, <3>2 DEF SuccessWorlds
  <2>5. CASE ~x.service.exiting
    <3>1. x.service.engine /\ AtWork(x.pipe, x.service, x.added) /\ x.pipe.reports = <<>>
      BY <1>1, <2>5 DEF LoopWorlds, AtWork
    <3>2. Enlists(x.pipe, f) /\ (x.pipe.notified => Reads(x.pipe))
      BY <1>3, <2>5, <3>1 DEF Enlists, AtWork, SuccessWorlds
    <3>3. IF e.notified
          THEN e.sent = x.pipe.sent /\ e.reports = <<>> /\ Reads(e)
          ELSE \E rep \in Report : e.reports = <<rep>> /\ rep.sent = x.pipe.sent
      BY <1>1, <3>1, <3>2, EnqueueItemTells
    <3>4. CASE e.notified
      <4>1. y.service = x.service
        BY <2>3, <3>1, <3>3, <3>4, HearReport
      <4>2. Sent(e) = Sent(x.pipe)
        <5>1. \A g \in Files \ {f} : e.items[g] = x.pipe.items[g]
          BY <3>2, EnqueueItemEffect
        <5>2. e.items[f] = x.pipe.items[f] \/ e.items[f] = StartUpload(x.pipe.items[f], f \in disk)
          BY <3>2, <3>4, EnqueueItemEffect
        <5>3. StartUpload(x.pipe.items[f], f \in disk).status # "Finished"
          BY DEF StartUpload
        <5>4. x.pipe.items[f].status # "Finished"
          BY <3>2 DEF Enlists, Untouched
        <5> QED BY <5>1, <5>2, <5>3, <5>4 DEF Sent
      <4>3. e.deleted = x.pipe.deleted
        BY <3>2, <3>4, EnqueueItemEffect
      <4> QED BY <1>1, <2>3, <2>5, <3>3, <3>4, <4>1, <4>2, <4>3 DEF SuccessWorlds
    <3>5. CASE ~e.notified
      <4>1. PICK rep \in Report : e.reports = <<rep>> /\ rep.sent = x.pipe.sent
        BY <3>3, <3>5
      <4>2. y.service = EngineFinished(x.service, rep)
        BY <2>3, <3>1, <4>1, HearReport
      <4>3. y.service.exiting
        BY <1>1, <4>2, EngineFinishedType
      <4>4. x.service.uploadSuccessCount + rep.sent <= Cardinality(Files \ disk)
        <5>1. /\ x.service.uploadSuccessCount = service.uploadSuccessCount /\ x.pipe.sent = pipe.sent
              /\ service.uploadSuccessCount + pipe.sent <= Cardinality(Gone)
          BY <2>5 DEF SuccessWorlds, SuccessInv
        <5>2. service.uploadSuccessCount \in Nat /\ pipe.sent \in Nat
          BY DEF ServiceInv, TypeOK, Service, Pipe
        <5> QED BY <4>1, <5>1, <5>2, Fewer
      <4> DEFINE N == Cardinality(Files \ disk)
      <4>5. N \in Nat /\ Bounded(x.service, N) /\ x.service.uploadSuccessCount + rep.sent <= N
        BY <1>1, <4>4, Fewer
      <4> HIDE DEF N
      <4>6. Bounded(y.service, N)
        BY <1>1, <4>2, <4>5, EngineFinishedTells
      <4> QED BY <2>3, <4>3, <4>6 DEF SuccessWorlds, N
    <3> QED BY <3>4, <3>5
  <2> QED BY <2>4, <2>5
<1> QED BY <1>2, <1>3

LEMMA ActivatedCounts ==
  ASSUME ServiceInv, SuccessInv, ~service.exiting
  PROVE  Activated \in SuccessWorlds
<1>1. /\ Activated.pipe = pipe /\ Activated.added = requested /\ Activated \in LoopWorlds
      /\ Activated.service = [service EXCEPT !.activated = TRUE, !.engine = TRUE]
  BY ActivatedWorld
<1>2. service \in Service
  BY DEF ServiceInv
<1>3. /\ Activated.service.success = service.success
      /\ Activated.service.savedCount = service.savedCount
      /\ Activated.service.uploadSuccessCount = service.uploadSuccessCount
  BY <1>1, <1>2 DEF Service
<1> QED BY <1>1, <1>3 DEF SuccessWorlds, SuccessInv, Bounded

\* What uploadFiles() ends in.
LEMMA UploadFilesLoop ==
  ASSUME IsFiniteSet(Files), ServiceInv, SuccessInv, NEW list \in Lists, NEW obey \in BOOLEAN,
         UploadFiles(list, obey)
  PROVE  /\ ~service.exiting /\ disk \subseteq Files
         /\ list \in Seq(Files) /\ Range(list) \subseteq Files \cap disk
         /\ \E w \in AddFiles(Activated, list) \cap SuccessWorlds :
              /\ pipe' = w.pipe /\ requested' = w.added
              /\ service' = [w.service EXCEPT !.progress = @ \/ Notifications]
              /\ UNCHANGED <<disk, answered>>
<1>1. ~service.exiting /\ disk \subseteq Files
  BY DEF UploadFiles, ServiceInv, TypeOK
<1>2. list \in Seq(Files) /\ Range(list) \subseteq Files \cap disk
  BY <1>1, ListsAreOfFiles
<1>3. Activated \in SuccessWorlds
  BY <1>1, ActivatedCounts
<1>4. \A x \in SuccessWorlds : \A f \in Range(list) : AddFile(x, f) \subseteq SuccessWorlds
  BY <1>1, <1>2, RoundCountsNothing
<1>5. AddFiles(Activated, list) \subseteq SuccessWorlds
  BY <1>2, <1>3, <1>4, LoopKeeps
<1> QED BY <1>1, <1>2, <1>5 DEF UploadFiles

LEMMA ProgressIsShown ==
  ASSUME NEW s \in Service, NEW t, t = [s EXCEPT !.progress = @ \/ Notifications]
  PROVE  /\ t.success = s.success /\ t.failed = s.failed
         /\ t.uploadSuccessCount = s.uploadSuccessCount /\ t.savedCount = s.savedCount
         /\ t.exiting <=> s.exiting
         /\ t.progress <=> s.progress \/ Notifications
<1> DEFINE p == s.progress \/ Notifications
<1>1. t = [s EXCEPT !.progress = p]
  OBVIOUS
<1>2. t.progress = p
  <2> HIDE DEF p
  <2> QED BY <1>1 DEF Service
<1>3. /\ t.success = s.success /\ t.failed = s.failed
      /\ t.uploadSuccessCount = s.uploadSuccessCount /\ t.savedCount = s.savedCount
      /\ t.exiting = s.exiting
  <2> HIDE DEF p
  <2> QED BY <1>1 DEF Service
<1> QED BY <1>2, <1>3

LEMMA UploadFilesSuccess ==
  ASSUME IsFiniteSet(Files), ServiceInv, SuccessInv, NEW list \in Lists, NEW obey \in BOOLEAN,
         UploadFiles(list, obey)
  PROVE  SuccessInv'
<1>1. PICK w \in SuccessWorlds :
        /\ pipe' = w.pipe /\ requested' = w.added
        /\ service' = [w.service EXCEPT !.progress = @ \/ Notifications]
        /\ disk' = disk
  BY UploadFilesLoop
<1>2. w \in LoopWorlds /\ w.service \in Service
  BY DEF SuccessWorlds, LoopWorlds, World
<1>3. /\ service'.success = w.service.success
      /\ service'.uploadSuccessCount = w.service.uploadSuccessCount
      /\ service'.savedCount = w.service.savedCount
      /\ service'.exiting <=> w.service.exiting
  BY <1>1, <1>2, ProgressIsShown
<1>4. Bounded(service', Cardinality(Files \ disk'))
  BY <1>1, <1>3 DEF SuccessWorlds, Bounded
<1>5. ASSUME ~service'.exiting
      PROVE  /\ service'.uploadSuccessCount + pipe'.sent <= Cardinality(Gone')
             /\ Sent(pipe') \subseteq pipe'.deleted
             /\ pipe'.notified => Reads(pipe)'
  <2>1. /\ ~service.exiting /\ ~w.service.exiting
        /\ w.service.uploadSuccessCount = service.uploadSuccessCount /\ w.pipe.sent = pipe.sent
        /\ Sent(w.pipe) = Sent(pipe) /\ pipe.deleted \subseteq w.pipe.deleted
        /\ w.pipe.notified => Reads(w.pipe)
        /\ w.added \subseteq requested \cup disk
    BY <1>3, <1>5, UploadFilesLoop DEF SuccessWorlds
  <2>2. Sent(pipe') \subseteq pipe'.deleted
    BY <1>1, <2>1 DEF SuccessInv
  <2>3. pipe'.notified => Reads(pipe)'
    BY <1>1, <2>1 DEF Reads
  <2>4. Gone \subseteq Gone'
    <3>1. requested = Pending \cup pipe.deleted
      BY <2>1, WorkIsSound, Accounted DEF NoItemForgotten
    <3>2. requested' = Pending' \cup pipe'.deleted /\ Pending' \cap pipe'.deleted = {}
      <4>1. ServiceInv' /\ ~service'.exiting
        BY <1>5, UploadFilesStep
      <4>2. IInv'
        BY <4>1 DEF ServiceInv, AtWork, IInv, TypeOK
      <4>3. IInv' => NoItemForgotten'
        BY Accounted, PTL
      <4> QED BY <4>1, <4>2, <4>3 DEF NoItemForgotten
    <3> QED BY <1>1, <2>1, <3>1, <3>2 DEF Gone
  <2>5. Cardinality(Gone) <= Cardinality(Gone')
    <3>1. IsFiniteSet(Gone')
      BY FS_Subset DEF Gone
    <3> QED BY <2>4, <3>1, FS_Subset
  <2>6. service.uploadSuccessCount + pipe.sent <= Cardinality(Gone')
    <3>1. service.uploadSuccessCount \in Nat /\ pipe.sent \in Nat
      BY DEF ServiceInv, TypeOK, Service, Pipe
    <3> QED BY <1>1, <2>1, <2>5, <3>1, Fewer, FewerLater DEF SuccessInv
  <2> QED BY <1>1, <1>3, <2>1, <2>2, <2>3, <2>6
<1> QED BY <1>4, <1>5 DEF SuccessInv

LEMMA SuccessStep ==
  ASSUME IsFiniteSet(Files), ServiceInv, SuccessInv, [ServiceNext]_allVars
  PROVE  SuccessInv'
<1>1. CASE UNCHANGED allVars
  BY <1>1 DEF allVars, vars, SuccessInv, Gone, Pending, Reads
<1> QED BY <1>1, UploadFilesSuccess, RefuseUploadSuccess, QuitSuccess, ExitSuccess,
           DaemonStartedSuccess, EventSuccess DEF ServiceNext

LEMMA SuccessInit ==
  ASSUME IsFiniteSet(Files), ServiceInit
  PROVE  SuccessInv
<1>1. /\ pipe = NewPipe /\ service.success = 0 /\ service.uploadSuccessCount = 0
      /\ service.savedCount = 0
  BY DEF ServiceInit, Init
<1>2. /\ NewPipe.sent = 0 /\ ~NewPipe.notified /\ NewPipe.queue = <<>>
      /\ \A f \in Files : NewPipe.items[f].status = "Waiting"
  BY DEF NewPipe, NewItem
<1>3. Sent(pipe) = {}
  BY <1>1, <1>2 DEF Sent
<1> QED BY <1>1, <1>2, <1>3, Fewer DEF SuccessInv, Bounded

THEOREM SuccessInvariance ==
  ASSUME IsFiniteSet(Files)
  PROVE  ServiceSpec => []SuccessInv
<1>1. ServiceInit => SuccessInv
  BY SuccessInit
<1>2. ServiceInv /\ SuccessInv /\ [ServiceNext]_allVars => SuccessInv'
  BY SuccessStep
<1>3. ServiceSpec => []ServiceInv
  BY ServiceInvariance
<1> QED BY <1>1, <1>2, <1>3, PTL DEF ServiceSpec

(* What no request has ended for, and no other process has removed, is     *)
(* still on the disk; and an item of an engine at work that has removed    *)
(* its file does not find it there.                                        *)
FilesKept ==
  /\ AnsweredOrKept
  /\ ~service.exiting => FilesInv

\* The loop of uploadFiles() removes nothing.
FilesWorlds ==
  {x \in LoopWorlds :
     ~x.service.exiting => \A f \in Files : x.pipe.items[f].removed => f \notin disk}

LEMMA RoundRemovesNothing ==
  ASSUME NEW x \in FilesWorlds, NEW f \in Files
  PROVE  AddFile(x, f) \subseteq FilesWorlds
<1>1. SUFFICES ASSUME NEW y \in AddFile(x, f), ~y.service.exiting, NEW g \in Files,
                      y.pipe.items[g].removed
               PROVE  g \notin disk
  BY RoundKeeps DEF FilesWorlds
<1>2. x \in LoopWorlds
  BY DEF FilesWorlds
<1>3. CASE f \in x.added
  BY <1>1, <1>3 DEF AddFile, FilesWorlds
<1>4. CASE f \notin x.added
  <2>1. PICK e \in EnqueueItem(x.pipe, f) :
          y = [pipe |-> e, service |-> Hear(x.service, x.pipe, e), added |-> x.added \cup {f}]
    BY <1>4 DEF AddFile
  <2>2. x.service.exiting => Hear(x.service, x.pipe, e) = x.service
    BY <1>2 DEF LoopWorlds, Hear
  <2>3. ~x.service.exiting /\ y.pipe = e
    BY <1>1, <2>1, <2>2
  <2>4. AtWork(x.pipe, x.service, x.added)
    BY <1>2, <2>3 DEF LoopWorlds
  <2>5. Enlists(x.pipe, f) /\ x.pipe.items[g] \in Item /\ ItemSound(x.pipe.items[g])
    BY <1>4, <2>4 DEF Enlists, AtWork, PipeInv, Sound, Pipe
  <2>6. \/ e.items[g] = x.pipe.items[g]
        \/ e.items[g] = StartUpload(x.pipe.items[g], g \in disk)
        \/ e.items[g] = Cancel(x.pipe.items[g])
    BY <2>5, EnqueueItemEffect
  <2>7. e.items[g].removed = x.pipe.items[g].removed
    BY <2>5, <2>6, StartHandler, CancelHandler
  <2> QED BY <1>1, <2>3, <2>7 DEF FilesWorlds
<1> QED BY <1>3, <1>4

LEMMA UploadFilesKept ==
  ASSUME IsFiniteSet(Files), ServiceInv, FilesKept, NEW list \in Lists, NEW obey \in BOOLEAN,
         UploadFiles(list, obey)
  PROVE  FilesKept'
<1>1. ~service.exiting /\ disk \subseteq Files /\ UNCHANGED <<disk, answered>>
  BY DEF UploadFiles, ServiceInv, TypeOK
<1>2. list \in Seq(Files) /\ Range(list) \subseteq Files
  BY <1>1, ListsAreOfFiles
<1>3. /\ Activated.pipe = pipe /\ Activated \in LoopWorlds
      /\ Activated.service = [service EXCEPT !.activated = TRUE, !.engine = TRUE]
      /\ service \in Service
  BY <1>1, ActivatedWorld DEF ServiceInv
<1>4. Activated \in FilesWorlds
  BY <1>1, <1>3 DEF FilesWorlds, FilesKept, FilesInv
<1>5. AddFiles(Activated, list) \subseteq FilesWorlds
  BY <1>2, <1>4, RoundRemovesNothing, LoopKeeps
<1>6. PICK w \in FilesWorlds :
        pipe' = w.pipe /\ service' = [w.service EXCEPT !.progress = @ \/ Notifications]
  BY <1>5 DEF UploadFiles
<1>7. w.service \in Service
  BY <1>6 DEF FilesWorlds, LoopWorlds, World
<1>8. service'.exiting <=> w.service.exiting
  BY <1>6, <1>7, ProgressIsShown
<1>9. ~service'.exiting => FilesInv'
  BY <1>1, <1>6, <1>8 DEF FilesWorlds, FilesInv
<1> QED BY <1>1, <1>9 DEF FilesKept, AnsweredOrKept

LEMMA FilesKeptStep ==
  ASSUME IsFiniteSet(Files), ServiceInv, FilesKept, [ServiceNext]_allVars
  PROVE  FilesKept'
<1>1. ASSUME IInv, ~service.exiting, [Next]_vars PROVE FilesKept'
  BY <1>1, FilesStep DEF FilesKept, AnsweredOrKept
<1>2. CASE EngineEvent
  BY <1>1, <1>2, EventIsStep, WorkIsSound DEF EngineEvent
<1>3. CASE Quit
  BY <1>1, <1>3, QuitIsCancelAll DEF Quit, Next
<1>4. CASE RefuseUpload
  <2>1. ~service.exiting /\ UNCHANGED <<pipe, disk, answered>>
    BY <1>4, ActivatedWorld DEF RefuseUpload
  <2> QED BY <2>1 DEF FilesKept, FilesInv, AnsweredOrKept
<1>5. CASE Exit
  <2>1. \A f \in Files : ~NewPipe.items[f].removed
    BY DEF NewPipe, NewItem
  <2> QED BY <1>5, <2>1 DEF Exit, FilesKept, FilesInv, AnsweredOrKept
<1>6. CASE DaemonStarted \/ UNCHANGED allVars
  <2>1. UNCHANGED <<pipe, disk, answered>> /\ (service'.exiting <=> service.exiting)
    <3>1. service \in Service
      BY DEF ServiceInv
    <3>2. CASE DaemonStarted
      <4> DEFINE n == IF Running THEN service.uploadSuccessCount ELSE 0
      <4>1. service' = [service EXCEPT !.savedCount = 0, !.uploadSuccessCount = n]
        BY <3>2 DEF DaemonStarted
      <4> HIDE DEF n
      <4> QED BY <3>1, <3>2, <4>1 DEF DaemonStarted, vars, Service
    <3> QED BY <1>6, <3>2 DEF allVars, vars
  <2> QED BY <2>1 DEF FilesKept, FilesInv, AnsweredOrKept
<1> QED BY <1>2, <1>3, <1>4, <1>5, <1>6, UploadFilesKept DEF ServiceNext

LEMMA FilesKeptInvariance ==
  ASSUME IsFiniteSet(Files)
  PROVE  ServiceSpec => []FilesKept
<1>1. ServiceInit => FilesKept
  BY DEF ServiceInit, Init, FilesKept, FilesInv, AnsweredOrKept, NewPipe, NewItem
<1>2. ServiceInv /\ FilesKept /\ [ServiceNext]_allVars => FilesKept'
  BY FilesKeptStep
<1>3. ServiceSpec => []ServiceInv
  BY ServiceInvariance
<1> QED BY <1>1, <1>2, <1>3, PTL DEF ServiceSpec

(* The notification of success never claims more uploads than there are    *)
(* reports answered for or removed by another process: over all the        *)
(* processes of the service, restarts of the daemon, requests that fail at *)
(* once, and notifications that are switched off.                          *)
THEOREM SuccessIsTrue ==
  ASSUME IsFiniteSet(Files)
  PROVE  ServiceSpec => []SuccessIsNotInflated
<1>1. SuccessInv /\ ServiceInv /\ FilesKept => SuccessIsNotInflated
  <2> SUFFICES ASSUME SuccessInv, ServiceInv, FilesKept PROVE SuccessIsNotInflated
    OBVIOUS
  <2> DEFINE U == answered \cup (Vanishing \ disk)
  <2>1. Files \ disk \subseteq U /\ U \subseteq Files
    BY EngineAssumption DEF FilesKept, AnsweredOrKept, ServiceInv, TypeOK
  <2> HIDE DEF U
  <2>2. Cardinality(Files \ disk) <= Cardinality(U) /\ Cardinality(U) \in Nat
        /\ Cardinality(Files \ disk) \in Nat
    BY <2>1, FS_Subset, FS_CardinalityType
  <2>3. service.success <= Cardinality(Files \ disk) /\ service.success \in Nat
    BY DEF SuccessInv, Bounded, ServiceInv, Service
  <2> QED BY <2>2, <2>3 DEF SuccessIsNotInflated, U
<1>2. (ServiceSpec => []SuccessInv) /\ (ServiceSpec => []ServiceInv) /\ (ServiceSpec => []FilesKept)
  BY SuccessInvariance, ServiceInvariance, FilesKeptInvariance
<1> QED BY <1>1, <1>2, PTL

-----------------------------------------------------------------------------
(* What the user is told of the others                                     *)

(* While the engine is at work it has counted what has been sent and what  *)
(* has been requested; then the user has been told.                        *)
ShownInv ==
  /\ CountInv
  /\ FailuresAreShown
  /\ service.progress => Notifications
  /\ IF service.exiting
     THEN ~service.progress
     ELSE /\ service.progress => pipe.notified
          /\ pipe.sent = Cardinality(Sent(pipe))
          /\ pipe.nbrOfItems = Cardinality(requested)

(* What is shown of a batch R of which S has been sent.                    *)
LEMMA ReportIsShown ==
  ASSUME IsFiniteSet(Files), NEW R \in SUBSET Files, NEW S \in SUBSET R,
         NEW s \in Service, s.progress => Notifications, NEW rep \in Report,
         rep.sent = Cardinality(S), rep.total = Cardinality(R)
  PROVE  LET t == EngineFinished(s, rep)
         IN  ~t.progress /\ (Notifications => t.failed = Cardinality(R \ S))
<1>1. IsFiniteSet(R) /\ IsFiniteSet(S) /\ R \cap S = S
  BY FS_Subset
<1>2. Cardinality(R) \in Nat /\ Cardinality(S) \in Nat /\ Cardinality(S) <= Cardinality(R)
  BY <1>1, FS_Subset, FS_CardinalityType
<1>3. Cardinality(R \ S) = Cardinality(R) - Cardinality(R \cap S)
  <2>1. IsFiniteSet(R)
    BY <1>1
  <2> QED BY <2>1, FS_Difference, Zenon
<1>4. (IF rep.total > rep.sent THEN rep.total - rep.sent ELSE 0) = Cardinality(R \ S)
  BY <1>1, <1>2, <1>3
<1> QED BY <1>4, EngineFinishedTells

LEMMA TalliedIsSent ==
  ASSUME IsFiniteSet(Files), Sent(pipe) \subseteq pipe.deleted, pipe.sent = Cardinality(Sent(pipe)),
         NEW n, Tallied(n)
  PROVE  n = Cardinality(Sent(pipe')) /\ Sent(pipe') \subseteq pipe'.deleted
<1>1. IsFiniteSet(Sent(pipe))
  BY FS_Subset DEF Sent
<1> QED BY <1>1, FS_AddElement DEF Tallied

(* The engine reports: the failures on the screen are those of the batch.  *)
LEMMA ReportedFailures ==
  ASSUME IsFiniteSet(Files), IInv', ShownInv, ~service.exiting, Sent(pipe) \subseteq pipe.deleted,
         requested' = requested, batch' = requested,
         NEW n, Tallied(n), NEW s \in Service, s.progress <=> service.progress,
         NEW rep \in Report, rep.sent = n, rep.total = pipe.nbrOfItems
  PROVE  LET t == EngineFinished(s, rep)
         IN  /\ ~t.progress
             /\ Notifications =>
                  t.failed = Cardinality({f \in batch' : pipe'.items[f].status # "Finished"})
<1>1. rep.sent = Cardinality(Sent(pipe')) /\ Sent(pipe') \subseteq pipe'.deleted
  BY TalliedIsSent DEF ShownInv
<1>2. rep.total = Cardinality(requested)
  BY DEF ShownInv
<1>3. requested \subseteq Files /\ pipe'.deleted \subseteq requested
  BY DEF IInv, Tracked
<1>4. {f \in batch' : pipe'.items[f].status # "Finished"} = requested \ Sent(pipe')
  BY <1>3 DEF Sent
<1>5. requested \in SUBSET Files /\ Sent(pipe') \in SUBSET requested
  BY <1>1, <1>3
<1>6. s.progress => Notifications
  BY DEF ShownInv
<1> DEFINE S == Sent(pipe')
<1>7. S \in SUBSET requested /\ rep.sent = Cardinality(S)
  BY <1>1, <1>5
<1>8. {f \in batch' : pipe'.items[f].status # "Finished"} = requested \ S
  BY <1>4
<1> HIDE DEF S
<1>9. /\ ~EngineFinished(s, rep).progress
      /\ Notifications => EngineFinished(s, rep).failed = Cardinality(requested \ S)
  BY <1>2, <1>5, <1>6, <1>7, ReportIsShown
<1> QED BY <1>8, <1>9

LEMMA EventShown ==
  ASSUME ~SyncErrors, Vanishing = {}, IsFiniteSet(Files), ServiceInv, FilesKept, SuccessInv, ShownInv,
         EngineEvent
  PROVE  ShownInv'
<1>1. /\ ~service.exiting /\ IInv /\ AtWork(pipe, service, requested) /\ service \in Service
      /\ pipe \in Pipe /\ pipe.reports = <<>> /\ service' = Hear(service, pipe, pipe')
      /\ batch = requested
  BY WorkIsSound DEF EngineEvent, ServiceInv, AtWork, PipeInv, Sound
<1>2. IInv' /\ UNCHANGED <<requested, batch>> /\ Next
  BY <1>1, EventIsStep, NextInv
<1>3. CountInv'
  <2>1. WorkGoesOn
    BY <1>1 DEF EngineEvent, WorkGoesOn, FileVanishes
  <2> QED BY <1>1, <1>2, <2>1, CountStep DEF ShownInv, FilesKept
<1>4. Sent(pipe) \subseteq pipe.deleted
  BY <1>1 DEF SuccessInv
<1>5. CASE pipe.notified
  <2>1. service.engine
    BY <1>1, <1>5, NotifiedIsActive
  <2>2. PICK n : Tells(pipe, pipe', n) /\ Tallied(n)
    BY <1>1, <1>5, EventTells DEF SuccessInv
  <2>3. CASE pipe'.notified
    <3>1. service' = service
      BY <1>1, <2>1, <2>2, <2>3, HearTells
    <3>2. pipe'.sent = n /\ pipe'.nbrOfItems = pipe.nbrOfItems
      BY <2>2, <2>3 DEF Tells
    <3>3. n = Cardinality(Sent(pipe'))
      BY <1>1, <1>4, <2>2, TalliedIsSent DEF ShownInv
    <3>4. FailuresAreShown'
      BY <1>1, <3>1 DEF FailuresAreShown
    <3> QED BY <1>1, <1>2, <1>3, <2>3, <3>1, <3>2, <3>3, <3>4 DEF ShownInv
  <2>4. CASE ~pipe'.notified
    <3>1. PICK rep \in Report : /\ rep.sent = n /\ rep.total = pipe.nbrOfItems
                                /\ service' = EngineFinished(service, rep)
      BY <1>1, <2>1, <2>2, <2>4, HearTells
    <3>2. service'.exiting
      BY <1>1, <3>1, EngineFinishedType
    <3>3. /\ ~service'.progress
          /\ Notifications =>
               service'.failed = Cardinality({f \in batch' : pipe'.items[f].status # "Finished"})
      BY <1>1, <1>2, <1>4, <2>2, <3>1, ReportedFailures
    <3> QED BY <1>3, <3>2, <3>3 DEF ShownInv, FailuresAreShown
  <2> QED BY <2>3, <2>4
<1>6. CASE ~pipe.notified
  <2>1. pipe' = pipe
    BY <1>6, EventEffect
  <2>2. service' = service
    BY <1>1, <2>1, HearType
  <2>3. FailuresAreShown'
    BY <1>1, <2>2 DEF FailuresAreShown
  <2> QED BY <1>1, <1>2, <1>3, <2>1, <2>2, <2>3 DEF ShownInv
<1> QED BY <1>5, <1>6

LEMMA QuitShown ==
  ASSUME ~SyncErrors, Vanishing = {}, IsFiniteSet(Files), ServiceInv, FilesKept, SuccessInv, ShownInv,
         Quit
  PROVE  ShownInv'
<1> DEFINE s == [service EXCEPT !.activated = FALSE]
           t == Hear(s, pipe, pipe')
<1>1. /\ ~service.exiting /\ AtWork(pipe, service, requested) /\ service \in Service
      /\ pipe \in Pipe /\ pipe.reports = <<>>
      /\ service' = [t EXCEPT !.engine = FALSE, !.quitTimer = FALSE, !.exiting = TRUE]
      /\ UNCHANGED <<requested, batch>> /\ batch = requested
  BY DEF Quit, ServiceInv, AtWork, PipeInv, Sound
<1>2. IInv /\ IInv' /\ [CancelAll]_vars /\ (pipe.notified => CancelAll)
  BY QuitIsCancelAll
<1>3. CountInv'
  <2>1. CASE pipe.notified
    BY <1>1, <1>2, <2>1, CountStep DEF ShownInv, WorkGoesOn, FilesKept
  <2>2. CASE ~pipe.notified
    <3>1. \A f \in Files : ~pipe.items[f].removed
      BY <1>1, <2>2, NotifiedIsActive DEF NewPipe, NewItem
    <3>2. pipe' = pipe /\ disk' = disk
      <4>1. pipe.current = NoItem
        BY <1>1, <2>2, NotifiedIsActive DEF NewPipe
      <4> QED BY <1>2, <3>1, <4>1 DEF Quit, Remaining, IInv
    <3> QED BY <3>2 DEF ShownInv, CountInv, Pending
  <2> QED BY <2>1, <2>2
<1>4. s \in Service
  BY <1>1 DEF Service
<1>5. s.engine <=> service.engine
  BY <1>1 DEF Service
<1>6. s.progress <=> service.progress
  BY <1>1 DEF Service
<1>7. t \in Service
  BY <1>1, <1>2, <1>4, HearType DEF IInv, PipeInv, Sound
<1> HIDE DEF s
<1>8. /\ ~t.progress
      /\ Notifications /\ batch' # {} =>
           t.failed = Cardinality({f \in batch' : pipe'.items[f].status # "Finished"})
  <2>1. CASE pipe.notified
    <3>1. s.engine
      BY <1>1, <1>5, <2>1, NotifiedIsActive
    <3>2. PICK n : Tells(pipe, pipe', n) /\ Tallied(n)
      BY <1>1, <1>2, <2>1, CancelAllTells DEF SuccessInv
    <3>3. ~pipe'.notified
      <4>1. Uploading(pipe) /\ pipe' \in CancelCurrent(pipe)
        BY <1>2, <2>1 DEF IInv, PipeInv, CancelAll
      <4>2. Owing(pipe) /\ UnderWay(pipe)
        BY <2>1 DEF ShownInv, CountInv, Counted
      <4>3. pipe.nbrOfItems > pipe.sent
        BY <1>1, <4>2, SomethingOwed
      <4> QED BY <1>1, <4>1, <4>2, <4>3, CancelCurrentCounts DEF Uploading
    <3>4. PICK rep \in Report : /\ rep.sent = n /\ rep.total = pipe.nbrOfItems
                                /\ t = EngineFinished(s, rep)
      BY <1>1, <3>1, <3>2, <3>3, HearTells
    <3>5. Sent(pipe) \subseteq pipe.deleted
      BY <1>1 DEF SuccessInv
    <3> HIDE DEF t
    <3> QED BY <1>1, <1>2, <1>4, <1>6, <3>2, <3>4, <3>5, ReportedFailures
  <2>2. CASE ~pipe.notified
    <3>1. pipe.current = NoItem /\ requested = {}
      BY <1>1, <2>2, NotifiedIsActive DEF NewPipe
    <3>2. pipe' = pipe
      BY <3>1 DEF Quit
    <3>3. t = s
      BY <1>1, <1>4, <3>2, HearType
    <3> QED BY <1>1, <1>6, <2>2, <3>1, <3>3 DEF ShownInv
  <2> QED BY <2>1, <2>2
<1> HIDE DEF t
<1>9. service'.exiting /\ service'.failed = t.failed
  BY <1>1, <1>7 DEF Service
<1>10. service'.progress <=> t.progress
  BY <1>1, <1>7 DEF Service
<1> QED BY <1>3, <1>8, <1>9, <1>10 DEF ShownInv, FailuresAreShown

LEMMA ExitShown ==
  ASSUME ServiceInv, ShownInv, Exit
  PROVE  ShownInv'
<1>1. /\ pipe' = NewPipe /\ requested' = {} /\ batch' = {}
      /\ service' = NewService /\ service \in Service /\ service.exiting
  BY DEF Exit, ServiceInv
<1>2. ~service'.exiting
  BY <1>1 DEF NewService, Service
<1>3. service'.progress <=> service.progress
  BY <1>1 DEF NewService, Service
<1>4. /\ NewPipe.sent = 0 /\ ~NewPipe.notified /\ NewPipe.queue = <<>> /\ NewPipe.nbrOfItems = 0
      /\ NewPipe.reports = <<>> /\ NewPipe.error = "NoError"
      /\ \A f \in Files : NewPipe.items[f].status = "Waiting"
  BY DEF NewPipe, NewItem
<1>5. Pending' = {} /\ Sent(pipe') = {}
  BY <1>1, <1>4, RangeOfEmpty DEF Pending, Sent
<1>6. CountInv'
  BY <1>1, <1>4, <1>5 DEF CountInv, Counted
<1>7. Cardinality({}) = 0
  BY FS_EmptySet
<1> QED BY <1>1, <1>2, <1>3, <1>4, <1>5, <1>6, <1>7 DEF ShownInv, FailuresAreShown

LEMMA DaemonStartedShown ==
  ASSUME ServiceInv, ShownInv, DaemonStarted
  PROVE  ShownInv'
<1> DEFINE n == IF Running THEN service.uploadSuccessCount ELSE 0
<1>1. service \in Service /\ UNCHANGED <<pipe, disk, answered, requested, batch>>
  BY DEF ServiceInv, DaemonStarted, vars
<1>2. service' = [service EXCEPT !.savedCount = 0, !.uploadSuccessCount = n]
  BY DEF DaemonStarted
<1> HIDE DEF n
<1>3. /\ service'.failed = service.failed
      /\ service'.exiting <=> service.exiting
      /\ service'.progress <=> service.progress
  BY <1>1, <1>2 DEF Service
<1>4. CountInv'
  BY <1>1 DEF ShownInv, CountInv, Counted, Owing, UnderWay, Pending
<1> QED BY <1>1, <1>3, <1>4 DEF ShownInv, FailuresAreShown, Sent

LEMMA RefuseUploadShown ==
  ASSUME ServiceInv, ShownInv, RefuseUpload
  PROVE  ShownInv'
<1> DEFINE s == [service EXCEPT !.activated = TRUE, !.engine = TRUE]
<1>1. ~service.exiting /\ service \in Service
  BY DEF RefuseUpload, ServiceInv
<1>2. /\ service' = [s EXCEPT !.quitTimer = TRUE] /\ UNCHANGED <<pipe, disk, requested>>
  BY <1>1, ActivatedWorld DEF RefuseUpload
<1>3. /\ ~service'.exiting
      /\ service'.progress <=> service.progress
  BY <1>1, <1>2 DEF Service
<1>4. CountInv'
  BY <1>2 DEF ShownInv, CountInv, Counted, Owing, UnderWay, Pending
<1> QED BY <1>1, <1>2, <1>3, <1>4 DEF ShownInv, FailuresAreShown, Sent

(* The loop, with a network that does not fail at once: the engine is at   *)
(* work from the first file on.                                            *)
ShownWorlds ==
  {x \in SuccessWorlds :
     /\ ~x.service.exiting
     /\ x.service = Activated.service
     /\ Counted(x.pipe)
     /\ x.pipe.nbrOfItems = Cardinality(x.added)}

LEMMA RoundShows ==
  ASSUME ~SyncErrors, IsFiniteSet(Files), ServiceInv, SuccessInv, ~service.exiting,
         NEW x \in ShownWorlds, NEW f \in Files \cap disk
  PROVE  AddFile(x, f) \subseteq ShownWorlds
<1>1. /\ x \in SuccessWorlds /\ x \in LoopWorlds /\ x.pipe \in Pipe /\ x.added \subseteq Files
      /\ ~x.service.exiting /\ Counted(x.pipe) /\ f \in Files /\ f \in disk
      /\ x.service = Activated.service /\ x.pipe.nbrOfItems = Cardinality(x.added)
  BY DEF ShownWorlds, SuccessWorlds, LoopWorlds, World
<1>2. CASE f \in x.added
  BY <1>2 DEF AddFile
<1>3. CASE f \notin x.added
  <2>1. SUFFICES ASSUME NEW y \in AddFile(x, f) PROVE y \in ShownWorlds
    OBVIOUS
  <2>2. PICK e \in EnqueueItem(x.pipe, f) :
          y = [pipe |-> e, service |-> Hear(x.service, x.pipe, e), added |-> x.added \cup {f}]
    BY <1>3 DEF AddFile
  <2>3. /\ y \in SuccessWorlds /\ y.pipe = e /\ y.service = Hear(x.service, x.pipe, e)
        /\ y.added = x.added \cup {f}
    BY <1>1, <2>2, RoundCountsNothing
  <2>4. x.service.engine /\ AtWork(x.pipe, x.service, x.added) /\ x.pipe.reports = <<>>
    BY <1>1 DEF LoopWorlds, AtWork
  <2>5. Enlists(x.pipe, f) /\ (x.pipe.notified => Reads(x.pipe))
    BY <1>1, <1>3, <2>4 DEF Enlists, AtWork, SuccessWorlds
  <2>6. Counted(e) /\ e.notified /\ e.reports = <<>>
    BY <1>1, <2>4, <2>5, EnqueueItemCounts
  <2>7. y.service = x.service
    BY <2>3, <2>4, <2>6, HearReport
  <2>8. e.nbrOfItems = (IF x.pipe.notified THEN x.pipe.nbrOfItems ELSE 0) + 1
    BY <1>1, <2>4, <2>5, <2>6, EnqueueItemTells
  <2>9. ~x.pipe.notified => x.pipe.nbrOfItems = 0
    BY <2>4 DEF AtWork, NewPipe
  <2>10. e.nbrOfItems = Cardinality(x.added \cup {f})
    <3>1. IsFiniteSet(x.added)
      BY <1>1, FS_Subset
    <3>2. e.nbrOfItems = x.pipe.nbrOfItems + 1
      BY <2>8, <2>9
    <3>3. Cardinality(x.added \cup {f}) = Cardinality(x.added) + 1
      BY <1>3, <3>1, FS_AddElement, Zenon
    <3> QED BY <1>1, <3>2, <3>3
  <2> QED BY <1>1, <2>3, <2>6, <2>7, <2>10 DEF ShownWorlds
<1> QED BY <1>2, <1>3

LEMMA UploadFilesShown ==
  ASSUME ~SyncErrors, IsFiniteSet(Files), ServiceInv, SuccessInv, ShownInv,
         NEW list \in Lists, list # <<>>, NEW obey \in BOOLEAN, UploadFiles(list, obey)
  PROVE  ShownInv'
<1>1. /\ ~service.exiting /\ disk \subseteq Files /\ list \in Seq(Files)
      /\ Range(list) \subseteq Files \cap disk
  BY UploadFilesLoop
<1>2. /\ Activated.pipe = pipe /\ Activated.added = requested /\ Activated \in LoopWorlds
      /\ Activated.service = [service EXCEPT !.activated = TRUE, !.engine = TRUE]
      /\ service \in Service
  BY <1>1, ActivatedWorld DEF ServiceInv
<1>3. ~Activated.service.exiting
  BY <1>1, <1>2 DEF Service
<1>4. Activated \in ShownWorlds
  BY <1>1, <1>2, <1>3, ActivatedCounts DEF ShownWorlds, ShownInv, CountInv
<1>5. \A x \in ShownWorlds : \A f \in Range(list) : AddFile(x, f) \subseteq ShownWorlds
  BY <1>1, RoundShows
<1>6. AddFiles(Activated, list) \subseteq ShownWorlds
  BY <1>1, <1>4, <1>5, LoopKeeps
<1>7. PICK w \in AddFiles(Activated, list) :
        /\ pipe' = w.pipe /\ requested' = w.added
        /\ service' = [w.service EXCEPT !.progress = @ \/ Notifications]
        /\ disk' = disk
  BY UploadFilesLoop
<1>8. w \in ShownWorlds /\ w \in SuccessWorlds /\ w \in LoopWorlds /\ w.service \in Service
  BY <1>6, <1>7 DEF ShownWorlds, SuccessWorlds, LoopWorlds, World
<1>9. /\ ~service'.exiting
      /\ service'.progress <=> service.progress \/ Notifications
  <2>1. w.service = Activated.service
    BY <1>8 DEF ShownWorlds
  <2>2. w.service.progress <=> service.progress
    BY <1>2, <2>1 DEF Service
  <2> QED BY <1>7, <1>8, <2>2, ProgressIsShown DEF ShownWorlds
<1>10. service'.progress => Notifications
  BY <1>9 DEF ShownInv
<1>11. pipe'.notified
  <2>1. Range(list) \subseteq w.added
    BY <1>1, <1>2, <1>7, LoopAdds
  <2>2. list[1] \in Range(list)
    BY <1>1 DEF Range
  <2>3. AtWork(w.pipe, w.service, w.added)
    BY <1>8 DEF ShownWorlds, LoopWorlds
  <2>4. ~w.pipe.notified => w.added = {}
    BY <2>3, NewPipeSound DEF AtWork
  <2> QED BY <1>7, <2>1, <2>2, <2>4
<1>12. CountInv'
  <2>1. Counted(pipe')
    BY <1>7, <1>8 DEF ShownWorlds
  <2>2. /\ requested' \subseteq requested \cup disk
        /\ pipe.deleted \subseteq pipe'.deleted
    BY <1>7, <1>8 DEF ShownWorlds, SuccessWorlds
  <2>3. requested = Pending \cup pipe.deleted
    BY <1>1, WorkIsSound, Accounted DEF NoItemForgotten
  <2>4. requested' = Pending' \cup pipe'.deleted /\ Pending' \cap pipe'.deleted = {}
    <3>1. ServiceInv' /\ ~service'.exiting
      BY <1>9, UploadFilesStep
    <3>2. IInv'
      BY <3>1 DEF ServiceInv, AtWork, IInv, TypeOK
    <3>3. IInv' => NoItemForgotten'
      BY Accounted, PTL
    <3> QED BY <3>2, <3>3 DEF NoItemForgotten
  <2>5. Pending' \subseteq disk'
    BY <1>7, <2>2, <2>3, <2>4 DEF ShownInv, CountInv
  <2> QED BY <2>1, <2>5 DEF CountInv
<1>13. pipe'.sent = Cardinality(Sent(pipe')) /\ pipe'.nbrOfItems = Cardinality(requested')
  <2>1. w.pipe.sent = pipe.sent /\ Sent(w.pipe) = Sent(pipe)
    BY <1>8 DEF ShownWorlds, SuccessWorlds
  <2>2. pipe.sent = Cardinality(Sent(pipe))
    BY <1>1 DEF ShownInv
  <2> QED BY <1>7, <1>8, <2>1, <2>2 DEF ShownWorlds
<1>14. FailuresAreShown'
  BY <1>9 DEF FailuresAreShown
<1> QED BY <1>9, <1>10, <1>11, <1>12, <1>13, <1>14 DEF ShownInv

LEMMA ShownStep ==
  ASSUME ~SyncErrors, Vanishing = {}, IsFiniteSet(Files), ServiceInv, FilesKept, SuccessInv, ShownInv,
         [ServiceNext]_allVars
  PROVE  ShownInv'
<1>1. CASE UNCHANGED allVars
  BY <1>1 DEF allVars, vars, ShownInv, CountInv, Counted, Owing, UnderWay, Pending,
              FailuresAreShown, Sent
<1> QED BY <1>1, UploadFilesShown, RefuseUploadShown, QuitShown, ExitShown, DaemonStartedShown,
           EventShown DEF ServiceNext

LEMMA ShownInit ==
  ASSUME ServiceInit
  PROVE  ShownInv
<1>1. /\ pipe = NewPipe /\ requested = {} /\ ~service.exiting /\ ~service.progress
  BY DEF ServiceInit, Init
<1>2. /\ NewPipe.sent = 0 /\ ~NewPipe.notified /\ NewPipe.queue = <<>> /\ NewPipe.nbrOfItems = 0
      /\ NewPipe.reports = <<>> /\ NewPipe.error = "NoError"
      /\ \A f \in Files : NewPipe.items[f].status = "Waiting"
  BY DEF NewPipe, NewItem
<1>3. Pending = {} /\ Sent(pipe) = {}
  BY <1>1, <1>2, RangeOfEmpty DEF Pending, Sent
<1>4. CountInv
  BY <1>1, <1>2, <1>3 DEF CountInv, Counted
<1>5. Cardinality({}) = 0
  BY FS_EmptySet
<1> QED BY <1>1, <1>2, <1>3, <1>4, <1>5 DEF ShownInv, FailuresAreShown

THEOREM ShownInvariance ==
  ASSUME ~SyncErrors, Vanishing = {}, IsFiniteSet(Files)
  PROVE  ServiceSpec => []ShownInv
<1>1. ServiceInit => ShownInv
  BY ShownInit
<1>2. ServiceInv /\ FilesKept /\ SuccessInv /\ ShownInv /\ [ServiceNext]_allVars => ShownInv'
  BY ShownStep
<1>3. /\ (ServiceSpec => []ServiceInv) /\ (ServiceSpec => []FilesKept)
      /\ (ServiceSpec => []SuccessInv)
  BY ServiceInvariance, FilesKeptInvariance, SuccessInvariance
<1> QED BY <1>1, <1>2, <1>3, PTL DEF ServiceSpec

(* When the service quits, what is on the screen as failed is the number   *)
(* of reports of its batch that have not been sent, wherever the batch was *)
(* interrupted: nothing the queue counted is shown twice or left out.      *)
THEOREM FailuresAreTrue ==
  ASSUME ~SyncErrors, Vanishing = {}, IsFiniteSet(Files)
  PROVE  ServiceSpec => []FailuresAreShown
<1>1. ShownInv => FailuresAreShown
  BY DEF ShownInv
<1>2. ServiceSpec => []ShownInv
  BY ShownInvariance
<1> QED BY <1>1, <1>2, PTL

(* The error the service hears of tells whether all has been sent, in      *)
(* every process of the service and not only for one engine on its own.    *)
THEOREM ServiceHearsTheTruth ==
  ASSUME ~SyncErrors, Vanishing = {}, IsFiniteSet(Files)
  PROVE  ServiceSpec => []ErrorIffIncomplete
<1>1. ShownInv => ErrorIffIncomplete
  BY DEF ShownInv, CountInv, Counted, Honest, ErrorIffIncomplete
<1>2. ServiceSpec => []ShownInv
  BY ShownInvariance
<1> QED BY <1>1, <1>2, PTL
=============================================================================
