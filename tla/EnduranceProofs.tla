---------------------------- MODULE EnduranceProofs ----------------------------
(***************************************************************************)
(* Proofs about the endurance collector, for any number of boots and of    *)
(* snapshots, wherever the daemon or its script is interrupted.            *)
(***************************************************************************)
EXTENDS Endurance, TLAPS

\* The descriptor fd is ready, or was when the pass began.
Due(fd) == fd \in kernel.ready \/ fd \in daemon.fdset

(* A daemon that is gone, or waits for the device to have booted, has      *)
(* nothing running, set or due.                                            *)
RestInv ==
  /\ daemon.pc = "off" => daemon = Gone /\ kernel = Closed
  /\ daemon.pc = "delay" => /\ daemon.child_pid = "0" /\ daemon.fdset = {}
                            /\ kernel = Closed /\ script.pc = "none"

(* Why no pass begins and ends a collection: the next heartbeat is asked   *)
(* for when the child has exited, so while there is one none is due.       *)
ChildInv ==
  /\ script.pc # "none" /\ daemon.pc # "off" =>
       daemon.child_pid = "child" /\ mce /\ kernel.timer /\ ~Due("childexit")
  /\ Due("childexit") => daemon.child_pid = "child"
  /\ daemon.child_pid = "0" => ~kernel.timer /\ "keepalive" \notin kernel.ready
  /\ kernel.heartbeat => daemon.child_pid = "0" /\ ~Due("iphb")
  /\ Due("iphb") => daemon.child_pid = "0"

(* What is in the directories is of one boot, and of this one once it is   *)
(* marked; a session that begins finds nothing.                            *)
SessionInv ==
  /\ \A m, n \in DOMAIN disk.snapshots : disk.snapshots[m] = disk.snapshots[n]
  /\ disk.mark => \A n \in DOMAIN disk.snapshots : disk.snapshots[n] = boot
  /\ \/ script.pc = "init"
     \/ script.pc = "packing" /\ script.after = "init"
     => disk.snapshots = <<>>
  /\ script.pc \in {"snapshot", "count"} => disk.mark
  /\ \A m, n \in DOMAIN script.work : script.work[m] = script.work[n]
  /\ OneSession

IInv == TypeOK /\ RestInv /\ ChildInv /\ SessionInv

-----------------------------------------------------------------------------
(* What the handlers of a pass do to the world                             *)

ScriptPlaces == {"none", "start", "pack", "packing", "init", "snapshot", "count", "exit"}

Worlds == [daemon : Daemon, kernel : Kernel, mce : BOOLEAN, pc : ScriptPlaces]

LEMMA HeartbeatEffect ==
  ASSUME NEW w \in Worlds, NEW forks \in BOOLEAN, w.daemon.child_pid = "0", w.pc = "none"
  PROVE  LET v == Heartbeat(w, forks) IN
           /\ v \in Worlds
           /\ v.daemon.child_pid = IF forks THEN "child" ELSE "-1"
           /\ v.pc = IF forks THEN "start" ELSE "none"
           /\ v.kernel.timer /\ v.mce
           /\ v.kernel.ready = w.kernel.ready \ {"iphb", "keepalive"}
           /\ v.kernel.heartbeat = w.kernel.heartbeat
           /\ v.daemon.fdset = w.daemon.fdset
BY DEF Worlds, Daemon, Kernel, Fds, ScriptPlaces, Heartbeat

LEMMA ChildExitEffect ==
  ASSUME NEW w \in Worlds
  PROVE  LET v == ChildExit(w) IN
           /\ v \in Worlds
           /\ v.daemon.child_pid = "0" /\ v.pc = w.pc
           /\ ~v.kernel.timer /\ v.kernel.heartbeat
           /\ v.kernel.ready = w.kernel.ready \ {"childexit", "keepalive"}
           /\ v.daemon.fdset = w.daemon.fdset
BY DEF Worlds, Daemon, Kernel, Fds, ChildExit

LEMMA KeepaliveEffect ==
  ASSUME NEW w \in Worlds
  PROVE  LET v == When("keepalive", w, Keepalive) IN
           /\ v \in Worlds
           /\ v.daemon = w.daemon /\ v.pc = w.pc
           /\ v.kernel.timer = w.kernel.timer /\ v.kernel.heartbeat = w.kernel.heartbeat
           /\ v.kernel.ready \in {w.kernel.ready, w.kernel.ready \ {"keepalive"}}
           /\ w.mce => v.mce
BY DEF Worlds, Daemon, Kernel, Fds, When, Keepalive

\* The end of a pass: either the loop is left or select() is called again.
Left(v) == [v EXCEPT !.daemon = Gone, !.kernel = Closed]
Again(v) == [When("keepalive", v, Keepalive) EXCEPT !.daemon.pc = "select", !.daemon.fdset = {}]

LEMMA LeftEffect ==
  ASSUME NEW w \in Worlds
  PROVE  Left(w) \in Worlds /\ Left(w).daemon = Gone /\ Left(w).kernel = Closed /\ Left(w).pc = w.pc
BY DEF Worlds, Daemon, Kernel, Fds, Left, Gone, Closed

LEMMA AgainEffect ==
  ASSUME NEW w \in Worlds
  PROVE  /\ Again(w) \in Worlds
         /\ Again(w).daemon.pc = "select" /\ Again(w).daemon.fdset = {}
         /\ Again(w).daemon.child_pid = w.daemon.child_pid /\ Again(w).pc = w.pc
         /\ Again(w).kernel.timer = w.kernel.timer
         /\ Again(w).kernel.heartbeat = w.kernel.heartbeat
         /\ Again(w).kernel.ready \in {w.kernel.ready, w.kernel.ready \ {"keepalive"}}
         /\ w.mce => Again(w).mce
<1> DEFINE v == When("keepalive", w, Keepalive)
<1>1. /\ v \in Worlds
      /\ v.daemon = w.daemon /\ v.pc = w.pc
      /\ v.kernel.timer = w.kernel.timer /\ v.kernel.heartbeat = w.kernel.heartbeat
      /\ v.kernel.ready \in {w.kernel.ready, w.kernel.ready \ {"keepalive"}}
      /\ w.mce => v.mce
  BY KeepaliveEffect
<1> HIDE DEF v
<1> DEFINE u == [v EXCEPT !.daemon.pc = "select", !.daemon.fdset = {}]
<1>2. /\ u \in Worlds
      /\ u.daemon.pc = "select" /\ u.daemon.fdset = {}
      /\ u.daemon.child_pid = v.daemon.child_pid /\ u.pc = v.pc
      /\ u.kernel = v.kernel /\ u.mce = v.mce
  BY <1>1 DEF Worlds, Daemon, Kernel, Fds
<1>3. Again(w) = u
  BY DEF Again, v
<1> QED BY <1>1, <1>2, <1>3

(* A pass begins a collection or ends one, or does neither.                *)
LEMMA PassEffect ==
  ASSUME NEW w \in Worlds, NEW forks \in BOOLEAN, NEW waits \in BOOLEAN,
         "iphb" \in w.daemon.fdset =>
            "childexit" \notin w.daemon.fdset /\ w.daemon.child_pid = "0" /\ w.pc = "none"
  PROVE  \E v \in Worlds :
           /\ \/ "iphb" \in w.daemon.fdset /\ v = Heartbeat(w, forks)
              \/ "childexit" \in w.daemon.fdset /\ v = ChildExit(w)
              \/ v = w /\ "iphb" \notin w.daemon.fdset /\ "childexit" \notin w.daemon.fdset
           /\ Pass(w, forks, waits) \in {Left(v), Again(v)}
<1> DEFINE beaten == When("iphb", w, LAMBDA x : Heartbeat(x, forks))
           v == When("childexit", beaten, ChildExit)
<1>1. Pass(w, forks, waits) \in {Left(v), Again(v)}
  BY DEF Pass, Left, Again
<1>2. CASE "iphb" \in w.daemon.fdset
  <2>1. beaten = Heartbeat(w, forks)
    BY <1>2 DEF When
  <2>2. beaten \in Worlds /\ beaten.daemon.fdset = w.daemon.fdset
    BY <1>2, <2>1, HeartbeatEffect
  <2>3. v = beaten
    BY <1>2, <2>2 DEF When
  <2> QED BY <1>1, <1>2, <2>1, <2>2, <2>3
<1>3. CASE "iphb" \notin w.daemon.fdset
  <2>1. beaten = w
    BY <1>3 DEF When
  <2>2. v = IF "childexit" \in w.daemon.fdset THEN ChildExit(w) ELSE w
    BY <2>1 DEF When
  <2>3. v \in Worlds
    BY <2>2, ChildExitEffect
  <2> QED BY <1>1, <1>3, <2>2, <2>3
<1> QED BY <1>2, <1>3

LEMMA LoopKeepsInv ==
  ASSUME IInv, Loop
  PROVE  IInv'
<1> DEFINE w == World
<1>1. PICK forks \in BOOLEAN, waits \in BOOLEAN : Becomes(Pass(w, forks, waits))
  BY DEF Loop
<1>2. daemon.pc = "body" /\ UNCHANGED <<disk, boot>>
  BY DEF Loop
<1>3. /\ w \in Worlds
      /\ w.daemon = daemon /\ w.kernel = kernel /\ w.mce = mce /\ w.pc = script.pc
  BY DEF World, Worlds, IInv, TypeOK, Script, ScriptPlaces
<1> HIDE DEF w
<1>4. "iphb" \in daemon.fdset =>
         /\ "childexit" \notin daemon.fdset
         /\ daemon.child_pid = "0" /\ script.pc = "none" /\ ~kernel.heartbeat
  BY <1>2 DEF IInv, ChildInv, Due
<1>5. PICK v \in Worlds :
        /\ \/ "iphb" \in daemon.fdset /\ v = Heartbeat(w, forks)
           \/ "childexit" \in daemon.fdset /\ v = ChildExit(w)
           \/ v = w /\ "iphb" \notin daemon.fdset /\ "childexit" \notin daemon.fdset
        /\ Pass(w, forks, waits) \in {Left(v), Again(v)}
  BY <1>3, <1>4, PassEffect
\* What is true of the world between the two halves of the pass.
<1>6. /\ v.pc # "none" =>
           /\ v.daemon.child_pid = "child" /\ v.mce /\ v.kernel.timer
           /\ "childexit" \notin v.kernel.ready
      /\ "childexit" \in v.kernel.ready => v.daemon.child_pid = "child"
      /\ v.daemon.child_pid = "0" => ~v.kernel.timer /\ "keepalive" \notin v.kernel.ready
      /\ v.kernel.heartbeat => v.daemon.child_pid = "0" /\ "iphb" \notin v.kernel.ready
      /\ "iphb" \in v.kernel.ready => v.daemon.child_pid = "0"
      /\ v.pc # script.pc => v.pc = "start" /\ script.pc = "none"
  <2>1. CASE "iphb" \in daemon.fdset /\ v = Heartbeat(w, forks)
    BY <1>2, <1>3, <1>4, <2>1, HeartbeatEffect DEF IInv, ChildInv, Due
  <2>2. CASE "childexit" \in daemon.fdset /\ v = ChildExit(w)
    BY <1>2, <1>3, <1>4, <2>2, ChildExitEffect DEF IInv, ChildInv, Due
  <2>3. CASE v = w
    BY <1>2, <1>3, <1>4, <2>3 DEF IInv, ChildInv, Due
  <2> QED BY <1>5, <2>1, <2>2, <2>3
<1> DEFINE u == Pass(w, forks, waits)
<1>7. /\ daemon' = u.daemon /\ kernel' = u.kernel /\ mce' = u.mce
      /\ script' = IF u.pc = script.pc THEN script ELSE [NoScript EXCEPT !.pc = u.pc]
  BY <1>1 DEF Becomes
<1>8. u \in Worlds /\ u.pc = v.pc
  BY <1>5, LeftEffect, AgainEffect
<1>9. \/ daemon' = Gone /\ kernel' = Closed
      \/ /\ daemon'.pc = "select" /\ daemon'.fdset = {}
         /\ daemon'.child_pid = v.daemon.child_pid
         /\ kernel'.timer = v.kernel.timer /\ kernel'.heartbeat = v.kernel.heartbeat
         /\ kernel'.ready \in {v.kernel.ready, v.kernel.ready \ {"keepalive"}}
         /\ v.mce => mce'
  BY <1>5, <1>7, LeftEffect, AgainEffect
<1> HIDE DEF u
<1>10. \/ script' = script /\ v.pc = script.pc
       \/ script' = [NoScript EXCEPT !.pc = "start"] /\ script.pc = "none" /\ v.pc = "start"
  BY <1>6, <1>7, <1>8
<1>11. script'.pc = v.pc
  BY <1>10 DEF NoScript
<1>12. TypeOK'
  <2>1. daemon' \in Daemon /\ kernel' \in Kernel /\ mce' \in BOOLEAN
    BY <1>7, <1>8 DEF Worlds
  <2>2. script' \in Script /\ (script'.work # <<>> => script'.pc = "packing")
    BY <1>10 DEF IInv, TypeOK, Script, NoScript
  <2>3. daemon'.pc = "off" => kernel' = Closed
    BY <1>9
  <2> QED BY <1>2, <2>1, <2>2, <2>3 DEF IInv, TypeOK
<1>13. RestInv'
  BY <1>9 DEF RestInv, Gone
<1>14. ChildInv'
  BY <1>6, <1>9, <1>11 DEF ChildInv, Due, Gone, Closed
<1>15. SessionInv'
  BY <1>2, <1>10 DEF IInv, SessionInv, NoScript, OneSession
<1> QED BY <1>12, <1>13, <1>14, <1>15 DEF IInv
-----------------------------------------------------------------------------
(* The steps of the daemon                                                 *)

LEMMA SelectKeepsInv ==
  ASSUME IInv, Select
  PROVE  IInv'
<1>1. /\ daemon.pc = "select" /\ daemon' = [daemon EXCEPT !.pc = "body", !.fdset = kernel.ready]
      /\ UNCHANGED <<kernel, mce, script, disk, boot>>
  BY DEF Select
<1>2. /\ daemon'.pc = "body" /\ daemon'.fdset = kernel.ready
      /\ daemon'.child_pid = daemon.child_pid /\ daemon' \in Daemon
  BY <1>1 DEF IInv, TypeOK, Daemon, Kernel
<1> QED
  BY <1>1, <1>2 DEF IInv, TypeOK, RestInv, ChildInv, Due, SessionInv, OneSession

LEMMA DaemonStartsAndStops ==
  ASSUME IInv, Start \/ AfterBootDelay \/ SetupFails \/ SelectFails
  PROVE  IInv'
<1>1. CASE Start
  <2>1. daemon' = [daemon EXCEPT !.pc = "delay"] /\ daemon = Gone /\ kernel = Closed
    BY <1>1 DEF Start, IInv, RestInv
  <2>2. daemon' = [pc |-> "delay", fdset |-> {}, child_pid |-> "0"]
    BY <2>1 DEF Gone
  <2> QED
    BY <1>1, <2>1, <2>2
    DEF Start, IInv, TypeOK, Daemon, RestInv, ChildInv, Due, SessionInv, OneSession, Gone, Closed
<1>2. CASE AfterBootDelay
  <2>1. /\ daemon' = [daemon EXCEPT !.pc = "body", !.fdset = {"iphb"}]
        /\ daemon.child_pid = "0" /\ kernel = Closed /\ script.pc = "none"
        /\ UNCHANGED <<kernel, mce, script, disk, boot>>
    BY <1>2 DEF AfterBootDelay, IInv, RestInv
  <2>2. /\ daemon'.pc = "body" /\ daemon'.fdset = {"iphb"} /\ daemon'.child_pid = "0"
        /\ daemon' \in Daemon
    BY <2>1 DEF IInv, TypeOK, Daemon, Fds
  <2> QED
    BY <2>1, <2>2
    DEF IInv, TypeOK, RestInv, ChildInv, Due, SessionInv, OneSession, Closed
<1>3. CASE SetupFails
  BY <1>3
  DEF SetupFails, IInv, TypeOK, Daemon, Kernel, Fds, RestInv, ChildInv, Due, SessionInv,
      OneSession, Gone, Closed
<1>4. CASE SelectFails
  BY <1>4
  DEF SelectFails, IInv, TypeOK, Daemon, Kernel, Fds, RestInv, ChildInv, Due, SessionInv,
      OneSession, Gone, Closed
<1> QED BY <1>1, <1>2, <1>3, <1>4

LEMMA AroundTheDaemon ==
  ASSUME IInv, HeartbeatComes \/ TimerExpires \/ Sigterm \/ KeepaliveEnds
  PROVE  IInv'
<1>1. CASE HeartbeatComes
  <2>1. /\ kernel.heartbeat /\ kernel # Closed
        /\ kernel' = [kernel EXCEPT !.heartbeat = FALSE, !.ready = @ \cup {"iphb"}]
        /\ UNCHANGED <<daemon, mce, script, disk, boot>>
    BY <1>1 DEF HeartbeatComes, Closed
  <2>2. /\ kernel' \in Kernel /\ ~kernel'.heartbeat /\ kernel'.timer = kernel.timer
        /\ kernel'.ready = kernel.ready \cup {"iphb"}
    BY <2>1 DEF IInv, TypeOK, Kernel, Fds
  <2> QED
    BY <2>1, <2>2 DEF IInv, TypeOK, RestInv, ChildInv, Due, SessionInv, OneSession
<1>2. CASE TimerExpires
  <2>1. /\ kernel.timer /\ kernel # Closed
        /\ kernel' = [kernel EXCEPT !.ready = @ \cup {"keepalive"}]
        /\ UNCHANGED <<daemon, mce, script, disk, boot>>
    BY <1>2 DEF TimerExpires, Closed
  <2>2. /\ kernel' \in Kernel /\ kernel'.heartbeat = kernel.heartbeat
        /\ kernel'.timer = kernel.timer /\ kernel'.ready = kernel.ready \cup {"keepalive"}
    BY <2>1 DEF IInv, TypeOK, Kernel, Fds
  <2> QED
    BY <2>1, <2>2 DEF IInv, TypeOK, RestInv, ChildInv, Due, SessionInv, OneSession
<1>3. CASE Sigterm
  <2>1. /\ daemon.pc \in {"select", "body"}
        /\ kernel' = [kernel EXCEPT !.ready = @ \cup {"sig"}]
        /\ UNCHANGED <<daemon, mce, script, disk, boot>>
    BY <1>3 DEF Sigterm
  <2>2. /\ kernel' \in Kernel /\ kernel'.heartbeat = kernel.heartbeat
        /\ kernel'.timer = kernel.timer /\ kernel'.ready = kernel.ready \cup {"sig"}
    BY <2>1 DEF IInv, TypeOK, Kernel, Fds
  <2> QED
    BY <2>1, <2>2 DEF IInv, TypeOK, RestInv, ChildInv, Due, SessionInv, OneSession
<1>4. CASE KeepaliveEnds
  BY <1>4
  DEF KeepaliveEnds, IInv, TypeOK, RestInv, ChildInv, Due, SessionInv, OneSession
<1> QED BY <1>1, <1>2, <1>3, <1>4

-----------------------------------------------------------------------------
(* The steps of the script                                                 *)

LEMMA MinOfTwo ==
  ASSUME NEW a \in Nat, NEW b \in Nat
  PROVE  Min({a, b}) \in Nat
<1>1. \E x \in {a, b} : \A y \in {a, b} : x <= y
  OBVIOUS
<1> QED BY <1>1 DEF Min

\* A step of the script's own leaves the daemon alone, and the script running.
Inside ==
  /\ Running /\ script'.pc # "none"
  /\ UNCHANGED <<daemon, kernel, mce, boot>>

LEMMA InsideKeepsRest ==
  ASSUME IInv, Inside
  PROVE  RestInv' /\ ChildInv'
BY DEF IInv, Inside, Running, RestInv, ChildInv, Due

LEMMA NoSnapshots == <<>> \in Seq(1..MaxBoots)
OBVIOUS

LEMMA RangeOfSeq == ASSUME NEW S, NEW w \in Seq(S) PROVE Range(w) \subseteq S
BY DEF Range

(* What assignments to fields of disk and script leave of their types.     *)
LEMMA SetSnapshots ==
  ASSUME NEW d \in Disk, NEW ss \in Seq(1..MaxBoots)
  PROVE  LET e == [d EXCEPT !.snapshots = ss] IN
           e \in Disk /\ e.snapshots = ss /\ e.mark = d.mark /\ e.package = d.package
<1> DEFINE Numbers == Seq(1..MaxBoots)
<1>1. Disk = [snapshots : Numbers, count : Nat, mark : BOOLEAN, package : SUBSET (1..MaxBoots)]
      /\ ss \in Numbers
  BY DEF Disk
<1> HIDE DEF Numbers
<1> QED BY <1>1

LEMMA DiscardSnapshots ==
  ASSUME NEW d \in Disk
  PROVE  LET e == [d EXCEPT !.snapshots = <<>>, !.count = 0] IN
           e \in Disk /\ e.snapshots = <<>> /\ e.mark = d.mark /\ e.package = d.package
<1> DEFINE Numbers == Seq(1..MaxBoots)
           none == <<>>
<1>1. Disk = [snapshots : Numbers, count : Nat, mark : BOOLEAN, package : SUBSET (1..MaxBoots)]
      /\ none \in Numbers
  BY DEF Disk
<1> SUFFICES LET e == [d EXCEPT !.snapshots = none, !.count = 0] IN
               e \in Disk /\ e.snapshots = none /\ e.mark = d.mark /\ e.package = d.package
  OBVIOUS
<1> HIDE DEF Numbers, none
<1> QED BY <1>1

LEMMA SetPackage ==
  ASSUME NEW d \in Disk, NEW p \in SUBSET (1..MaxBoots)
  PROVE  LET e == [d EXCEPT !.package = p] IN
           e \in Disk /\ e.snapshots = d.snapshots /\ e.mark = d.mark /\ e.package = p
BY DEF Disk

LEMMA ScriptKeepsInv ==
  ASSUME EnduranceAssumption, IInv,
         Begin \/ InitializeSession \/ Snapshot \/ Count \/ MoveAside \/ Package
  PROVE  IInv'
<1>1. /\ script \in Script /\ disk \in Disk /\ boot \in 1..MaxBoots
      /\ Len(disk.snapshots) \in Nat
  BY DEF IInv, TypeOK, Disk
<1>2. SessionInv /\ (script.work # <<>> => script.pc = "packing")
  BY DEF IInv, TypeOK
<1>3. ASSUME Inside, script' \in Script, disk' \in Disk,
             script'.work # <<>> => script'.pc = "packing", SessionInv'
      PROVE  IInv'
  BY <1>3, InsideKeepsRest DEF IInv, Inside, TypeOK
<1>4. CASE Begin
  <2> DEFINE n == Len(disk.snapshots)
             s == [script EXCEPT !.not_uploaded = n,
                                 !.in_session = IF disk.count # 0 THEN disk.count ELSE n]
  <2>1. s \in Script /\ s.pc = "start" /\ s.work = <<>> /\ s.after = script.after
    BY <1>1, <1>2, <1>4 DEF Begin, Script, Disk
  <2>2. \/ disk.mark /\ script' = [s EXCEPT !.pc = "snapshot"] /\ disk' = disk
        \/ ~disk.mark /\ SessionEnds(s)
    BY <1>4 DEF Begin
  <2>3. script.pc = "start" /\ UNCHANGED <<daemon, kernel, mce, boot>>
    BY <1>4 DEF Begin
  <2> HIDE DEF s
  <2>4. CASE disk.mark /\ script' = [s EXCEPT !.pc = "snapshot"] /\ disk' = disk
    <3>1. script' \in Script /\ script'.pc = "snapshot" /\ script'.work = <<>>
      BY <2>1, <2>4 DEF Script
    <3> QED
      BY <1>1, <1>2, <1>3, <2>3, <2>4, <3>1 DEF Inside, Running, SessionInv, OneSession
  <2>5. CASE ~disk.mark /\ SessionEnds(s)
    <3>1. CASE script' = [s EXCEPT !.pc = "init"] /\ disk' = [disk EXCEPT !.snapshots = <<>>, !.count = 0]
      <4>1. script' \in Script /\ script'.pc = "init" /\ script'.work = <<>>
        BY <2>1, <3>1 DEF Script
      <4>2. /\ disk' \in Disk /\ disk'.snapshots = <<>> /\ disk'.mark = disk.mark
            /\ disk'.package = disk.package
        BY <1>1, <3>1, DiscardSnapshots
      <4> QED
        BY <1>1, <1>2, <1>3, <2>3, <2>5, <4>1, <4>2 DEF Inside, Running, SessionInv, OneSession
    <3>2. CASE script' = [s EXCEPT !.pc = "pack", !.after = "init"] /\ disk' = disk
      <4>1. script' \in Script /\ script'.pc = "pack" /\ script'.work = <<>>
        BY <2>1, <3>2 DEF Script
      <4> QED
        BY <1>1, <1>2, <1>3, <2>3, <2>5, <3>2, <4>1 DEF Inside, Running, SessionInv, OneSession
    <3> QED BY <2>5, <3>1, <3>2 DEF SessionEnds
  <2> QED BY <2>2, <2>4, <2>5
<1>5. CASE InitializeSession
  <2>1. /\ script.pc = "init" /\ UNCHANGED <<daemon, kernel, mce, boot>>
        /\ script' = [script EXCEPT !.pc = "snapshot", !.in_session = 0]
        /\ disk' = [disk EXCEPT !.mark = TRUE]
    BY <1>5 DEF InitializeSession
  <2>2. script' \in Script /\ script'.pc = "snapshot" /\ script'.work = <<>>
    BY <1>1, <1>2, <2>1 DEF Script
  <2>3. /\ disk' \in Disk /\ disk'.snapshots = <<>> /\ disk'.mark /\ disk'.package = disk.package
    BY <1>1, <1>2, <2>1 DEF Disk, SessionInv
  <2> QED BY <1>2, <1>3, <2>1, <2>2, <2>3 DEF Inside, Running, SessionInv, OneSession
<1>6. CASE Snapshot
  <2>1. /\ script.pc = "snapshot" /\ UNCHANGED <<daemon, kernel, mce, boot>>
        /\ disk' = [disk EXCEPT !.snapshots = Append(@, boot)]
        /\ script' = [script EXCEPT !.pc = "count", !.not_uploaded = @ + 1,
                                    !.in_session = Min({@ + 1, MinSessionLength})]
    BY <1>6 DEF Snapshot
  <2>2. Min({script.in_session + 1, MinSessionLength}) \in Nat
    BY <1>1, MinOfTwo DEF EnduranceAssumption, Script
  <2>3. script' \in Script /\ script'.pc = "count" /\ script'.work = <<>>
    <3> DEFINE n == script.not_uploaded + 1
               k == Min({script.in_session + 1, MinSessionLength})
    <3>1. n \in Nat /\ k \in Nat
      BY <1>1, <2>2 DEF Script
    <3>2. script' = [script EXCEPT !.pc = "count", !.not_uploaded = n, !.in_session = k]
      BY <2>1
    <3> HIDE DEF n, k
    <3>3. script' \in Script /\ script'.pc = "count" /\ script'.work = script.work
      BY <1>1, <3>1, <3>2 DEF Script
    <3> QED BY <1>2, <2>1, <3>3
  <2>4. /\ disk' \in Disk /\ disk'.mark = disk.mark /\ disk'.package = disk.package
        /\ disk'.snapshots = Append(disk.snapshots, boot)
    <3>1. Append(disk.snapshots, boot) \in Seq(1..MaxBoots)
      BY <1>1 DEF Disk
    <3> QED BY <1>1, <2>1, <3>1, SetSnapshots
  <2>5. /\ disk.mark /\ disk.snapshots \in Seq(1..MaxBoots)
        /\ \A n \in DOMAIN disk.snapshots : disk.snapshots[n] = boot
    BY <1>1, <1>2, <2>1 DEF SessionInv, Disk
  <2>6. \A n \in DOMAIN disk'.snapshots : disk'.snapshots[n] = boot
    BY <2>4, <2>5
  <2> QED BY <1>2, <1>3, <2>1, <2>3, <2>4, <2>5, <2>6 DEF Inside, Running, SessionInv, OneSession
<1>7. CASE Count
  <2>1. /\ script.pc = "count" /\ UNCHANGED <<daemon, kernel, mce, boot>>
        /\ disk' = [disk EXCEPT !.count = script.in_session]
        /\ script' = [script EXCEPT !.pc = IF Full THEN "pack" ELSE "exit", !.after = "exit"]
    BY <1>7 DEF Count
  <2>2. script' \in Script /\ script'.pc \in {"pack", "exit"} /\ script'.work = <<>>
    BY <1>1, <1>2, <2>1 DEF Script
  <2>3. /\ disk' \in Disk /\ disk'.mark = disk.mark /\ disk'.package = disk.package
        /\ disk'.snapshots = disk.snapshots
    BY <1>1, <2>1 DEF Disk, Script
  <2> QED BY <1>2, <1>3, <2>1, <2>2, <2>3 DEF Inside, Running, SessionInv, OneSession
<1>8. CASE MoveAside
  <2>1. /\ script.pc = "pack" /\ UNCHANGED <<daemon, kernel, mce, boot>>
        /\ script' = [script EXCEPT !.pc = "packing", !.work = disk.snapshots]
        /\ disk' = [disk EXCEPT !.snapshots = <<>>]
    BY <1>8 DEF MoveAside
  <2>2. script' \in Script /\ script'.pc = "packing" /\ script'.work = disk.snapshots
    BY <1>1, <2>1 DEF Script, Disk
  <2>3. /\ disk' \in Disk /\ disk'.mark = disk.mark /\ disk'.package = disk.package
        /\ disk'.snapshots = <<>>
    BY <1>1, <2>1, NoSnapshots, SetSnapshots
  <2> QED BY <1>2, <1>3, <2>1, <2>2, <2>3 DEF Inside, Running, SessionInv, OneSession
<1>9. CASE Package
  <2>1. /\ script.pc = "packing" /\ UNCHANGED <<daemon, kernel, mce, boot>>
        /\ disk' = [disk EXCEPT !.package = Range(script.work)]
        /\ script' = [script EXCEPT !.pc = script.after, !.work = <<>>]
    BY <1>9 DEF Package
  <2>2. /\ script' \in Script /\ script'.pc = script.after /\ script'.work = <<>>
        /\ script'.after = script.after /\ script.after \in {"init", "exit"}
    <3> DEFINE none == <<>>
               Numbers == Seq(1..MaxBoots)
    <3>1. /\ Script = [pc : ScriptPlaces, not_uploaded : Nat, in_session : Nat, work : Numbers,
                       after : {"init", "exit"}]
          /\ none \in Numbers
      BY NoSnapshots DEF Script, ScriptPlaces
    <3>2. script' = [script EXCEPT !.pc = script.after, !.work = none]
      BY <2>1
    <3> HIDE DEF none, Numbers
    <3>3. script' \in Script /\ script'.pc = script.after /\ script'.work = none
          /\ script'.after = script.after /\ script.after \in {"init", "exit"}
      BY <1>1, <3>1, <3>2 DEF ScriptPlaces
    <3> QED BY <3>3 DEF none
  <2>3. Range(script.work) \subseteq 1..MaxBoots
    <3>1. script.work \in Seq(1..MaxBoots)
      BY <1>1 DEF Script
    <3> QED BY <3>1, RangeOfSeq
  <2>4. /\ disk' \in Disk /\ disk'.mark = disk.mark /\ disk'.snapshots = disk.snapshots
        /\ disk'.package = Range(script.work)
    BY <1>1, <2>1, <2>3 DEF Disk
  <2>5. OneSession'
    BY <1>2, <2>4 DEF OneSession, SessionInv, Range
  <2> QED BY <1>2, <1>3, <2>1, <2>2, <2>4, <2>5 DEF Inside, Running, SessionInv
<1> QED BY <1>4, <1>5, <1>6, <1>7, <1>8, <1>9

-----------------------------------------------------------------------------
(* Ends of the script and of the boot                                      *)

LEMMA EndsKeepsInv ==
  ASSUME IInv, Ends
  PROVE  IInv'
<1>1. /\ script' = NoScript /\ UNCHANGED <<daemon, mce, disk, boot>>
      /\ kernel' = [kernel EXCEPT !.ready = IF daemon.pc = "off" THEN @ ELSE @ \cup {"childexit"}]
      /\ script.pc # "none" /\ (script.pc = "exit" \/ daemon.pc = "off")
  BY DEF Ends, Running
<1>2. /\ kernel' \in Kernel /\ kernel'.heartbeat = kernel.heartbeat
      /\ kernel'.timer = kernel.timer
      /\ kernel'.ready = IF daemon.pc = "off" THEN kernel.ready ELSE kernel.ready \cup {"childexit"}
      /\ daemon.pc = "off" => kernel' = kernel
  BY <1>1 DEF IInv, TypeOK, Kernel, Fds
<1>3. NoScript \in Script /\ NoScript.work = <<>> /\ NoScript.pc = "none"
  BY NoSnapshots DEF NoScript, Script
<1>4. TypeOK'
  BY <1>1, <1>2, <1>3 DEF IInv, TypeOK
<1>5. RestInv' /\ ChildInv'
  BY <1>1, <1>2, <1>3 DEF IInv, RestInv, ChildInv, Due
<1>6. SessionInv'
  BY <1>1, <1>3 DEF IInv, SessionInv, OneSession
<1> QED BY <1>4, <1>5, <1>6 DEF IInv

LEMMA RebootKeepsInv ==
  ASSUME EnduranceAssumption, IInv, Reboot
  PROVE  IInv'
<1>1. /\ boot < MaxBoots /\ boot' = boot + 1
      /\ daemon' = Gone /\ kernel' = Closed /\ mce' = FALSE
      /\ script' = NoScript /\ disk' = [disk EXCEPT !.mark = FALSE]
  BY DEF Reboot
<1>2. NoScript \in Script /\ NoScript.work = <<>> /\ NoScript.pc = "none"
  BY NoSnapshots DEF NoScript, Script
<1>3. /\ disk' \in Disk /\ disk'.snapshots = disk.snapshots /\ ~disk'.mark
      /\ disk'.package = disk.package
  BY <1>1 DEF IInv, TypeOK, Disk
<1>4. TypeOK'
  <2>1. boot' \in 1..MaxBoots
    BY <1>1 DEF IInv, TypeOK, EnduranceAssumption
  <2>2. Gone \in Daemon /\ Closed \in Kernel
    BY DEF Gone, Closed, Daemon, Kernel, Fds
  <2> QED BY <1>1, <1>2, <1>3, <2>1, <2>2 DEF TypeOK
<1>5. RestInv' /\ ChildInv'
  BY <1>1 DEF RestInv, ChildInv, Due, Gone, Closed
<1>6. SessionInv'
  BY <1>1, <1>2, <1>3 DEF IInv, SessionInv, OneSession
<1> QED BY <1>4, <1>5, <1>6 DEF IInv

-----------------------------------------------------------------------------

LEMMA InitInv == EnduranceAssumption /\ Init => IInv
<1> SUFFICES ASSUME EnduranceAssumption, Init PROVE IInv
  OBVIOUS
<1>1. script = NoScript /\ NoScript \in Script /\ script.work = <<>> /\ script.pc = "none"
  BY NoSnapshots DEF Init, NoScript, Script
<1>2. disk \in Disk /\ disk.snapshots = <<>> /\ ~disk.mark /\ disk.package = {}
  BY NoSnapshots DEF Init, Disk
<1>3. TypeOK
  <2>1. Gone \in Daemon /\ Closed \in Kernel
    BY DEF Gone, Closed, Daemon, Kernel, Fds
  <2>2. boot \in 1..MaxBoots
    BY DEF Init, EnduranceAssumption
  <2> QED BY <1>1, <1>2, <2>1, <2>2 DEF Init, TypeOK
<1> QED
  BY <1>1, <1>2, <1>3
  DEF Init, IInv, RestInv, ChildInv, Due, SessionInv, OneSession, Gone, Closed

LEMMA NextInv == EnduranceAssumption /\ IInv /\ [Next]_vars => IInv'
<1> SUFFICES ASSUME EnduranceAssumption, IInv, [Next]_vars PROVE IInv'
  OBVIOUS
<1>1. CASE UNCHANGED vars
  BY <1>1 DEF vars, IInv, TypeOK, RestInv, ChildInv, Due, SessionInv, OneSession
<1> QED
  BY <1>1, LoopKeepsInv, SelectKeepsInv, DaemonStartsAndStops, AroundTheDaemon,
     ScriptKeepsInv, EndsKeepsInv, RebootKeepsInv
  DEF Next, DaemonStep, ScriptStep

(* What the invariant says of the device and of the reports.               *)
LEMMA InvImplies == IInv => TypeOK /\ StaysAwake /\ LetsSleep /\ OneSession
BY DEF IInv, ChildInv, SessionInv, StaysAwake, LetsSleep, Running
=============================================================================
