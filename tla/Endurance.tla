------------------------------- MODULE Endurance -------------------------------
(***************************************************************************)
(* The endurance collector: a daemon that wakes up once an hour, keeps the *)
(* device awake and runs a script; the script takes a snapshot of the      *)
(* system and makes a report of the snapshots of a session, which ends     *)
(* with a reboot.                                                          *)
(*                                                                         *)
(* The daemon sees the world through one select(): a pass of its loop acts *)
(* on what was ready when select() returned, in a fixed order, whatever    *)
(* has happened or been done since.                                        *)
(***************************************************************************)
EXTENDS Naturals, Sequences, Functions, FiniteSetsExt

CONSTANTS
  SnapshotsToPack,      \* a report is made of so many snapshots
  MinSessionLength,     \* a session with fewer is discarded when it ends
  MaxBoots,             \* bound
  MaxSnapshots          \* bound: a script is not killed with as many about

EnduranceAssumption ==
  /\ SnapshotsToPack \in Nat /\ MinSessionLength \in Nat
  /\ MaxBoots \in Nat \ {0} /\ MaxSnapshots \in Nat
  /\ SnapshotsToPack > MinSessionLength

VARIABLES
  daemon,   \* see Daemon
  kernel,   \* see Kernel
  mce,      \* MCE keeps the CPU running
  script,   \* see Script
  disk,     \* see Disk
  boot      \* number of this boot

vars == <<daemon, kernel, mce, script, disk, boot>>

Fds == {"iphb", "childexit", "sig", "keepalive"}

Daemon == [pc : {"off", "delay", "body", "select"},
           fdset : SUBSET Fds,
           child_pid : {"0", "-1", "child"}]

Kernel == [ready : SUBSET Fds, heartbeat : BOOLEAN, timer : BOOLEAN]

(* The script's place and its shell variables.  work is the directory that *)
(* is being packed, after is where to go on when it has been.              *)
Script == [pc : {"none", "start", "pack", "packing", "init", "snapshot", "count", "exit"},
           not_uploaded : Nat, in_session : Nat,
           work : Seq(1..MaxBoots),
           after : {"init", "exit"}]

(* Snapshots carry the number of the boot they were taken in.  count 0     *)
(* stands for no count file as well.  BOOT_MARK_FILE goes with a reboot.   *)
Disk == [snapshots : Seq(1..MaxBoots), count : Nat, mark : BOOLEAN,
         package : SUBSET (1..MaxBoots)]     \* the boots in the last report

Gone   == [pc |-> "off", fdset |-> {}, child_pid |-> "0"]
Closed == [ready |-> {}, heartbeat |-> FALSE, timer |-> FALSE]

TypeOK ==
  /\ daemon \in Daemon /\ kernel \in Kernel /\ mce \in BOOLEAN
  /\ script \in Script /\ disk \in Disk
  /\ boot \in 1..MaxBoots
  /\ script.work # <<>> => script.pc = "packing"
  /\ daemon.pc = "off" => kernel = Closed

NoScript == [pc |-> "none", not_uploaded |-> 0, in_session |-> 0, work |-> <<>>, after |-> "exit"]

-----------------------------------------------------------------------------
(* The daemon: a pass of the loop as a function of the world               *)

World == [daemon |-> daemon, kernel |-> kernel, mce |-> mce, pc |-> script.pc]

\* fault: the keepalive timer is not set along with the first keepalive.
HeartbeatWithoutTimer(w, forks) ==
  [w EXCEPT !.mce = TRUE,
            !.daemon.child_pid = IF @ # "0" THEN @ ELSE IF forks THEN "child" ELSE "-1",
            !.pc = IF w.daemon.child_pid = "0" /\ forks THEN "start" ELSE @,
            !.kernel.ready = @ \ {"iphb"}]

(* The heartbeat: send_keepalive(), invoke_endurance_collect(),            *)
(* set_timer().  A fork() that fails leaves -1 for good.                   *)
Heartbeat(w, forks) ==
  [w EXCEPT !.mce = TRUE,
            !.daemon.child_pid = IF @ # "0" THEN @ ELSE IF forks THEN "child" ELSE "-1",
            !.pc = IF w.daemon.child_pid = "0" /\ forks THEN "start" ELSE @,
            !.kernel.timer = TRUE,
            !.kernel.ready = @ \ {"iphb", "keepalive"}]

\* fault: the keepalive timer goes on when the child has finished.
ChildExitKeepsTimer(w) ==
  [w EXCEPT !.daemon.child_pid = "0",
            !.kernel.ready = @ \ {"childexit"},
            !.mce = FALSE,
            !.kernel.heartbeat = TRUE]

\* fault: the child that has finished is taken for running.
ChildExitKeepsPid(w) ==
  [w EXCEPT !.kernel.timer = FALSE,
            !.kernel.ready = @ \ {"childexit", "keepalive"},
            !.mce = FALSE,
            !.kernel.heartbeat = TRUE]

\* The child has finished: the timer stops, the next heartbeat is asked for.
ChildExit(w) ==
  [w EXCEPT !.daemon.child_pid = "0",
            !.kernel.timer = FALSE,
            !.kernel.ready = @ \ {"childexit", "keepalive"},
            !.mce = FALSE,
            !.kernel.heartbeat = TRUE]

\* A keepalive is due, or was when select() returned.
Keepalive(w) == [w EXCEPT !.mce = TRUE, !.kernel.ready = @ \ {"keepalive"}]

When(fd, w, handler(_)) == IF fd \in w.daemon.fdset THEN handler(w) ELSE w

(* One pass.  break leaves out what comes after it: a heartbeat that       *)
(* cannot be had (waits is FALSE), or SIGTERM.                             *)
Pass(w, forks, waits) ==
  LET Beat(x)   == Heartbeat(x, forks)
      exited    == When("childexit", When("iphb", w, Beat), ChildExit)
      breaks    == "sig" \in w.daemon.fdset \/ ("childexit" \in w.daemon.fdset /\ ~waits)
  IN IF breaks
     THEN [exited EXCEPT !.daemon = Gone, !.kernel = Closed]
     ELSE [When("keepalive", exited, Keepalive) EXCEPT !.daemon.pc = "select", !.daemon.fdset = {}]

Becomes(w) ==
  /\ daemon' = w.daemon /\ kernel' = w.kernel /\ mce' = w.mce
  /\ script' = IF w.pc = script.pc THEN script ELSE [NoScript EXCEPT !.pc = w.pc]

Loop ==
  /\ daemon.pc = "body"
  /\ \E forks, waits \in BOOLEAN : Becomes(Pass(World, forks, waits))
  /\ UNCHANGED <<disk, boot>>

\* select(); sleep(1) after it lets more become ready that the pass does not see.
Select ==
  /\ daemon.pc = "select" /\ kernel.ready # {}
  /\ daemon' = [daemon EXCEPT !.pc = "body", !.fdset = kernel.ready]
  /\ UNCHANGED <<kernel, mce, script, disk, boot>>

SelectFails ==
  /\ daemon.pc = "select"
  /\ daemon' = Gone /\ kernel' = Closed
  /\ UNCHANGED <<mce, script, disk, boot>>

(* systemd starts the daemon anew when nothing is left of the last one.    *)
Start ==
  /\ daemon.pc = "off" /\ script.pc = "none"
  /\ daemon' = [daemon EXCEPT !.pc = "delay"]
  /\ UNCHANGED <<kernel, mce, script, disk, boot>>

(* after_boot_delay(), waited for or not, and the first fd set: the loop   *)
(* begins as if the heartbeat had come.                                    *)
AfterBootDelay ==
  /\ daemon.pc = "delay"
  /\ daemon' = [daemon EXCEPT !.pc = "body", !.fdset = {"iphb"}]
  /\ UNCHANGED <<kernel, mce, script, disk, boot>>

(* main() returns when it finds no D-Bus or no heartbeat, and a signal ends *)
(* it as long as none is blocked.                                          *)
SetupFails ==
  /\ daemon.pc = "delay"
  /\ daemon' = Gone /\ kernel' = Closed
  /\ UNCHANGED <<mce, script, disk, boot>>

-----------------------------------------------------------------------------
(* Around the daemon                                                       *)

HeartbeatComes ==
  /\ kernel.heartbeat
  /\ kernel' = [kernel EXCEPT !.heartbeat = FALSE, !.ready = @ \cup {"iphb"}]
  /\ UNCHANGED <<daemon, mce, script, disk, boot>>

TimerExpires ==
  /\ kernel.timer
  /\ kernel' = [kernel EXCEPT !.ready = @ \cup {"keepalive"}]
  /\ UNCHANGED <<daemon, mce, script, disk, boot>>

Sigterm ==
  /\ daemon.pc \in {"select", "body"}
  /\ kernel' = [kernel EXCEPT !.ready = @ \cup {"sig"}]
  /\ UNCHANGED <<daemon, mce, script, disk, boot>>

(* MCE gives up a keepalive that is not repeated within its period, which  *)
(* is longer than the daemon's timer.                                      *)
KeepaliveEnds ==
  /\ mce /\ ~kernel.timer
  /\ mce' = FALSE
  /\ UNCHANGED <<daemon, kernel, script, disk, boot>>

-----------------------------------------------------------------------------
(* The script                                                              *)

Running == script.pc \notin {"none", "exit"}

\* fault: a session too short is left to the next one.
SessionEndsKeeps(s) ==
  IF s.in_session < MinSessionLength
  THEN script' = [s EXCEPT !.pc = "init"] /\ UNCHANGED disk
  ELSE script' = [s EXCEPT !.pc = "pack", !.after = "init"] /\ UNCHANGED disk

(* There was a reboot: the session's snapshots are discarded or packed.    *)
SessionEnds(s) ==
  IF s.in_session < MinSessionLength
  THEN /\ script' = [s EXCEPT !.pc = "init"]
       /\ disk' = [disk EXCEPT !.snapshots = <<>>, !.count = 0]
  ELSE script' = [s EXCEPT !.pc = "pack", !.after = "init"] /\ UNCHANGED disk

(* What an earlier run has left, and whether it was in this boot.          *)
Begin ==
  /\ script.pc = "start"
  /\ LET n == Len(disk.snapshots)
         s == [script EXCEPT !.not_uploaded = n,
                             !.in_session = IF disk.count # 0 THEN disk.count ELSE n]
     IN IF disk.mark
        THEN script' = [s EXCEPT !.pc = "snapshot"] /\ UNCHANGED disk
        ELSE SessionEnds(s)
  /\ UNCHANGED <<daemon, kernel, mce, boot>>

InitializeSession ==
  /\ script.pc = "init"
  /\ script' = [script EXCEPT !.pc = "snapshot", !.in_session = 0]
  /\ disk' = [disk EXCEPT !.mark = TRUE]
  /\ UNCHANGED <<daemon, kernel, mce, boot>>

\* The session is counted up to what is asked of it.
Snapshot ==
  /\ script.pc = "snapshot"
  /\ disk' = [disk EXCEPT !.snapshots = Append(@, boot)]
  /\ script' = [script EXCEPT !.pc = "count", !.not_uploaded = @ + 1,
                               !.in_session = Min({@ + 1, MinSessionLength})]
  /\ UNCHANGED <<daemon, kernel, mce, boot>>

Full == script.not_uploaded >= SnapshotsToPack

Count ==
  /\ script.pc = "count"
  /\ disk' = [disk EXCEPT !.count = script.in_session]
  /\ script' = [script EXCEPT !.pc = IF Full THEN "pack" ELSE "exit", !.after = "exit"]
  /\ UNCHANGED <<daemon, kernel, mce, boot>>

(* _create_endurance_package(): the snapshots are moved out of the way,    *)
(* then removed one by one as they are packed.                             *)
MoveAside ==
  /\ script.pc = "pack"
  /\ script' = [script EXCEPT !.pc = "packing", !.work = disk.snapshots]
  /\ disk' = [disk EXCEPT !.snapshots = <<>>]
  /\ UNCHANGED <<daemon, kernel, mce, boot>>

Package ==
  /\ script.pc = "packing"
  /\ disk' = [disk EXCEPT !.package = Range(script.work)]
  /\ script' = [script EXCEPT !.pc = script.after, !.work = <<>>]
  /\ UNCHANGED <<daemon, kernel, mce, boot>>

\* The script has come to its end, or is killed wherever it is.
Ends ==
  /\ \/ script.pc = "exit"
     \/ daemon.pc = "off" /\ Running /\ Len(disk.snapshots) < MaxSnapshots
  /\ script' = NoScript
  /\ kernel' = [kernel EXCEPT !.ready = IF daemon.pc = "off" THEN @ ELSE @ \cup {"childexit"}]
  /\ UNCHANGED <<daemon, mce, disk, boot>>

Reboot ==
  /\ boot < MaxBoots
  /\ boot' = boot + 1
  /\ daemon' = Gone /\ kernel' = Closed /\ mce' = FALSE
  /\ script' = NoScript
  /\ disk' = [disk EXCEPT !.mark = FALSE]

-----------------------------------------------------------------------------

Init ==
  /\ daemon = Gone /\ kernel = Closed
  /\ mce = FALSE
  /\ script = NoScript
  /\ disk = [snapshots |-> <<>>, count |-> 0, mark |-> FALSE, package |-> {}]
  /\ boot = 1

DaemonStep == Loop \/ Select \/ Start \/ AfterBootDelay
ScriptStep == Begin \/ InitializeSession \/ Snapshot \/ Count \/ MoveAside \/ Package \/ Ends

Next ==
  \/ DaemonStep \/ SetupFails \/ SelectFails
  \/ HeartbeatComes \/ TimerExpires \/ Sigterm \/ KeepaliveEnds
  \/ ScriptStep \/ Reboot

Spec == Init /\ [][Next]_vars

(* systemd restarts the daemon, the script goes on, and MCE and the        *)
(* heartbeat keep their time.                                              *)
FairSpec ==
  /\ Spec
  /\ WF_vars(DaemonStep) /\ WF_vars(ScriptStep)
  /\ WF_vars(HeartbeatComes) /\ WF_vars(KeepaliveEnds)

-----------------------------------------------------------------------------
(* Properties                                                              *)

(* The device does not go to sleep under a collection: while the daemon    *)
(* and its script run, the keepalive has been sent and will be repeated    *)
(* (main, the heartbeat and the keepalive timer).                          *)
StaysAwake == Running /\ daemon.pc # "off" => mce /\ kernel.timer

(* The device may sleep again after a collection: once its end has been    *)
(* handled nothing sends another keepalive, although the keepalive timer   *)
(* may have expired before the same select() and one is then sent after    *)
(* the request to stop.  MCE ends that one by itself (main).               *)
LetsSleep ==
  daemon.pc = "select" /\ daemon.child_pid = "0" =>
    ~kernel.timer /\ "keepalive" \notin kernel.ready

(* A report is of one session: no snapshots of two boots in it, wherever   *)
(* the script was killed or the device rebooted (endurance-collect).       *)
OneSession == \A b, c \in disk.package : b = c

(* Snapshots go on being taken as long as the daemon lives and fork() does *)
(* not fail (main, the wait for the next heartbeat).                       *)
SnapshotsGoOn ==
  (daemon.pc = "select") ~> (script.pc = "snapshot" \/ daemon.child_pid = "-1" \/ daemon.pc = "off")
=============================================================================
