----------------------------- MODULE UploadBatch -----------------------------
(***************************************************************************)
(* What the upload engine promises to the auto uploader: every file it is  *)
(* given is settled once, as uploaded or as failed, and finished() comes   *)
(* in the step that settles the last of them, no sooner, no later.  Files  *)
(* may be added when it has come; they are reported in turn.  When the     *)
(* process ends nothing is promised any more.                              *)
(***************************************************************************)
EXTENDS Naturals, FiniteSets

CONSTANT Files

VARIABLES
  pending, uploaded, failed,
  reports       \* how often finished() has been emitted

vars == <<pending, uploaded, failed, reports>>

Known == pending \cup uploaded \cup failed

Init ==
  /\ pending = {} /\ uploaded = {} /\ failed = {}
  /\ reports = 0

Submit(f) ==
  /\ f \notin Known
  /\ pending' = pending \cup {f}
  /\ UNCHANGED <<uploaded, failed, reports>>

(* The first file of a batch may fail while it is being submitted.         *)
SubmitAndFail(f) ==
  /\ f \notin Known
  /\ pending = {}
  /\ failed' = failed \cup {f}
  /\ reports' = reports + 1
  /\ UNCHANGED <<pending, uploaded>>

(* One upload is decided at a time, but a failure may take others along.   *)
Settle(done, lost) ==
  /\ done \cup lost # {}
  /\ Cardinality(done) <= 1
  /\ done \cap lost = {}
  /\ pending' = pending \ (done \cup lost)
  /\ uploaded' = uploaded \cup done
  /\ failed' = failed \cup lost
  /\ reports' = IF pending' = {} THEN reports + 1 ELSE reports

End ==
  /\ pending' = {} /\ uploaded' = {} /\ failed' = {}
  /\ reports' = 0

Next ==
  \/ \E f \in Files : Submit(f) \/ SubmitAndFail(f)
  \/ \E done, lost \in SUBSET pending : Settle(done, lost)
  \/ End

Spec == Init /\ [][Next]_vars
=============================================================================
