------------------------ MODULE UploadEngineRefinement ------------------------
(***************************************************************************)
(* The upload engine against the two specifications next to it: the batch  *)
(* its user sees, and the items it drives.                                 *)
(***************************************************************************)
EXTENDS UploadEngine

Uploaded == {f \in pipe.deleted : pipe.items[f].status = "Finished"}

Batch == INSTANCE UploadBatch WITH
  pending  <- Pending,
  uploaded <- Uploaded,
  failed   <- pipe.deleted \ Uploaded,
  reports  <- Len(pipe.reports)

(* The engine and the queue implement a batch, process after process: each *)
(* file is settled once and for all, and finished() comes with the last of *)
(* those submitted.                                                        *)
ImplementsBatch == Batch!Spec

\* The upload item of f; the queue may delete it while it waits.
TheItem(f) == INSTANCE UploadItem WITH
  Files       <- {f},
  Vanishing   <- Vanishing \cap {f},
  items       <- [g \in {f} |-> pipe.items[g]],
  disk        <- disk \cap {f},
  answered    <- answered \cap {f},
  completions <- [g \in {f} |->
                    IF g \in pipe.deleted /\ pipe.items[g].status # "Waiting"
                    THEN 1 ELSE 0]

(* As long as its process runs, the engine keeps the contract of every     *)
(* item in its queue: it starts it at most once, and it never cancels one  *)
(* that has completed.                                                     *)
KeepsItemContract ==
  [][ProcessEnds \/
     \A f \in Files :
       TheItem(f)!ItemNext(f) \/ UNCHANGED TheItem(f)!vars]_vars
=============================================================================
