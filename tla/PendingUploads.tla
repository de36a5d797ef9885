---------------------------- MODULE PendingUploads ----------------------------
(***************************************************************************)
(* The list of pending uploads of the settings page: an adapter lists the  *)
(* core directory, again whenever it changes, and a list model turns each  *)
(* listing into removed and inserted rows, newest report first.  Reports   *)
(* come and go meanwhile.                                                  *)
(***************************************************************************)
EXTENDS SequencesExt

CONSTANTS
  Files,        \* reports
  Created       \* the date each has once it is there

ASSUME FilesAssumption == IsFiniteSet(Files) /\ Created \in [Files -> Nat]

VARIABLES
  disk,         \* the reports there are
  arrived,      \* those there ever were
  raised,       \* the file system watcher has a change to read
  pc,           \* where the adapter is
  listing,      \* the reports it has found
  reportsToUpload,
  contents,     \* the rows of the list model
  missed        \* history: a change that nobody was told of

vars == <<disk, arrived, raised, pc, listing, reportsToUpload, contents, missed>>
listVars == <<pc, listing, reportsToUpload, contents>>

\* The date of a file that is not there, older than any.
Never == 0

Item == [filePath : Files, dateCreated : Nat]

\* "new" until the page opens; the constructor then lists, fills the model and
\* sets the watcher up.
TypeOK ==
  /\ disk \subseteq arrived /\ arrived \subseteq Files
  /\ raised \in BOOLEAN /\ missed \in BOOLEAN
  /\ pc \in {"new", "opening", "unwatched", "idle", "collected"}
  /\ listing \subseteq Files
  /\ reportsToUpload \in 0..Cardinality(Files)
  /\ contents \in Seq(Item)

Init ==
  /\ disk = {} /\ arrived = {}
  /\ raised = FALSE /\ missed = FALSE
  /\ pc = "new" /\ listing = {} /\ reportsToUpload = 0 /\ contents = <<>>

-----------------------------------------------------------------------------
(* The core directory                                                      *)

Watched == pc \in {"idle", "collected"}

\* The directory changes.
Changed ==
  /\ raised' = Watched
  /\ missed' = (missed \/ pc \in {"opening", "unwatched"})

NewReport(f) ==
  /\ f \notin arrived
  /\ arrived' = arrived \cup {f}
  /\ disk' = disk \cup {f}
  /\ Changed
  /\ UNCHANGED listVars

\* By the core monitor, or by the auto uploader, at the request of
\* uploadAllCrashReports() or of another.
ReportRemoved(f) ==
  /\ f \in disk
  /\ disk' = disk \ {f}
  /\ Changed
  /\ UNCHANGED <<arrived, listVars>>

-----------------------------------------------------------------------------
(* PendingUploadsModel                                                     *)

\* A new row goes before the first that is older.
Insert(rows, item) ==
  LET older == {i \in DOMAIN rows : item.dateCreated > rows[i].dateCreated}
  IN  InsertAt(rows, IF older = {} THEN Len(rows) + 1 ELSE Min(older), item)

\* The file is asked for its date when its row is made.
ItemOf(f) == [filePath |-> f, dateCreated |-> IF f \in disk THEN Created[f] ELSE Never]

Rows == {contents[i].filePath : i \in DOMAIN contents}

\* The rows whose report is still there.
Kept(data) ==
  LET kept[n \in 0..Len(contents)] ==      \* of the first n rows
        IF n = 0 THEN <<>>
        ELSE IF contents[n].filePath \in data THEN Append(kept[n - 1], contents[n])
             ELSE kept[n - 1]
  IN  kept[Len(contents)]

Inserted(rows, order) ==
  LET after[n \in 0..Len(order)] ==        \* n reports of the order
        IF n = 0 THEN rows ELSE Insert(after[n - 1], ItemOf(order[n]))
  IN  after[Len(order)]

\* fault: the list is filled anew.
SetDataAnew(data) ==
  \E order \in SetToSeqs(data) : contents' = Inserted(<<>>, order)

(* setData(): rows whose report is gone are removed, and new reports are   *)
(* inserted one by one, in the order of the directory.                     *)
SetData(data) ==
  \E order \in SetToSeqs(data \ Rows) : contents' = Inserted(Kept(data), order)

-----------------------------------------------------------------------------
(* CrashReporterAdapter                                                    *)

Collect ==
  /\ listing' = disk
  /\ reportsToUpload' = Cardinality(disk)
  /\ missed' = FALSE

\* The constructor, up to the first listing.
Open ==
  /\ pc = "new"
  /\ Collect
  /\ pc' = "opening"
  /\ UNCHANGED <<disk, arrived, raised, contents>>

Fill ==
  /\ pc \in {"opening", "collected"}
  /\ SetData(listing)
  /\ pc' = IF pc = "opening" THEN "unwatched" ELSE "idle"
  /\ listing' = {}
  /\ UNCHANGED <<disk, arrived, raised, reportsToUpload, missed>>

AddPaths ==
  /\ pc = "unwatched"
  /\ pc' = "idle"
  /\ UNCHANGED <<disk, arrived, raised, listing, reportsToUpload, contents, missed>>

\* fault: the model is left alone while the number of reports is the same.
DirectoryChangedByNumber ==
  /\ pc = "idle" /\ raised
  /\ raised' = FALSE
  /\ Collect
  /\ pc' = IF reportsToUpload' = reportsToUpload THEN "idle" ELSE "collected"
  /\ UNCHANGED <<disk, arrived, contents>>

\* What has changed since the watcher was last read is one directoryChanged().
DirectoryChanged ==
  /\ pc = "idle" /\ raised
  /\ raised' = FALSE
  /\ Collect
  /\ pc' = "collected"
  /\ UNCHANGED <<disk, arrived, contents>>

\* The user picks a row, whose report may be gone by now.
DeleteCrashReport ==
  /\ pc = "idle"
  /\ \E i \in DOMAIN contents :
       /\ disk' = disk \ {contents[i].filePath}
       /\ IF disk' = disk THEN UNCHANGED <<raised, missed>> ELSE Changed
  /\ UNCHANGED <<arrived, listVars>>

\* What is deleted is what there is, shown or not.
DeleteAllCrashReports ==
  /\ pc = "idle" /\ disk # {}
  /\ disk' = {}
  /\ Changed
  /\ UNCHANGED <<arrived, listVars>>

-----------------------------------------------------------------------------

PageRuns == Open \/ Fill \/ AddPaths \/ DirectoryChanged

Adapter ==
  \/ PageRuns
  \/ DeleteCrashReport \/ DeleteAllCrashReports

Next == Adapter \/ \E f \in Files : NewReport(f) \/ ReportRemoved(f)

Spec == Init /\ [][Next]_vars /\ WF_vars(PageRuns)

-----------------------------------------------------------------------------
(* Properties                                                              *)

(* With no change left to read, the page shows the reports there are, each *)
(* once, and their number; a change may only be missed while the page      *)
(* opens, between the first listing and the watcher                        *)
(* (CrashReporterAdapterPrivate).                                          *)
ShowsWhatIsThere ==
  pc = "idle" /\ ~raised /\ ~missed
    => /\ Rows = disk
       /\ Len(contents) = Cardinality(disk)
       /\ reportsToUpload = Cardinality(disk)

\* Whether f is above g in rows.
Above(rows, f, g) ==
  \E i, j \in DOMAIN rows : i < j /\ rows[i].filePath = f /\ rows[j].filePath = g

(* Rows that stay keep their order, with the same date and above each      *)
(* other as before, so that what the user is about to delete is not moved  *)
(* under the finger (setData).                                             *)
RowsStay ==
  [][\A f, g \in Files : Above(contents, f, g)
       => ~Above(contents', g, f)]_contents
=============================================================================
