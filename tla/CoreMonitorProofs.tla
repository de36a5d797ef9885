--------------------------- MODULE CoreMonitorProofs ---------------------------
(***************************************************************************)
(* Proofs about the core monitor for any number of reports, directories    *)
(* and classes of similar reports.                                         *)
(***************************************************************************)
EXTENDS CoreMonitor, FiniteSetTheorems, TLAPS

(* Reports of class c left from time t on.                                 *)
LeftSince(c, t) == {f \in Files : ClassOf[f] = c /\ left[f] # 0 /\ t <= left[f]}

(* What the count of a class is worth: so many reports of the class have   *)
(* been left since it was started, or Max if it is more, but for those     *)
(* that were counted twice.  A restart sets it to zero, which only makes   *)
(* it worth less.                                                          *)
KeptInv ==
  \A c \in Classes : count[c] > 0 =>
    \/ \E g \in again : ClassOf[g] = c
    \/ Cardinality(LeftSince(c, lastCountReset[c])) >= IF count[c] < Max THEN count[c] ELSE Max

(* What has been handled and is on a file system, mounted or not, is in    *)
(* the list of its directory unless that was read while it was away.       *)
KnownInv ==
  daemon # "down" =>
    \A f \in handled \cap disk : DirOf[f] \notin misread => f \in known[DirOf[f]]

(* Each report that was left has been handled.                             *)
LeftInv == \A f \in Files : left[f] # 0 => f \in handled

IInv == TypeOK /\ KnownInv /\ LeftInv /\ KeptInv

-----------------------------------------------------------------------------
(* Type correctness                                                        *)

(* The lists of known cores stay lists of reports, whatever directories    *)
(* are read.                                                               *)
LEMMA CoreListType ==
  ASSUME TypeOK, NEW ds
  PROVE  CoreList(ds) \in [Dirs -> SUBSET Files]
BY DEF TypeOK, CoreList, Cores

(* ... and it is directories that are misread.                             *)
LEMMA ReadCoreListsType ==
  ASSUME TypeOK, NEW ds \in SUBSET Dirs, ReadCoreLists(ds)
  PROVE  known' \in [Dirs -> SUBSET Files] /\ misread' \subseteq Dirs
BY CoreListType DEF TypeOK, ReadCoreLists

(* addPaths() keeps the watcher's list well typed.                         *)
LEMMA WatchAddedType ==
  ASSUME TypeOK, WatchAdded
  PROVE  watch' \in [Dirs -> {"off", "live", "dead"}]
BY DEF TypeOK, WatchAdded

(* A monitor that is dropped leaves nothing watched or to be read.         *)
LEMMA DropMonitorType ==
  ASSUME TypeOK, DropMonitor
  PROVE  /\ watch' \in [Dirs -> {"off", "live", "dead"}]
         /\ \A d \in Dirs : watch'[d] = "off"
         /\ raised' \cup batch' \cup parents' = {}
         /\ parentRaised' \in BOOLEAN
         /\ count' \in [Classes -> Nat] /\ lastCountReset' \in [Classes -> 0 .. now]
         /\ paths' \subseteq Dirs
<1>1. lastCountReset' \in [Classes -> 0 .. now]
  BY DEF TypeOK, DropMonitor
<1> QED
  BY <1>1 DEF TypeOK, DropMonitor

(* Every step of the environment keeps the types.                          *)
LEMMA EnvironmentType ==
  ASSUME TypeOK, Environment
  PROVE  TypeOK'
<1> USE FilesAssumption, ClassesAssumption, ClockAssumption
<1>1. ASSUME NEW f \in Files, NewCore(f)
      PROVE  TypeOK'
  BY <1>1 DEF TypeOK, NewCore, Touched, classVars, listVars, Monitoring
<1>2. ASSUME NEW f \in Files, FileRemoved(f)
      PROVE  TypeOK'
  BY <1>2 DEF TypeOK, FileRemoved, Touched, classVars, listVars, Monitoring
<1>3. ASSUME NEW d \in Dirs, DirectoryRemoved(d)
      PROVE  TypeOK'
  <2>1. PICK p \in {"removed", "unmounted"} :
          place' = [place EXCEPT ![d] = p] /\ disk' = disk \ Lost(d, p)
    BY <1>3 DEF DirectoryRemoved
  <2>2. place' \in [Dirs -> {"there", "removed", "unmounted"}]
    BY <2>1 DEF TypeOK
  <2>3. disk' \subseteq arrived /\ \A f \in disk' : place'[DirOf[f]] # "removed"
    BY <2>1 DEF TypeOK, Lost
  <2>4. watch' \in [Dirs -> {"off", "live", "dead"}] /\ raised' \subseteq Dirs
        /\ (~Monitoring => raised' = {} /\ \A e \in Dirs : watch'[e] = "off")
    BY <1>3 DEF TypeOK, DirectoryRemoved, Touched
  <2>5. parentRaised' \in BOOLEAN
    BY <1>3 DEF TypeOK, DirectoryRemoved
  <2> QED
    BY <1>3, <2>2, <2>3, <2>4, <2>5 DEF TypeOK, DirectoryRemoved, classVars, listVars, Monitoring
<1>4. ASSUME NEW d \in Dirs, DirectoryCreated(d)
      PROVE  TypeOK'
  <2>1. PICK p \in {"there", "removed"} :
          place' = [place EXCEPT ![d] = p] /\ disk' = disk \ Lost(d, p)
    BY <1>4 DEF DirectoryCreated
  <2>2. place' \in [Dirs -> {"there", "removed", "unmounted"}]
    BY <2>1 DEF TypeOK
  <2>3. disk' \subseteq arrived /\ \A f \in disk' : place'[DirOf[f]] # "removed"
    BY <2>1 DEF TypeOK, Lost
  <2> QED
    BY <1>4, <2>2, <2>3 DEF TypeOK, DirectoryCreated, classVars, listVars, Monitoring
<1>5. CASE TimePasses
  BY <1>5 DEF TypeOK, TimePasses, fsVars, watchVars, listVars, classVars, Monitoring
<1>6. CASE DaemonExits
  BY <1>6, DropMonitorType DEF TypeOK, DaemonExits, fsVars, Monitoring
<1>7. CASE StopCoreMonitoring
  BY <1>7, DropMonitorType DEF TypeOK, StopCoreMonitoring, fsVars, listVars, Monitoring
<1>8. CASE StartCoreMonitoring
  <2>1. known' \in [Dirs -> SUBSET Files] /\ misread' \subseteq Dirs
    BY <1>8, ReadCoreListsType DEF TypeOK, StartCoreMonitoring, Refresh, listVars
  <2> QED
    BY <1>8, <2>1
       DEF TypeOK, StartCoreMonitoring, Refresh, Present, fsVars, watchVars, classVars, Monitoring
<1> QED
  BY <1>1, <1>2, <1>3, <1>4, <1>5, <1>6, <1>7, <1>8 DEF Environment

(* Handling a new core keeps the types.                                    *)
LEMMA HandleCoreType ==
  ASSUME TypeOK, NEW d \in Dirs, HandleCore(d)
  PROVE  TypeOK'
<1> USE FilesAssumption, ClassesAssumption, ClockAssumption
<1>1. PICK f \in Cores(d) \ known[d] :
        /\ known' = [known EXCEPT ![d] = @ \cup {f}]
        /\ handled' = handled \cup {f} /\ again' = again \cup (handled \cap {f})
        /\ \/ /\ ClassOf[f] # NoClass
              /\ count' = [count EXCEPT ![ClassOf[f]] = CountUp(ClassOf[f]).n]
              /\ lastCountReset' =
                   [lastCountReset EXCEPT ![ClassOf[f]] = CountUp(ClassOf[f]).reset]
              /\ \/ left' = left
                 \/ left' = [left EXCEPT ![f] = now]
           \/ UNCHANGED classVars
        /\ \/ disk' = disk \ {f} /\ raised' = Touched(d) /\ requested' = requested
           \/ UNCHANGED <<disk, raised>> /\ requested' \in {requested, requested \cup AllCores}
  BY DEF HandleCore, Request
<1>2. f \in disk /\ f \in Files
  BY <1>1 DEF Cores, TypeOK
<1>3. ClassOf[f] # NoClass =>
        CountUp(ClassOf[f]).n \in Nat /\ CountUp(ClassOf[f]).reset \in 0 .. now
  BY <1>2 DEF CountUp, TypeOK
<1>4. /\ count' \in [Classes -> Nat] /\ left' \in [Files -> 0 .. now]
      /\ lastCountReset' \in [Classes -> 0 .. now]
  BY <1>1, <1>2, <1>3 DEF TypeOK, classVars
<1>5. disk' \subseteq disk /\ raised' \subseteq Dirs /\ requested' \subseteq arrived
  BY <1>1 DEF TypeOK, Touched, AllCores, Cores
<1>6. known' \in [Dirs -> SUBSET Files] /\ handled' \subseteq arrived /\ again' \subseteq handled'
  BY <1>1, <1>2 DEF TypeOK
<1> QED
  BY <1>4, <1>5, <1>6 DEF TypeOK, HandleCore, Monitoring

(* Every step of the daemon keeps the types.                               *)
LEMMA DaemonStepType ==
  ASSUME TypeOK, DaemonStep
  PROVE  TypeOK'
<1>1. CASE ReadEvents
  BY <1>1 DEF TypeOK, ReadEvents, fsVars, listVars, classVars, Monitoring
<1>2. ASSUME NEW d \in Dirs, HandleCore(d)
      PROVE  TypeOK'
  BY <1>2, HandleCoreType
<1>3. ASSUME NEW d \in Dirs, NothingNew(d)
      PROVE  TypeOK'
  BY <1>3 DEF TypeOK, NothingNew, fsVars, listVars, classVars, Monitoring
<1>4. ASSUME NEW d \in Dirs, DirectoryGone(d)
      PROVE  TypeOK'
  BY <1>4 DEF TypeOK, DirectoryGone, fsVars, listVars, classVars, Monitoring
<1>5. CASE UpdateCoreList
  BY <1>5, ReadCoreListsType DEF TypeOK, UpdateCoreList, fsVars, watchVars, classVars, Monitoring
<1>6. CASE ParentDirectoryChanged
  <2>1. known' \in [Dirs -> SUBSET Files] /\ misread' \subseteq Dirs
    BY <1>6, ReadCoreListsType DEF TypeOK, ParentDirectoryChanged, Refresh, listVars
  <2> QED
    BY <1>6, <2>1 DEF TypeOK, ParentDirectoryChanged, Refresh, Present, fsVars, classVars, Monitoring
<1>7. CASE ReAddPaths
  BY <1>7, WatchAddedType DEF TypeOK, ReAddPaths, fsVars, listVars, classVars, Monitoring
<1>8. CASE DaemonStarts
  <2>1. place' \in [Dirs -> {"there", "removed", "unmounted"}] /\ \A d \in Dirs : place'[d] # "removed"
    BY <1>8 DEF TypeOK, DaemonStarts, CoreDirectoriesCreated
  <2> QED
    BY <1>8, <2>1, ReadCoreListsType, FilesAssumption
       DEF TypeOK, DaemonStarts, watchVars, classVars, Monitoring
<1>9. CASE DaemonStarted
  BY <1>9, WatchAddedType DEF TypeOK, DaemonStarted, AllCores, Cores, fsVars, listVars, classVars, Monitoring
<1>10. CASE CoreMonitoringStarted
  BY <1>10, WatchAddedType DEF TypeOK, CoreMonitoringStarted, fsVars, listVars, classVars, Monitoring
<1> QED
  BY <1>1, <1>2, <1>3, <1>4, <1>5, <1>6, <1>7, <1>8, <1>9, <1>10 DEF DaemonStep

(* The initial states are well typed.                                      *)
LEMMA InitialType ==
  ASSUME Init
  PROVE  TypeOK
<1>1. place \in [Dirs -> {"there", "removed", "unmounted"}]
  BY DEF Init
<1>2. /\ now \in Nat \ {0} /\ count \in [Classes -> Nat]
      /\ lastCountReset \in [Classes -> 0 .. now] /\ left \in [Files -> 0 .. now]
  BY DEF Init
<1> QED
  BY <1>1, <1>2 DEF Init, TypeOK, Monitoring

(* Every reachable state of the monitor is well typed.                     *)
THEOREM TypeCorrect == Spec => []TypeOK
<1>1. Init => TypeOK
  BY InitialType
<1>2. TypeOK /\ [Next]_vars => TypeOK'
  <2>1. ASSUME TypeOK, UNCHANGED vars
        PROVE  TypeOK'
    BY <2>1 DEF TypeOK, vars, fsVars, watchVars, listVars, classVars, Monitoring
  <2> QED
    BY <2>1, EnvironmentType, DaemonStepType DEF Next
<1> QED
  BY <1>1, <1>2, PTL DEF Spec
-----------------------------------------------------------------------------
(* What has been handled stays known                                       *)

(* A list read anew holds what is there, and what it held of directories   *)
(* that are not read is unchanged.                                         *)
LEMMA CoreListKnows ==
  ASSUME TypeOK, KnownInv, daemon # "down", NEW ds \in SUBSET Dirs,
         ReadCoreLists(ds), UNCHANGED <<place, disk, handled>>
  PROVE  KnownInv'
BY FilesAssumption DEF TypeOK, KnownInv, ReadCoreLists, CoreList, Cores

(* Every step of the environment keeps KnownInv: a new report has          *)
(* not been there before, and the others only take reports away.           *)
LEMMA EnvironmentKnows ==
  ASSUME TypeOK, KnownInv, Environment
  PROVE  KnownInv'
<1> USE DEF KnownInv
<1>1. ASSUME NEW f \in Files, NewCore(f)
      PROVE  KnownInv'
  BY <1>1 DEF TypeOK, NewCore, listVars
<1>2. ASSUME NEW f \in Files, FileRemoved(f)
      PROVE  KnownInv'
  BY <1>2 DEF FileRemoved, listVars
<1>3. ASSUME NEW d \in Dirs, DirectoryRemoved(d)
      PROVE  KnownInv'
  BY <1>3 DEF DirectoryRemoved, listVars
<1>4. ASSUME NEW d \in Dirs, DirectoryCreated(d)
      PROVE  KnownInv'
  BY <1>4 DEF DirectoryCreated, listVars
<1>5. CASE TimePasses
  BY <1>5 DEF TimePasses, fsVars, listVars
<1>6. CASE DaemonExits
  BY <1>6 DEF DaemonExits
<1>7. CASE StopCoreMonitoring
  BY <1>7 DEF StopCoreMonitoring, fsVars, listVars
<1>8. CASE StartCoreMonitoring
  BY <1>8, CoreListKnows DEF StartCoreMonitoring, Refresh, fsVars, listVars
<1> QED
  BY <1>1, <1>2, <1>3, <1>4, <1>5, <1>6, <1>7, <1>8 DEF Environment

(* Every step of the daemon keeps KnownInv: what is handled is put         *)
(* on the list in the same step.                                           *)
LEMMA DaemonStepKnows ==
  ASSUME TypeOK, KnownInv, DaemonStep
  PROVE  KnownInv'
<1>1. CASE ReadEvents
  BY <1>1 DEF KnownInv, ReadEvents, fsVars, listVars
<1>2. ASSUME NEW d \in Dirs, HandleCore(d)
      PROVE  KnownInv'
  <2>1. PICK f \in Cores(d) \ known[d] :
          /\ known' = [known EXCEPT ![d] = @ \cup {f}]
          /\ handled' = handled \cup {f}
          /\ disk' \subseteq disk
          /\ place' = place /\ misread' = misread
    BY <1>2 DEF HandleCore
  <2>2. DirOf[f] = d
    BY <2>1 DEF Cores
  <2>3. daemon # "down" /\ daemon' = daemon
    BY <1>2 DEF HandleCore
  <2> QED
    BY <2>1, <2>2, <2>3 DEF TypeOK, KnownInv
<1>3. ASSUME NEW d \in Dirs, NothingNew(d)
      PROVE  KnownInv'
  BY <1>3 DEF KnownInv, NothingNew, fsVars, listVars
<1>4. ASSUME NEW d \in Dirs, DirectoryGone(d)
      PROVE  KnownInv'
  BY <1>4 DEF KnownInv, DirectoryGone, fsVars, listVars
<1>5. CASE UpdateCoreList
  BY <1>5, CoreListKnows DEF TypeOK, UpdateCoreList, fsVars
<1>6. CASE ParentDirectoryChanged
  BY <1>6, CoreListKnows
     DEF TypeOK, ParentDirectoryChanged, KnownInv, Refresh, fsVars, listVars
<1>7. CASE ReAddPaths
  BY <1>7 DEF KnownInv, ReAddPaths, fsVars, listVars
<1>8. CASE DaemonStarts
  BY <1>8, FilesAssumption DEF TypeOK, KnownInv, DaemonStarts, ReadCoreLists, CoreList, Cores
<1>9. CASE DaemonStarted
  BY <1>9 DEF KnownInv, DaemonStarted, fsVars, listVars
<1>10. CASE CoreMonitoringStarted
  BY <1>10 DEF KnownInv, CoreMonitoringStarted, fsVars, listVars
<1> QED
  BY <1>1, <1>2, <1>3, <1>4, <1>5, <1>6, <1>7, <1>8, <1>9, <1>10 DEF DaemonStep

(* HandledStayKnown: whatever happens to the directories and to the        *)
(* daemon, a report that is still there is not taken for a new one again,  *)
(* unless its list was read while its file system was away.                *)
THEOREM HandledOnce == Spec => []HandledStayKnown
<1>1. Init => KnownInv
  BY DEF Init, KnownInv
<1>2. TypeOK /\ KnownInv /\ [Next]_vars => KnownInv'
  <2>1. ASSUME KnownInv, UNCHANGED vars
        PROVE  KnownInv'
    BY <2>1 DEF KnownInv, vars, fsVars, listVars
  <2> QED
    BY <2>1, EnvironmentKnows, DaemonStepKnows DEF Next
<1>3. KnownInv => HandledStayKnown
  BY DEF KnownInv, HandledStayKnown, Cores
<1> QED
  BY <1>1, <1>2, <1>3, TypeCorrect, PTL DEF Spec
-----------------------------------------------------------------------------
(* Only what is in excess is deleted                                       *)

(* There are only finitely many reports; a set of them is not smaller than *)
(* its parts.                                                              *)
LEMMA Fewer ==
  ASSUME NEW S \in SUBSET Files, NEW T \in SUBSET S
  PROVE  Cardinality(T) \in Nat /\ Cardinality(S) \in Nat /\ Cardinality(T) <= Cardinality(S)
BY FilesAssumption, FS_Subset, FS_CardinalityType

(* A report that is not there yet makes a set larger by one.               *)
LEMMA OneMore ==
  ASSUME NEW S \in SUBSET Files, NEW f \in Files
  PROVE  /\ Cardinality(S) \in Nat /\ Cardinality(S \cup {f}) \in Nat
         /\ Cardinality(S \cup {f}) = Cardinality(S) + (IF f \in S THEN 0 ELSE 1)
BY FilesAssumption, FS_Subset, FS_CardinalityType, FS_AddElement

(* Two sets together have no more reports than each for itself.            *)
LEMMA Together ==
  ASSUME NEW S \in SUBSET Files, NEW T \in SUBSET Files
  PROVE  /\ Cardinality(S \cup T) \in Nat
         /\ Cardinality(S \cup T) <= Cardinality(S) + Cardinality(T)
<1>1. IsFiniteSet(S) /\ IsFiniteSet(T) /\ IsFiniteSet(S \cup T) /\ IsFiniteSet(S \cap T)
  BY FilesAssumption, FS_Subset
<1>2. Cardinality(S \cup T) = Cardinality(S) + Cardinality(T) - Cardinality(S \cap T)
  BY <1>1, FS_Union
<1> QED
  BY <1>1, <1>2, FS_CardinalityType

(* A set with a report in it is not empty.                                 *)
LEMMA AtLeastOne ==
  ASSUME NEW T \in SUBSET Files, NEW f \in T
  PROVE  Cardinality(T) >= 1
<1>1. Cardinality({f}) = 1
  BY FS_Singleton
<1> QED
  BY <1>1, Fewer

(* A set that has another and one more is larger by one at least.          *)
LEMMA OneMoreAtLeast ==
  ASSUME NEW S \in SUBSET Files, NEW f \in Files \ S, NEW T \in SUBSET Files,
         S \cup {f} \subseteq T
  PROVE  Cardinality(T) >= Cardinality(S) + 1
<1>1. Cardinality(S \cup {f}) = Cardinality(S) + 1
  BY OneMore
<1>2. Cardinality(S \cup {f}) <= Cardinality(T)
  BY Fewer
<1> QED
  BY <1>1, <1>2

(* A set that has nothing but another and one more is so at most.          *)
LEMMA OneMoreAtMost ==
  ASSUME NEW S \in SUBSET Files, NEW f \in Files, NEW T \in SUBSET (S \cup {f})
  PROVE  Cardinality(T) \in Nat /\ Cardinality(T) <= Cardinality(S) + 1
<1>1. Cardinality(S \cup {f}) <= Cardinality(S) + 1 /\ Cardinality(S) \in Nat
  BY OneMore
<1>2. S \cup {f} \in SUBSET Files
  OBVIOUS
<1>3. Cardinality(T) <= Cardinality(S \cup {f}) /\ Cardinality(T) \in Nat
      /\ Cardinality(S \cup {f}) \in Nat
  BY <1>2, Fewer
<1> QED
  BY <1>1, <1>3

(* A step counts report f, and leaves it unless it is one too many.        *)
Counts(f) ==
  LET c  == ClassOf[f]
      up == CountUp(c)
  IN  /\ count' = [count EXCEPT ![c] = up.n]
      /\ lastCountReset' = [lastCountReset EXCEPT ![c] = up.reset]
      /\ left' = IF up.excess THEN left ELSE [left EXCEPT ![f] = now]
      /\ now' = now

(* HandleCore() counts a report of a class, unless duplicates are kept.    *)
LEMMA HandleCoreCounts ==
  ASSUME NEW d \in Dirs, HandleCore(d)
  PROVE  \E f \in Cores(d) \ known[d] :
           /\ handled' = handled \cup {f} /\ again' = again \cup (handled \cap {f})
           /\ IF AutoDelete /\ ClassOf[f] # NoClass THEN Counts(f) ELSE UNCHANGED <<classVars, now>>
BY DEF HandleCore, Counts

(* What counting f means for its class c, and that it changes no other.    *)
LEMMA CountsOnly ==
  ASSUME TypeOK, NEW f \in Files, ClassOf[f] # NoClass, Counts(f)
  PROVE  LET c    == ClassOf[f]
             anew == count[c] = 0 \/ lastCountReset[c] + Day < now
         IN  /\ c \in Classes
             /\ count[c] \in Nat /\ lastCountReset[c] \in 0 .. now /\ now' = now
             /\ count'[c] = IF anew THEN 1 ELSE count[c] + 1
             /\ lastCountReset'[c] = IF anew THEN now ELSE lastCountReset[c]
             /\ IF count'[c] > Max THEN left' = left
                ELSE left' = [left EXCEPT ![f] = now] /\ left'[f] = now
             /\ \A b \in Classes \ {c} :
                  count'[b] = count[b] /\ lastCountReset'[b] = lastCountReset[b]
             /\ \A g \in Files : g # f => left'[g] = left[g]
BY ClassesAssumption DEF TypeOK, Counts, CountUp

(* HandleCore() keeps KeptInv: a class is counted up together with the     *)
(* report that is left, which had not been before unless it is counted     *)
(* twice.                                                                  *)
LEMMA HandleCoreKept ==
  ASSUME IInv, NEW d \in Dirs, HandleCore(d)
  PROVE  LeftInv' /\ KeptInv'
<1> USE ClassesAssumption, ClockAssumption
<1>1. PICK f \in Cores(d) \ known[d] :
        /\ handled' = handled \cup {f} /\ again' = again \cup (handled \cap {f})
        /\ IF AutoDelete /\ ClassOf[f] # NoClass THEN Counts(f) ELSE UNCHANGED <<classVars, now>>
  BY HandleCoreCounts
<1>2. f \in Files
  BY <1>1 DEF Cores, IInv, TypeOK
<1>3. CASE ~(AutoDelete /\ ClassOf[f] # NoClass)
  BY <1>1, <1>3 DEF IInv, LeftInv, KeptInv, LeftSince, classVars
<1>4. CASE AutoDelete /\ ClassOf[f] # NoClass
  <2> DEFINE c == ClassOf[f]
             anew == count[c] = 0 \/ lastCountReset[c] + Day < now
             S == LeftSince(c, lastCountReset[c])
             T == LeftSince(c, lastCountReset[c])'
  <2>1. /\ c \in Classes
        /\ count[c] \in Nat /\ lastCountReset[c] \in 0 .. now /\ now' = now
        /\ count'[c] = IF anew THEN 1 ELSE count[c] + 1
        /\ lastCountReset'[c] = IF anew THEN now ELSE lastCountReset[c]
        /\ IF count'[c] > Max THEN left' = left ELSE left'[f] = now
        /\ \A b \in Classes \ {c} : count'[b] = count[b] /\ lastCountReset'[b] = lastCountReset[b]
        /\ \A g \in Files : g # f => left'[g] = left[g]
    BY <1>1, <1>2, <1>4, CountsOnly DEF IInv
  <2>2. LeftInv'
    BY <1>1, <2>1 DEF IInv, LeftInv
  <2>3. ASSUME NEW b \in Classes, count'[b] > 0, b # c
        PROVE  \/ \E g \in again' : ClassOf[g] = b
               \/ Cardinality(LeftSince(b, lastCountReset[b])')
                    >= IF count'[b] < Max THEN count'[b] ELSE Max
    <3>1. LeftSince(b, lastCountReset[b])' = LeftSince(b, lastCountReset[b])
      BY <2>1, <2>3 DEF LeftSince
    <3> QED
      BY <1>1, <2>1, <2>3, <3>1 DEF IInv, KeptInv
  <2>4. CASE \E g \in again' : ClassOf[g] = c
    BY <2>2, <2>3, <2>4 DEF KeptInv
  <2>5. CASE ~\E g \in again' : ClassOf[g] = c
    <3>1. f \notin handled /\ left[f] = 0 /\ ~\E g \in again : ClassOf[g] = c
      BY <1>1, <1>2, <2>5 DEF IInv, LeftInv
    <3>2. S \in SUBSET Files /\ T \in SUBSET Files /\ f \notin S
      BY <3>1 DEF LeftSince
    <3>3. Cardinality(S) \in Nat /\ Cardinality(T) \in Nat
      BY <3>2, Fewer
    <3>4. now \in Nat \ {0} /\ Max \in Nat \ {0}
      BY DEF IInv, TypeOK
    <3>5. CASE anew
      <4>1. count'[c] = 1 /\ lastCountReset'[c] = now /\ left'[f] = now
        BY <2>1, <3>4, <3>5
      <4>2. {f} \in SUBSET T
        BY <1>2, <3>4, <4>1 DEF LeftSince
      <4>3. Cardinality(T) >= 1
        BY <3>2, <4>2, AtLeastOne
      <4> QED
        BY <2>2, <2>3, <3>4, <4>1, <4>3 DEF KeptInv
    <3>6. CASE ~anew
      <4>1. /\ count'[c] = count[c] + 1 /\ lastCountReset'[c] = lastCountReset[c]
            /\ count[c] > 0
        BY <2>1, <3>6
      <4>2. Cardinality(S) >= IF count[c] < Max THEN count[c] ELSE Max
        BY <2>1, <3>1, <4>1 DEF IInv, KeptInv
      <4>3. CASE count'[c] > Max
        <5>1. T = S
          BY <2>1, <4>1, <4>3 DEF LeftSince
        <5> QED
          BY <2>1, <2>2, <2>3, <3>3, <3>4, <4>1, <4>2, <4>3, <5>1 DEF KeptInv
      <4>4. CASE ~(count'[c] > Max)
        <5>1. S \cup {f} \in SUBSET T
          BY <1>2, <2>1, <3>1, <3>4, <4>1, <4>4 DEF LeftSince
        <5>2. Cardinality(T) >= Cardinality(S) + 1
          BY <1>2, <3>2, <5>1, OneMoreAtLeast
        <5> QED
          BY <2>1, <2>2, <2>3, <3>3, <3>4, <4>1, <4>2, <4>4, <5>2 DEF KeptInv
      <4> QED
        BY <4>3, <4>4
    <3> QED
      BY <3>5, <3>6
  <2> QED
    BY <2>4, <2>5
<1> QED
  BY <1>3, <1>4

(* IInv is inductive.                                                      *)
LEMMA Inductive ==
  ASSUME IInv, [Next]_vars
  PROVE  IInv'
<1>1. TypeOK' /\ KnownInv'
  <2>1. CASE Next
    BY <2>1, EnvironmentType, DaemonStepType, EnvironmentKnows, DaemonStepKnows DEF IInv, Next
  <2>2. CASE UNCHANGED vars
    BY <2>2 DEF IInv, TypeOK, KnownInv, vars, fsVars, watchVars, listVars, classVars, Monitoring
  <2> QED
    BY <2>1, <2>2
<1>2. LeftInv' /\ KeptInv'
  <2>1. ASSUME UNCHANGED <<classVars, handled, again>>
        PROVE  LeftInv' /\ KeptInv'
    BY <2>1 DEF IInv, LeftInv, KeptInv, LeftSince, classVars
  <2>2. CASE \E d \in Dirs : HandleCore(d)
    BY <2>2, HandleCoreKept
  <2>3. CASE TimePasses
    BY <2>1, <2>3 DEF TimePasses
  <2>4. CASE DaemonExits \/ StopCoreMonitoring
    <3>1. \A c \in Classes : count'[c] = 0
      BY <2>4 DEF DaemonExits, StopCoreMonitoring, DropMonitor
    <3>2. left' = left /\ handled' = handled
      BY <2>4 DEF DaemonExits, StopCoreMonitoring
    <3> QED
      BY <3>1, <3>2 DEF IInv, LeftInv, KeptInv
  <2>5. CASE \E f \in Files : NewCore(f) \/ FileRemoved(f)
    BY <2>1, <2>5 DEF NewCore, FileRemoved
  <2>6. CASE \E d \in Dirs : DirectoryRemoved(d) \/ DirectoryCreated(d)
    BY <2>1, <2>6 DEF DirectoryRemoved, DirectoryCreated
  <2>7. CASE StartCoreMonitoring
    BY <2>1, <2>7 DEF StartCoreMonitoring
  <2>8. CASE \E d \in Dirs : NothingNew(d) \/ DirectoryGone(d)
    BY <2>1, <2>8 DEF NothingNew, DirectoryGone
  <2>9. CASE ReadEvents \/ UpdateCoreList \/ ParentDirectoryChanged \/ ReAddPaths
    BY <2>1, <2>9 DEF ReadEvents, UpdateCoreList, ParentDirectoryChanged, ReAddPaths
  <2>10. CASE DaemonStarts \/ DaemonStarted \/ CoreMonitoringStarted
    BY <2>1, <2>10 DEF DaemonStarts, DaemonStarted, CoreMonitoringStarted
  <2>11. CASE UNCHANGED vars
    BY <2>1, <2>11 DEF vars
  <2> QED
    BY <2>2, <2>3, <2>4, <2>5, <2>6, <2>7, <2>8, <2>9, <2>10, <2>11
       DEF Next, Environment, DaemonStep
<1> QED
  BY <1>1, <1>2 DEF IInv

(* At first nothing has been counted and nothing left.                     *)
LEMMA Initially ==
  ASSUME Init
  PROVE  IInv
<1>1. TypeOK
  BY InitialType
<1> QED
  BY <1>1 DEF Init, IInv, KnownInv, LeftInv, KeptInv

(* A report that a step of the daemon handles and deletes is of a class of *)
(* which at least Max are left, and within the last day.                   *)
LEMMA DeletedIsExcess ==
  ASSUME IInv, [Next]_vars, NEW f \in Files, f \in disk \ disk', f \in handled' \ handled
  PROVE  /\ ClassOf[f] # NoClass
         /\ \/ Cardinality({g \in LeftWithin(ClassOf[f], 0, now) : now <= left[g] + Day}) >= Max
            \/ \E g \in again : ClassOf[g] = ClassOf[f]
<1>1. PICK d \in Dirs : HandleCore(d)
  <2>1. handled' # handled
    OBVIOUS
  <2> QED
    BY <2>1
       DEF Next, Environment, DaemonStep, vars, NewCore, FileRemoved, DirectoryRemoved,
           DirectoryCreated, TimePasses, DaemonExits, StopCoreMonitoring, StartCoreMonitoring,
           ReadEvents, NothingNew, DirectoryGone, UpdateCoreList, ParentDirectoryChanged,
           ReAddPaths, DaemonStarts, DaemonStarted, CoreMonitoringStarted
<1> DEFINE c == ClassOf[f]
           r == lastCountReset[c]
<1>2. c # NoClass /\ CountUp(c).excess
  <2>1. PICK g \in Cores(d) \ known[d] :
          /\ handled' = handled \cup {g}
          /\ ~(AutoDelete /\ ClassOf[g] # NoClass /\ CountUp(ClassOf[g]).excess) => disk' = disk
    BY <1>1 DEF HandleCore
  <2>2. g = f
    BY <2>1
  <2> QED
    BY <2>1, <2>2
<1>3. c \in Classes /\ count[c] \in Nat /\ r \in Nat /\ now \in Nat /\ Max \in Nat \ {0} /\ Day \in Nat
  BY <1>2, ClassesAssumption, ClockAssumption DEF IInv, TypeOK
<1>4. count[c] > 0 /\ now <= r + Day /\ count[c] >= Max
  <2>1. (IF count[c] = 0 \/ r + Day < now THEN 1 ELSE count[c] + 1) > Max
    BY <1>2 DEF CountUp
  <2> QED
    BY <1>3, <2>1
<1>5. CASE Cardinality(LeftSince(c, r)) >= Max
  <2>1. /\ LeftSince(c, r) \in SUBSET {g \in LeftWithin(c, 0, now) : now <= left[g] + Day}
        /\ {g \in LeftWithin(c, 0, now) : now <= left[g] + Day} \in SUBSET Files
    BY <1>3, <1>4 DEF LeftSince, LeftWithin, IInv, TypeOK
  <2> QED
    BY <1>2, <1>3, <1>5, <2>1, Fewer
<1> QED
  BY <1>2, <1>3, <1>4, <1>5 DEF IInv, KeptInv

(* OnlyExcessDeleted: nothing is deleted as a duplicate before Max reports *)
(* like it have been left within the last day.                             *)
THEOREM NothingNewDeleted == Spec => OnlyExcessDeleted
<1>1. Init => IInv
  BY Initially
<1>2. IInv /\ [Next]_vars => IInv'
  BY Inductive
<1>3. IInv /\ [Next]_vars =>
        [\A f \in Files :
           f \in disk \ disk' /\ f \in handled' \ handled =>
             /\ ClassOf[f] # NoClass
             /\ \/ Cardinality({g \in LeftWithin(ClassOf[f], 0, now) : now <= left[g] + Day}) >= Max
                \/ \E g \in again : ClassOf[g] = ClassOf[f]]_vars
  BY DeletedIsExcess
<1> QED
  BY <1>1, <1>2, <1>3, PTL DEF Spec, OnlyExcessDeleted
-----------------------------------------------------------------------------
(* While it runs, the daemon lets few reports of a class pass in a day     *)

(* Reports of class c left before time t, but less than a day ago by then. *)
LeftBefore(c, t) ==
  {f \in Files : ClassOf[f] = c /\ left[f] # 0 /\ left[f] < t /\ t <= left[f] + Day}

(* The other side of KeptInv, which a restart of the monitor breaks: since *)
(* the count was started no more have been left than it says, the first    *)
(* when it was started; and all but the first of the count before it may   *)
(* have been left in the day before that.                                  *)
CountedClass(c) ==
  LET r == lastCountReset[c]
      m == IF count[c] < Max THEN count[c] ELSE Max
  IN  /\ count[c] = 0 => \A f \in Files : ClassOf[f] = c => left[f] = 0
      /\ count[c] > 0 =>
           /\ \A f \in Files : ClassOf[f] = c => left[f] <= r + Day
           /\ Cardinality(LeftSince(c, r)) <= m
           /\ Cardinality(LeftSince(c, r + 1)) + 1 <= m
           /\ Cardinality(LeftBefore(c, r)) + 1 <= Max

CountedInv == LessThanTwiceMax /\ \A c \in Classes : CountedClass(c)

(* Counting f does not change what is true of other classes.               *)
LEMMA OthersCounted ==
  ASSUME IInv, CountedInv, NEW f \in Files, ClassOf[f] # NoClass, Counts(f),
         NEW b \in Classes, b # ClassOf[f]
  PROVE  /\ CountedClass(b)'
         /\ \A t \in 1 .. now : Cardinality(LeftWithin(b, t, t + Day)') < 2 * Max
<1>1. /\ count'[b] = count[b] /\ lastCountReset'[b] = lastCountReset[b]
      /\ \A g \in Files : g # f => left'[g] = left[g]
  BY CountsOnly DEF IInv
<1>2. \A t : /\ LeftSince(b, t)' = LeftSince(b, t) /\ LeftBefore(b, t)' = LeftBefore(b, t)
             /\ LeftWithin(b, t, t + Day)' = LeftWithin(b, t, t + Day)
  BY <1>1 DEF LeftSince, LeftBefore, LeftWithin
<1>3. /\ LeftSince(b, lastCountReset[b])' = LeftSince(b, lastCountReset[b])
      /\ LeftSince(b, lastCountReset[b] + 1)' = LeftSince(b, lastCountReset[b] + 1)
      /\ LeftBefore(b, lastCountReset[b])' = LeftBefore(b, lastCountReset[b])
  BY <1>1 DEF LeftSince, LeftBefore
<1>4. \A g \in Files : ClassOf[g] = b => left'[g] = left[g]
  BY <1>1
<1>5. CountedClass(b)'
  BY <1>1, <1>3, <1>4 DEF CountedInv, CountedClass
<1> QED
  BY <1>2, <1>5 DEF CountedInv, LessThanTwiceMax

(* A count that is started: the first report since, and what came before.  *)
LEMMA CountedAnew ==
  ASSUME IInv, CountedInv, NEW f \in Files, ClassOf[f] # NoClass, Counts(f),
         count[ClassOf[f]] = 0 \/ lastCountReset[ClassOf[f]] + Day < now
  PROVE  /\ CountedClass(ClassOf[f])'
         /\ \A t \in 1 .. now : Cardinality(LeftWithin(ClassOf[f], t, t + Day)') < 2 * Max
<1> USE ClassesAssumption, ClockAssumption
<1> DEFINE c == ClassOf[f]
           r == lastCountReset[c]
           \* Those of the count before this one that were left in the last day.
           Old == {g \in Files : ClassOf[g] = c /\ left[g] # 0 /\ now <= left[g] + Day}
<1>1. /\ c \in Classes
      /\ count[c] \in Nat /\ r \in 0 .. now /\ now' = now
      /\ count'[c] = 1 /\ lastCountReset'[c] = now
      /\ left'[f] = now
      /\ \A g \in Files : g # f => left'[g] = left[g]
  BY CountsOnly DEF IInv
<1>2. now \in Nat \ {0} /\ Max \in Nat \ {0} /\ Day \in Nat \ {0} /\ \A g \in Files : left[g] \in 0 .. now
  BY DEF IInv, TypeOK
<1>3. /\ \A g \in Files : ClassOf[g] = c => left[g] < now
      /\ Cardinality(Old) \in Nat /\ Cardinality(Old) + 1 <= Max
  <2>1. CountedClass(c)
    BY <1>1 DEF CountedInv
  <2>2. CASE count[c] = 0
    <3>1. Old = {} /\ \A g \in Files : ClassOf[g] = c => left[g] = 0
      BY <2>1, <2>2 DEF CountedClass
    <3> QED
      <4>1. Cardinality(Old) = 0
        BY <3>1, FS_EmptySet
      <4> QED
        BY <1>2, <3>1, <4>1
  <2>3. CASE count[c] # 0
    <3>1. \A g \in Files : ClassOf[g] = c => left[g] <= r + Day
      BY <1>1, <2>1, <2>3 DEF CountedClass
    <3>2. r + Day < now
      BY <2>3
    <3>3. Old \in SUBSET LeftSince(c, r + 1) /\ LeftSince(c, r + 1) \in SUBSET Files
      BY <1>1, <1>2, <3>2 DEF LeftSince
    <3>4. Cardinality(LeftSince(c, r + 1)) + 1 <= Max
      BY <1>1, <1>2, <2>1, <2>3, <3>3, Fewer DEF CountedClass
    <3> QED
      BY <1>1, <1>2, <3>1, <3>2, <3>3, <3>4, Fewer
  <2> QED
    BY <2>2, <2>3
<1>4. /\ LeftSince(c, now)' = {f} /\ LeftSince(c, now + 1)' = {}
      /\ LeftBefore(c, now)' \in SUBSET Old /\ Old \in SUBSET Files
  BY <1>1, <1>2, <1>3 DEF LeftSince, LeftBefore
<1>5. CountedClass(c)'
  <2>1. Cardinality({f}) = 1 /\ Cardinality({}) = 0
    BY FS_Singleton, FS_EmptySet
  <2>2. /\ LeftSince(c, lastCountReset[c])' = {f} /\ LeftSince(c, lastCountReset[c] + 1)' = {}
        /\ LeftBefore(c, lastCountReset[c])' \in SUBSET Old
    BY <1>1, <1>4
  <2>3. Cardinality(LeftBefore(c, lastCountReset[c])') + 1 <= Max
    BY <1>2, <1>3, <1>4, <2>2, Fewer
  <2>4. \A g \in Files : ClassOf[g] = c => left'[g] <= now + Day
    BY <1>1, <1>2
  <2> QED
    BY <1>1, <1>2, <2>1, <2>2, <2>3, <2>4 DEF CountedClass
<1>6. ASSUME NEW t \in 1 .. now
      PROVE  Cardinality(LeftWithin(c, t, t + Day)') < 2 * Max
  <2>1. CASE t + Day < now
    <3>1. /\ LeftWithin(c, t, t + Day)' \in SUBSET LeftWithin(c, t, t + Day)
          /\ LeftWithin(c, t, t + Day) \in SUBSET Files
      BY <1>1, <1>2, <2>1 DEF LeftWithin
    <3>2. Cardinality(LeftWithin(c, t, t + Day)) < 2 * Max
      BY <1>1 DEF CountedInv, LessThanTwiceMax
    <3> QED
      BY <1>2, <3>1, <3>2, Fewer
  <2>2. CASE now <= t + Day
    <3>1. LeftWithin(c, t, t + Day)' \in SUBSET (Old \cup {f}) /\ Old \cup {f} \in SUBSET Files
      BY <1>1, <1>2, <2>2 DEF LeftWithin
    <3> QED
      <4>1. /\ Cardinality(LeftWithin(c, t, t + Day)') \in Nat
            /\ Cardinality(LeftWithin(c, t, t + Day)') <= Cardinality(Old) + 1
        BY <1>4, <3>1, OneMoreAtMost
      <4> QED
        BY <1>2, <1>3, <4>1
  <2> QED
    BY <1>2, <2>1, <2>2
<1> QED
  BY <1>5, <1>6

(* A count that goes on: one more, or one too many.                        *)
LEMMA CountedOn ==
  ASSUME IInv, CountedInv, NEW f \in Files, ClassOf[f] # NoClass, Counts(f),
         ~(count[ClassOf[f]] = 0 \/ lastCountReset[ClassOf[f]] + Day < now)
  PROVE  /\ CountedClass(ClassOf[f])'
         /\ \A t \in 1 .. now : Cardinality(LeftWithin(ClassOf[f], t, t + Day)') < 2 * Max
<1> USE ClassesAssumption, ClockAssumption
<1> DEFINE c == ClassOf[f]
           r == lastCountReset[c]
           S == LeftSince(c, r)
           L == LeftSince(c, r + 1)
           B == LeftBefore(c, r)
<1>1. /\ c \in Classes
      /\ count[c] \in Nat /\ r \in 0 .. now /\ now' = now
      /\ count'[c] = count[c] + 1 /\ lastCountReset'[c] = r
      /\ IF count'[c] > Max THEN left' = left ELSE left'[f] = now
      /\ \A g \in Files : g # f => left'[g] = left[g]
  BY CountsOnly DEF IInv
<1>2. /\ now \in Nat \ {0} /\ Max \in Nat \ {0} /\ Day \in Nat \ {0}
      /\ \A g \in Files : left[g] \in 0 .. now
      /\ count[c] > 0 /\ now <= r + Day
  BY <1>1 DEF IInv, TypeOK
<1>3. S \in SUBSET Files /\ L \in SUBSET Files /\ B \in SUBSET Files
  BY DEF LeftSince, LeftBefore
<1>4. Cardinality(S) \in Nat /\ Cardinality(L) \in Nat /\ Cardinality(B) \in Nat
  BY <1>3, Fewer
<1>5. /\ \A g \in Files : ClassOf[g] = c => left[g] <= r + Day
      /\ Cardinality(S) <= count[c] /\ Cardinality(S) <= Max
      /\ Cardinality(L) + 1 <= count[c] /\ Cardinality(L) + 1 <= Max
      /\ Cardinality(B) + 1 <= Max
  BY <1>1, <1>2, <1>4 DEF CountedInv, CountedClass
<1>6. \A t \in 1 .. now : Cardinality(LeftWithin(c, t, t + Day)) < 2 * Max
  BY <1>1 DEF CountedInv, LessThanTwiceMax
<1>7. CASE count'[c] > Max
  <2>1. /\ LeftSince(c, lastCountReset[c])' = S /\ LeftSince(c, lastCountReset[c] + 1)' = L
        /\ LeftBefore(c, lastCountReset[c])' = B
        /\ \A t : LeftWithin(c, t, t + Day)' = LeftWithin(c, t, t + Day)
    BY <1>1, <1>7 DEF LeftSince, LeftBefore, LeftWithin
  <2>2. CountedClass(c)'
    BY <1>1, <1>2, <1>4, <1>5, <1>7, <2>1 DEF CountedClass
  <2> QED
    BY <1>6, <2>1, <2>2
<1>8. CASE ~(count'[c] > Max)
  <2>1. left'[f] = now
    BY <1>1, <1>8
  <2>2. /\ LeftSince(c, lastCountReset[c])' \in SUBSET (S \cup {f})
        /\ LeftSince(c, lastCountReset[c] + 1)' \in SUBSET (L \cup {f})
        /\ LeftBefore(c, lastCountReset[c])' \in SUBSET B
    BY <1>1, <1>2, <2>1 DEF LeftSince, LeftBefore
  <2>3. CountedClass(c)'
    <3>1. /\ Cardinality(LeftSince(c, lastCountReset[c])') <= Cardinality(S) + 1
          /\ Cardinality(LeftSince(c, lastCountReset[c])') \in Nat
      BY <1>3, <2>2, OneMoreAtMost
    <3>2. /\ Cardinality(LeftSince(c, lastCountReset[c] + 1)') <= Cardinality(L) + 1
          /\ Cardinality(LeftSince(c, lastCountReset[c] + 1)') \in Nat
      BY <1>3, <2>2, OneMoreAtMost
    <3>3. /\ Cardinality(LeftBefore(c, lastCountReset[c])') <= Cardinality(B)
          /\ Cardinality(LeftBefore(c, lastCountReset[c])') \in Nat
      BY <1>3, <1>4, <2>2, Fewer
    <3>4. \A g \in Files : ClassOf[g] = c => left'[g] <= r + Day
      BY <1>1, <1>2, <1>5, <2>1
    <3> QED
      BY <1>1, <1>2, <1>4, <1>5, <1>8, <3>1, <3>2, <3>3, <3>4 DEF CountedClass
  <2>4. ASSUME NEW t \in 1 .. now
        PROVE  Cardinality(LeftWithin(c, t, t + Day)') < 2 * Max
    <3>1. CASE t + Day < now
      <4>1. /\ LeftWithin(c, t, t + Day)' \in SUBSET LeftWithin(c, t, t + Day)
            /\ LeftWithin(c, t, t + Day) \in SUBSET Files
        BY <1>1, <1>2, <2>1, <3>1 DEF LeftWithin
      <4> QED
        BY <1>2, <1>6, <4>1, Fewer
    <3>2. CASE now <= t + Day
      <4>1. /\ LeftWithin(c, t, t + Day)' \in SUBSET (B \cup (S \cup {f}))
            /\ B \cup (S \cup {f}) \in SUBSET Files
        BY <1>1, <1>2, <1>3, <2>1, <3>2 DEF LeftWithin, LeftSince, LeftBefore
      <4>2. Cardinality(S \cup {f}) \in Nat /\ Cardinality(S \cup {f}) <= Max
        BY <1>1, <1>2, <1>3, <1>4, <1>5, <1>8, OneMore
      <4>3. Cardinality(B \cup (S \cup {f})) <= Cardinality(B) + Cardinality(S \cup {f})
        BY <1>3, Together
      <4> QED
        BY <1>2, <1>4, <1>5, <4>1, <4>2, <4>3, Fewer
    <3> QED
      BY <1>2, <3>1, <3>2
  <2> QED
    BY <2>3, <2>4
<1> QED
  BY <1>7, <1>8

(* HandleCore() keeps CountedInv.                                          *)
LEMMA HandleCoreCounted ==
  ASSUME IInv, CountedInv, NEW d \in Dirs, HandleCore(d)
  PROVE  CountedInv'
<1>1. PICK f \in Cores(d) \ known[d] :
        IF AutoDelete /\ ClassOf[f] # NoClass THEN Counts(f) ELSE UNCHANGED <<classVars, now>>
  BY HandleCoreCounts
<1>2. f \in Files
  BY <1>1 DEF Cores, IInv, TypeOK
<1>3. CASE ~(AutoDelete /\ ClassOf[f] # NoClass)
  BY <1>1, <1>3
     DEF CountedInv, CountedClass, LessThanTwiceMax, LeftWithin, LeftSince, LeftBefore, classVars
<1>4. CASE AutoDelete /\ ClassOf[f] # NoClass
  <2>1. Counts(f) /\ now' = now
    BY <1>1, <1>4 DEF Counts
  <2>2. \A c \in Classes :
          /\ CountedClass(c)'
          /\ \A t \in 1 .. now : Cardinality(LeftWithin(c, t, t + Day)') < 2 * Max
    BY <1>2, <1>4, <2>1, OthersCounted, CountedAnew, CountedOn
  <2> QED
    BY <2>1, <2>2 DEF CountedInv, LessThanTwiceMax
<1> QED
  BY <1>3, <1>4

(* Time that passes changes no count, and nothing is left in the future.   *)
LEMMA TimePassesCounted ==
  ASSUME IInv, CountedInv, TimePasses
  PROVE  CountedInv'
<1>1. now \in Nat /\ now' = now + 1 /\ UNCHANGED classVars
  BY DEF TimePasses, IInv, TypeOK
<1>2. \A c \in Classes : CountedClass(c)'
  BY <1>1 DEF CountedInv, CountedClass, LeftSince, LeftBefore, classVars
<1>3. ASSUME NEW c \in Classes, NEW t \in 1 .. now'
      PROVE  Cardinality(LeftWithin(c, t, t + Day)') < 2 * Max
  <2>1. LeftWithin(c, t, t + Day)' = LeftWithin(c, t, t + Day)
    BY <1>1 DEF LeftWithin, classVars
  <2>2. CASE t = now + 1
    <3>1. LeftWithin(c, t, t + Day) = {}
      BY <1>1, <2>2 DEF LeftWithin, IInv, TypeOK
    <3> QED
      BY <2>1, <3>1, FS_EmptySet, ClassesAssumption
  <2>3. CASE t \in 1 .. now
    BY <2>1, <2>3 DEF CountedInv, LessThanTwiceMax
  <2> QED
    BY <1>1, <2>2, <2>3
<1> QED
  BY <1>2, <1>3 DEF CountedInv, LessThanTwiceMax

(* CountedInv is inductive as long as the monitor is not started anew.     *)
LEMMA StepCounted ==
  ASSUME IInv, CountedInv, [Next]_vars, ~Restarts, ~Toggles
  PROVE  CountedInv'
<1>1. ASSUME UNCHANGED <<classVars, now>>
      PROVE  CountedInv'
  BY <1>1
     DEF CountedInv, CountedClass, LessThanTwiceMax, LeftWithin, LeftSince, LeftBefore, classVars
<1>2. CASE \E d \in Dirs : HandleCore(d)
  BY <1>2, HandleCoreCounted
<1>3. CASE TimePasses
  BY <1>3, TimePassesCounted
<1>4. CASE \E f \in Files : NewCore(f) \/ FileRemoved(f)
  BY <1>1, <1>4 DEF NewCore, FileRemoved
<1>5. CASE \E d \in Dirs : DirectoryRemoved(d) \/ DirectoryCreated(d)
  BY <1>1, <1>5 DEF DirectoryRemoved, DirectoryCreated
<1>6. CASE StartCoreMonitoring
  BY <1>1, <1>6 DEF StartCoreMonitoring
<1>7. CASE \E d \in Dirs : NothingNew(d) \/ DirectoryGone(d)
  BY <1>1, <1>7 DEF NothingNew, DirectoryGone
<1>8. CASE ReadEvents \/ UpdateCoreList \/ ParentDirectoryChanged \/ ReAddPaths
  BY <1>1, <1>8 DEF ReadEvents, UpdateCoreList, ParentDirectoryChanged, ReAddPaths
<1>9. CASE DaemonStarts \/ DaemonStarted \/ CoreMonitoringStarted
  BY <1>1, <1>9 DEF DaemonStarts, DaemonStarted, CoreMonitoringStarted
<1>10. CASE UNCHANGED vars
  BY <1>1, <1>10 DEF vars
<1> QED
  BY <1>2, <1>3, <1>4, <1>5, <1>6, <1>7, <1>8, <1>9, <1>10
     DEF Next, Environment, DaemonStep, DaemonExits, StopCoreMonitoring

(* LessThanTwiceMax, as long as the monitor is not started anew: of what   *)
(* is handled in any day, however it lies to the daemon's own counting,    *)
(* less than twice the maximum is left.                                    *)
THEOREM FewLeftInADay ==
  ASSUME ~Restarts, ~Toggles
  PROVE  Spec => []LessThanTwiceMax
<1>1. Init => IInv /\ CountedInv
  <2> SUFFICES ASSUME Init PROVE IInv /\ CountedInv
    OBVIOUS
  <2>1. \A f \in Files : left[f] = 0
    BY DEF Init
  <2>2. \A c, t, u : LeftWithin(c, t, u) = {}
    BY <2>1 DEF LeftWithin
  <2>3. LessThanTwiceMax
    BY <2>2, FS_EmptySet, ClassesAssumption DEF LessThanTwiceMax
  <2>4. \A c \in Classes : CountedClass(c)
    BY <2>1 DEF Init, CountedClass
  <2> QED
    BY <2>3, <2>4, Initially DEF CountedInv
<1>2. IInv /\ CountedInv /\ [Next]_vars => (IInv /\ CountedInv)'
  BY Inductive, StepCounted
<1>3. CountedInv => LessThanTwiceMax
  BY DEF CountedInv
<1> QED
  BY <1>1, <1>2, <1>3, PTL DEF Spec

-----------------------------------------------------------------------------
(* No report is forgotten                                                  *)

(* As long as directories stay and monitoring is not toggled, what holds   *)
(* when the daemon is idle holds while it reads a list anew: the directory *)
(* had nothing new, or has a change to be read.                            *)
FoundInv ==
  /\ daemon \in {"down", "booting", "idle", "updating"}
  /\ daemon # "down" => \A d \in Dirs : place[d] = "there"
  /\ \A d \in Dirs : place[d] # "unmounted"
  /\ parentRaised = FALSE
  /\ daemon \in {"idle", "updating"} =>
       \A d \in Dirs : watch[d] = "live" /\ d \notin raised \cup batch =>
         Cores(d) \subseteq known[d] \cup requested

(* A report that comes touches its directory, and is found later.          *)
LEMMA EnvironmentFinds ==
  ASSUME TypeOK, FoundInv, Environment, Removable = {}, ~Toggles
  PROVE  FoundInv'
<1> USE FilesAssumption DEF FoundInv
<1>1. ASSUME NEW f \in Files, NewCore(f)
      PROVE  FoundInv'
  BY <1>1 DEF TypeOK, NewCore, Touched, listVars, Cores
<1>2. ASSUME NEW f \in Files, FileRemoved(f)
      PROVE  FoundInv'
  BY <1>2 DEF TypeOK, FileRemoved, Touched, listVars, Cores
<1>3. CASE TimePasses
  BY <1>3 DEF TimePasses, fsVars, watchVars, listVars, Cores
<1>4. CASE DaemonExits
  BY <1>4 DEF DaemonExits, DropMonitor, fsVars
<1> QED
  BY <1>1, <1>2, <1>3, <1>4
     DEF Environment, DirectoryRemoved, DirectoryCreated, StopCoreMonitoring, StartCoreMonitoring

(* What a handler leaves behind has been requested, or touches anew.       *)
LEMMA DaemonStepFinds ==
  ASSUME TypeOK, FoundInv, DaemonStep, AutoSend, Reachable
  PROVE  FoundInv'
<1> USE FilesAssumption DEF FoundInv
<1>1. CASE ReadEvents
  BY <1>1 DEF TypeOK, ReadEvents, fsVars, listVars, Cores
<1>2. ASSUME NEW d \in Dirs, HandleCore(d)
      PROVE  FoundInv'
  <2>1. PICK f \in Cores(d) \ known[d] :
          /\ known' = [known EXCEPT ![d] = @ \cup {f}]
          /\ \/ disk' = disk \ {f} /\ raised' = Touched(d) /\ requested' = requested
             \/ disk' = disk /\ raised' = raised /\ requested' = requested \cup AllCores
    BY <1>2 DEF HandleCore, Request, MaySend
  <2>2. /\ daemon = "idle" /\ daemon' = daemon /\ batch' = batch \ {d}
        /\ watch' = watch /\ place' = place /\ parentRaised' = parentRaised
    BY <1>2 DEF HandleCore
  <2>3. CASE disk' = disk \ {f} /\ raised' = Touched(d) /\ requested' = requested
    BY <2>1, <2>2, <2>3 DEF TypeOK, Touched, Cores
  <2>4. CASE disk' = disk /\ raised' = raised /\ requested' = requested \cup AllCores
    BY <2>1, <2>2, <2>4 DEF TypeOK, AllCores, Cores
  <2> QED
    BY <2>1, <2>3, <2>4
<1>3. ASSUME NEW d \in Dirs, NothingNew(d)
      PROVE  FoundInv'
  BY <1>3 DEF NothingNew, fsVars, listVars, Cores
<1>4. ASSUME NEW d \in Dirs, DirectoryGone(d)
      PROVE  FoundInv'
  BY <1>4 DEF DirectoryGone
<1>5. CASE UpdateCoreList
  BY <1>5 DEF TypeOK, UpdateCoreList, ReadCoreLists, CoreList, fsVars, watchVars, Cores
<1>6. CASE ParentDirectoryChanged \/ ReAddPaths \/ CoreMonitoringStarted
  BY <1>6 DEF ParentDirectoryChanged, ReAddPaths, CoreMonitoringStarted
<1>7. CASE DaemonStarts
  BY <1>7 DEF TypeOK, DaemonStarts, CoreDirectoriesCreated, watchVars
<1>8. CASE DaemonStarted
  BY <1>8 DEF DaemonStarted, MaySend, AllCores, fsVars, listVars, Cores
<1> QED
  BY <1>1, <1>2, <1>3, <1>4, <1>5, <1>6, <1>7, <1>8 DEF DaemonStep

(* NoCoreForgotten, as long as the directories stay where they are and     *)
(* monitoring is not stopped; the daemon may be restarted.                 *)
THEOREM NothingForgotten ==
  ASSUME Removable = {}, ~Toggles
  PROVE  Spec => []NoCoreForgotten
<1>1. CASE AutoSend /\ Reachable
  <2>1. Init => FoundInv
    BY DEF Init, FoundInv
  <2>2. TypeOK /\ FoundInv /\ [Next]_vars => FoundInv'
    <3>1. ASSUME FoundInv, UNCHANGED vars
          PROVE  FoundInv'
      BY <3>1 DEF FoundInv, vars, fsVars, watchVars, listVars, Cores
    <3> QED
      BY <1>1, <3>1, EnvironmentFinds, DaemonStepFinds DEF Next
  <2>3. FoundInv => NoCoreForgotten
    BY DEF FoundInv, NoCoreForgotten
  <2> QED
    BY <2>1, <2>2, <2>3, TypeCorrect, PTL DEF Spec
<1>2. CASE ~(AutoSend /\ Reachable)
  <2>1. NoCoreForgotten
    BY <1>2 DEF NoCoreForgotten
  <2> QED
    BY <2>1, PTL
<1> QED
  BY <1>1, <1>2
=============================================================================
