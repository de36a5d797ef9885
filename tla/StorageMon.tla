------------------------------ MODULE StorageMon ------------------------------
(***************************************************************************)
(* The storage monitor: a process that is started when the core directory  *)
(* changes and once a day, adds up the sizes of the reports, and shows one *)
(* notification when there are too many.  Sizes are in MiB.                *)
(***************************************************************************)
EXTENDS Integers, FiniteSetsExt

CONSTANTS
  Files,        \* reports
  Size,         \* MiB of a report
  Arguments,    \* what the limit may be given as; NoArgument if it is not
  MaxKills,     \* bound: kills of the process
  MaxId         \* bound: notification identifiers

VARIABLES
  disk,         \* the reports there are
  mon,          \* where the process is
  limit,        \* its m_sizeLimitMb, until it is of no more use
  found,        \* the reports it goes through
  shown,        \* storage notifications on the screen
  nextId,       \* the identifier a new notification gets
  published,    \* the identifier of the one just published
  savedId,      \* storageUsageNotificationId in the saved state
  kills, lost   \* history: kills, and those before an identifier was saved

monVars == <<mon, limit, found, shown, nextId, published, savedId, kills, lost>>

DefaultSizeLimit == 100

\* Not given, and not a positive integer.
NoArgument == -1
BadArgument == 0

StorageMonAssumption ==
  /\ Arguments \subseteq Nat \cup {NoArgument}
  /\ MaxKills \in Nat /\ MaxId \in Nat

\* An int, shifted by 20.
Wrap(m) == ((m + 2048) % 4096) - 2048

TypeOK ==
  /\ mon \in {"off", "summing", "saving"}
  /\ limit \in Nat \ {0} /\ found \subseteq Files
  /\ shown \subseteq 1..MaxId /\ nextId \in 1..MaxId + 1
  /\ published \in 0..MaxId /\ savedId \in 0..MaxId
  /\ kills \in 0..MaxKills /\ lost \in 0..kills

Init ==
  /\ mon = "off" /\ limit = DefaultSizeLimit /\ found = {}
  /\ shown = {} /\ nextId = 1 /\ published = 0 /\ savedId = 0
  /\ kills = 0 /\ lost = 0

\* fault: a number that is not positive is taken as it is.
ParseArgumentsUnchecked ==
  \E a \in Arguments : limit' = IF a = NoArgument THEN DefaultSizeLimit ELSE a

(* Started by the path unit or the timer; a bad argument ends it at once.  *)
ParseArguments ==
  \E a \in Arguments \ {BadArgument} :
    limit' = IF a = NoArgument THEN DefaultSizeLimit ELSE a

(* run(), and the first half of checkStorageUsage(): the list ...          *)
Run ==
  /\ mon = "off"
  /\ ParseArguments
  /\ found' = disk
  /\ mon' = "summing"
  /\ UNCHANGED <<shown, nextId, published, savedId, kills, lost>>

\* ... and the sizes.  A file that is gone has none.
TotalSize == MapThenSumSet(LAMBDA f : Size[f], found \cap disk)

LowUsage ==
  /\ mon = "summing" /\ TotalSize < Wrap(limit)
  /\ mon' = "off" /\ found' = {} /\ limit' = DefaultSizeLimit
  /\ UNCHANGED <<shown, nextId, published, savedId, kills, lost>>

\* fault: with an identifier saved, the notification is taken to be there.
PublishOnce ==
  /\ mon = "summing" /\ TotalSize >= Wrap(limit)
  /\ IF savedId # 0
     THEN published' = savedId /\ UNCHANGED <<nextId, shown>>
     ELSE /\ nextId <= MaxId /\ published' = nextId /\ nextId' = nextId + 1
          /\ shown' = shown \cup {published'}
  /\ mon' = "saving" /\ found' = {} /\ limit' = DefaultSizeLimit
  /\ UNCHANGED <<savedId, kills, lost>>

\* fault: the identifier of the last notification is not used again.
PublishNew ==
  /\ mon = "summing" /\ TotalSize >= Wrap(limit)
  /\ nextId <= MaxId
  /\ published' = nextId /\ nextId' = nextId + 1
  /\ shown' = shown \cup {nextId}
  /\ mon' = "saving" /\ found' = {} /\ limit' = DefaultSizeLimit
  /\ UNCHANGED <<savedId, kills, lost>>

(* A notification that replaces the one shown before, or one that was      *)
(* dismissed meanwhile; with none saved, a new one.                        *)
Publish ==
  /\ mon = "summing" /\ TotalSize >= Wrap(limit)
  /\ IF savedId # 0
     THEN published' = savedId /\ UNCHANGED nextId
     ELSE nextId <= MaxId /\ published' = nextId /\ nextId' = nextId + 1
  /\ shown' = shown \cup {published'}
  /\ mon' = "saving" /\ found' = {} /\ limit' = DefaultSizeLimit
  /\ UNCHANGED <<savedId, kills, lost>>

\* The saved state is written when it is freed.
SaveId ==
  /\ mon = "saving"
  /\ savedId' = published
  /\ mon' = "off" /\ published' = 0
  /\ UNCHANGED <<limit, found, shown, nextId, kills, lost>>

\* The session ends, or the device is turned off.
Killed ==
  /\ mon # "off" /\ kills < MaxKills
  /\ mon' = "off" /\ found' = {} /\ published' = 0 /\ limit' = DefaultSizeLimit
  /\ kills' = kills + 1
  /\ lost' = IF mon = "saving" /\ savedId = 0 THEN lost + 1 ELSE lost
  /\ UNCHANGED <<shown, nextId, savedId>>

\* By the user.
Dismissed ==
  /\ shown # {}
  /\ \E n \in shown : shown' = shown \ {n}
  /\ UNCHANGED <<mon, limit, found, nextId, published, savedId, kills, lost>>

Process == Run \/ LowUsage \/ Publish \/ SaveId

Next == Process \/ Killed \/ Dismissed

-----------------------------------------------------------------------------
(* Properties                                                              *)

(* However often the process runs, there is one storage notification, and  *)
(* one more for each time it was killed before it could save the           *)
(* identifier of its first (checkStorageUsage).                            *)
OneNotification == Cardinality(shown) <= 1 + lost

Full == MapThenSumSet(LAMBDA f : Size[f], disk) >= Wrap(DefaultSizeLimit)

(* While there are too many reports, a notification is shown before long,  *)
(* again after it was dismissed and in spite of kills, or the reports go.  *)
(* The process is started once a day at least (crash-reporter-             *)
(* storagemon.timer), without an argument.                                 *)
FullIsNoticed == (Full /\ shown = {}) ~> (shown # {} \/ ~Full)
=============================================================================
