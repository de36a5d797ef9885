------------------------------- MODULE Reports -------------------------------
(***************************************************************************)
(* The settings page and the storage monitor over one core directory.      *)
(***************************************************************************)
EXTENDS PendingUploads

CONSTANTS Size, Arguments, MaxKills, MaxId

VARIABLES mon, limit, found, shown, nextId, published, savedId, kills, lost

Storage == INSTANCE StorageMon

storageVars == <<mon, limit, found, shown, nextId, published, savedId, kills, lost>>
allVars     == <<vars, storageVars>>

ReportsTypeOK == TypeOK /\ Storage!TypeOK

ReportsInit == Init /\ Storage!Init

PageStep    == Next /\ UNCHANGED storageVars
StorageStep == Storage!Next /\ UNCHANGED vars

ReportsNext == PageStep \/ StorageStep

OneNotification == Storage!OneNotification
FullIsNoticed   == Storage!FullIsNoticed
=============================================================================
