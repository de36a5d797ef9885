# A TLA+ model of the crash reporter

This directory holds a verification development of the crash reporter: TLA+ modules translated
from the code under `src/`, TLC configurations that check them on small instances, and theorems
checked by TLAPS for instances of any size. `PROJECT.json` ties every definition to the lines it
models, every property to the run that checks it, and every hazard to the properties that watch it.

Paths below are relative to `src/src/` unless they say otherwise. To repeat a run, use the module
and the configuration that `PROJECT.json` names: `tlc -config UploadEngineSafety.cfg
UploadEngineRefinement.tla`. To check the proofs: `tlapm UploadEngineProofs.tla`, and so on for
each module whose name ends in `Proofs`.

## 1. The system

A crash leaves a *rich core*, a file in `<mount point>/core-dumps`. The daemon notices it, deletes
it if it has seen enough like it, and otherwise tells the auto uploader (or the user, with a
notification). The auto uploader, a D-Bus activated process, sends the files one after another to a
server and deletes what has been answered without an error.

    kernel --> rich-core-dumper --> core-dumps/ <--- inotify ---- daemon monitor
                                      ^   ^                          | uploadFiles() over D-Bus
             endurance, journal spy,  |   | delete after upload      v
             storage monitor, user ---+   +--------------- auto uploader: engine, queue,
                                                           session manager, item, http client

### Components

**Upload item and HTTP client** (`libs/httpclient/creporteruploaditem.cpp`,
`creporterhttpclient.cpp`). State: the item's status, the client's state, the `QNetworkReply` and
the connection timer. Operations: start, progress, error, finished, timeout, cancel. Signals run
synchronously between the two objects, `QNetworkReply` emits `finished()` after `error()`, and
`abort()` emits both before it returns. Correct when: an item completes once, what it says then
stays so, and the file goes only when its request has been answered without a network error. What
the answer says decides nothing but the entry in the upload log. *Modelled.*

**Upload queue, upload engine, network session manager** (`libs/httpclient/`). State: the queue with
`notified` and `nbrOfItems`, the engine's state, error type, `sentItemCount` and `currentItem`, the
session object. The queue tells the engine of the first item and of the next when one has finished,
the engine opens the session, starts the item, and reports the batch with
`finished(error, sent, total)`. Hard: all of it calls back into itself, a session may fail within
`open()`, so that the engine has reported before the caller hands it the next file; it may be lost
while an item is sent, and a cancelled item takes the queue along. Correct when: one request at a
time, no item lost, a report when everything handed over is settled and only then, with the right
numbers. *Modelled.*

**Auto uploader** (`autouploader/creporterautouploader.cpp`). State: the engine pointer,
`activated`, `addedFiles`, three notifications, the saved count of uploads. Operations:
`uploadFiles` and `quit` over D-Bus, `engineFinished`. The daemon's request obeys the restrictions
on network and battery, the user's does not; both reach the same process, and the process ends
itself after every batch. Correct when: it always ends, it uses the engine as it must be used, and
its notifications tell the truth. *Modelled.*

**Core directory and registry** (`libs/coredir/`). State: the list of known cores of each
directory. Operations: find the new core, read the list anew, create missing directories, collect
everything. *Modelled, with the monitor.*

**Daemon monitor** (`daemon/creporterdaemonmonitor.cpp`). State: the two file system watchers, the list
of similar cores with count and time, the crash notification with its identifier and count. Operations:
a directory has changed, a parent directory has changed, a new core, a notification is closed. Hard:
inotify events are coalesced, the directories change while they are read, and they go and come with USB
mass storage; the identifier outlives the monitor. Correct when: each core is handled once, none is
overlooked, no more than a known number of similar ones is left within a day, only duplicates in excess
are deleted, a directory that returns is watched again, and there is one notification whose count is
right. *Modelled:* `CoreMonitor` for the directories, `ReportNames` for what a name says, `Daemon` for
the notification.

**Daemon** (`daemon/creporterdaemon.cpp`, `main.cpp`). State: PID file, start-up timer, D-Bus
registration, settings, monitor. Delayed start, start without delay when a PID file is found, start
and stop of the monitoring over D-Bus. Correct when: systemd does not restart it in a tight loop, and
what was asked for over D-Bus outlives it. *Modelled.*

**Power excess handler** (`daemon/powerexcesshandler.cpp`), **rich core helper**
(`richcorehelper/main.c`). No state: from a udev event to a label, from a label to a report.
*Modelled* as operators (`LogCollection`).

**Endurance collector** (`endurancecollect/main.c`, `src/scripts/endurance-collect`). State: the
child, the keepalive timer, the file descriptors that were ready; on disk, the snapshots, their
count, the mark of this boot. Hard: what one `select()` saw is handled after a sleep and in a fixed
order; the script may be killed anywhere. Correct when: the device is awake during a collection and
not for ever, snapshots go on, and a report is of one session. *Modelled.*

**Journal spy** (`journalspy/journalspy.cpp`). State: the expressions with the time of the last hit.
Correct when: it watches for what the file says, and reports as often as documented. *Modelled.*

**Storage monitor** (`storagemon/storagemon.cpp`). State: the identifier of its notification, saved.
Correct when: a full storage is noticed, with one notification. *Modelled.*

**Settings** (`libs/settings/`). State: a file, and a copy of it in each process; two of the settings
are marks in the file system. Correct when: a process does not undo what another has set.
*Partly modelled:* the application settings (server addresses) are not.

**Settings UI plugin** (`sailfishui/plugin/`). The switch of a systemd unit: state, enabling, masking,
a timer, calls and answers under way. The list of pending uploads: rows, the directory watcher. The
switches that set a mark and run a helper. Hard: all of it is asynchronous, and the page may be closed
at any time. Correct when: what is shown becomes true once everything has been heard of, a click takes
effect, and the right report is deleted. *Modelled.*

**Utilities** (`libs/utils/`). *Partly modelled:* names of reports, power saving, the collection of
logs; not the writing of reports, which is I/O.

**Logger.** Formatting and output. *Not modelled.*

### Interactions

- daemon monitor to auto uploader: D-Bus `uploadFiles(list, obey = true)`, after a check of network
  and battery; in the modules, `CoreMonitor` records the request and `AutoUploader` may get any
  request at any time, so neither relies on the other's manners;
- settings UI to auto uploader: `uploadFiles(list, false)` and `quit()`; to the daemon:
  start and stop of the monitoring;
- all processes share the core directories: the auto uploader deletes what was sent, the monitor
  what is in excess, the user what they like. In `AutoUploader` the others are `FileVanishes`, in
  `CoreMonitor` they are `FileRemoved`;
- process memory is lost at exit; `CReporterSavedState` and the notifications on screen survive.

## 2. Plan

Done, in the order of what matters most:

1. `UploadItemOps`, `UploadItem`: one upload;
2. `UploadEngine` with the abstract `UploadBatch`, `UploadEngineRefinement`;
3. `AutoUploader`, which composes the engine with the service around it and the daemon's reset of the
   count; `NetworkPolicy` and `PowerSaving`, which say when it may upload;
4. `CoreMonitor`, `MCCoreMonitor`, with `ReportNames` and `LogCollection` behind its classes;
5. `Daemon` over `Settings`; `PendingUploads` and `StorageMon` over one directory (`Reports`);
   `Desktop`, which puts both into one run;
6. `JournalSpy`, `Endurance`, `SystemdService`, `ServiceMark`; `Services`, which puts them into one
   run;
7. proofs: of every safety invariant and action property that a run checks, and of the refinements.

Left:

8. an abstract specification of the monitor, "every report is decided once", which `CoreMonitor` is
   to implement;
9. a composition of `CoreMonitor` and `AutoUploader` over one disk, for files deleted as duplicates
   while they are queued.

## 3. Modules and code

| module | what it is | code |
|---|---|---|
| `UploadItemOps` | the handlers of item and client as functions of the item's state | `creporteruploaditem.cpp`, `creporterhttpclient.cpp` |
| `UploadItem` | items under every order of events | same |
| `UploadEngine` | queue, engine, session and items; *Slots* are the code's slots, *Events* what sets them off | `creporteruploadqueue.cpp`, `creporteruploadengine.cpp`, `creporternwsessionmgr.cpp` |
| `UploadBatch` | abstract: each file settled once, the report with the last | what `creporteruploadengine.h` promises |
| `UploadEngineRefinement` | the engine implements `UploadBatch` and keeps each item's contract | |
| `AutoUploader` | the service: requests, restrictions, quit, notifications, process after process | `creporterautouploader.cpp` |
| `NetworkPolicy`, `PowerSaving` | whether the network may be used, whether power is to be saved | `creporternwsessionmgr.cpp`, `creporterutils.cpp` |
| `CoreMonitor` | directories, watchers, duplicates, start and stop | `creporterdaemonmonitor.cpp`, `libs/coredir/`, `creporterdaemon.cpp` |
| `ReportNames` | names of reports: parts, crash or not, which are alike | `creporterutils.cpp`, `creporterdaemonmonitor.cpp` |
| `LogCollection` | reports that are asked for, by label | `powerexcesshandler.cpp`, `journalspy.cpp`, `richcorehelper/main.c` |
| `MCCoreMonitor` | layouts of `CoreMonitor` for TLC; its assumptions tie the classes to names | |
| `Settings` | one file, a copy in each process | `creportersettingsbase.cpp`, `creporterprivacysettingsmodel.cpp` |
| `Daemon` | life cycle, D-Bus calls with their setting, the crash notification, the page that writes the same settings | `daemon/main.cpp`, `creporterdaemon.cpp`, `creporterdaemonmonitor.cpp` |
| `PendingUploads` | the page's list of reports | `crashreporteradapter.cpp`, `pendinguploadsmodel.cpp` |
| `StorageMon` | the storage monitor | `storagemon.cpp` |
| `Reports` | the list and the storage monitor over one directory | |
| `Desktop`, `MCDesktop` | `Reports` and `Daemon` in one specification, and an instance of it | |
| `JournalSpy` | expressions, entries, the silent period | `journalspy.cpp` |
| `Endurance` | the daemon's loop and the script | `endurancecollect/main.c`, `src/scripts/endurance-collect` |
| `SystemdService` | the switch of a unit, with systemd | `systemdservice.cpp`, `SystemdServiceSwitch.qml` |
| `ServiceMark` | the switches with a mark, with helper and systemd | `creporterprivacysettingsmodel.cpp`, `servicehelper/main.c`, `crash-reporter.qml` |
| `Services` | these four in one specification | |
| `UploadItemProofs`, `UploadEngineProofs`, `AutoUploaderProofs`, `CoreMonitorProofs` | theorems about the modules of these names | |
| `ServicesProofs` | theorems about `Services`: the journal spy and the marks; with `EnduranceProofs` and `SystemdServiceProofs`, the other two | |
| `DesktopProofs` | theorems about `Desktop`: the daemon, the list of reports, the storage monitor | |

**Parts in turn.** `Services` and `Desktop` put parts into one specification that share no state. A
product of all their states would show nothing that each part alone does not, so a variable `turn`,
set once in the initial state, says which part runs while the others rest. `Reports` is different:
the page and the storage monitor share the disk, and interleave.

**What a step is.** In the upload process, one event of the Qt event loop and everything the
synchronous signals set off. A slot that calls a function with an outcome the program does not choose
(`QNetworkSession::open()`) maps a state to the set of states it may end in, so that one step can
follow a whole chain: item fails, queue takes the next one, session fails within `open()`, batch is
abandoned, `finished()` is emitted, the service drops the engine. In the monitor, one handler, except
where a handler looks at a directory twice: there it is split (`NothingNew`/`UpdateCoreList`,
`ParentDirectoryChanged`/`ReAddPaths`, `DaemonStarts`/`DaemonStarted`,
`StartCoreMonitoring`/`CoreMonitoringStarted`), since others may write in between. The endurance
daemon's step is one pass of its loop, from the return of `select()` to the next; its script takes one
step per command that changes the disk, since it may be killed between any two. In the settings page a
call to systemd, systemd's work on it and each answer are steps of their own.

**Definitions marked "fault:"** are slips that are *not* in the code. Each is put in the place of the
definition that follows it to see that a property notices; `PROJECT.json` lists them under
"mutants".

**What is abstracted.** The following is left out because no property tells the difference:

- the request's body, authentication, SSL, proxies, the wording of errors and notifications,
  percentages; what an answer says; the uploadlog file;
- the delete-after-upload flag, which is always set in this program;
- `abort()`'s `error()` and `finished()` are one step with the call, as Qt emits them;
- settings are constants of a process except in `Daemon`, where two processes write them: elsewhere
  they are read, and not watched;
- D-Bus calls that arrive between `qApp->quit()` and the end of the event loop are not handled;
- `quit()` uses a null engine pointer if a batch ends within it; `disconnect()` and `deleteLater()`
  on it are reached after `engineFinished()` reset it. It happens on every `quit()` during an
  upload and tells states apart nowhere else;
- in `CoreMonitor`, the clock is not set back, and a day is `Day` of its units; an unmounted file system
  keeps its reports, which whoever has mounted it may remove; a refresh reads all directories in one
  step; report names are unique (they carry the process id); missing directories can always be created;
  `coreLocationsUpdated()` is emitted at construction only, because `mmcStateChanged()` is connected to
  nothing; a D-Bus call to the auto uploader that fails is the same as one the restrictions prevented
  (`Reachable = FALSE`); at start the daemon is assumed to want the monitoring;
- inotify events are coalesced per reading: `QFileSystemWatcher` signals each directory once for all
  that has happened to it;
- in `SystemdService`, systemd sends each change before it makes the next, and answers in order;
  reading a unit that is no longer loaded gives what it had; the destructor's use of a null manager
  (a service without a name) does not occur on the page;
- in `Endurance`, the set-up fails for any reason or none (`SetupFails`); the contents of snapshots; a
  count is kept up to what is asked of it; `rm -rf` and the writing of the boot mark with its time are
  one step each;
- in `JournalSpy`, an error of `sd_journal_next()`, with which the loop of `journalspy.cpp:106` goes on
  at the entry it is at: a hit on it is silenced and renews the silence, again and again while the error
  lasts; time is monotonic; regular expressions match or not; labels are short (the command line of
  `invokeLogCollection` and the buffer of the rich core helper have room for them);
- in `Daemon`, the page writes the notifications' setting only; automatic sending is on or off from the
  beginning;
- in `PendingUploads`, the page's `_modifyingReportList`, which is about animations;
- in `ReportNames`, a name is a sequence of words, dashes and dots.

External parts, modelled from how the code uses them: `QNetworkSession`, `QNetworkReply`,
`QFileSystemWatcher`, `QSettings`, systemd, the journal, MCE and the heartbeat, the notification
manager, `rich-core-dumper`, the server, the clock.

## 4. Runs

| run | module, cfg | shows |
|---|---|---|
| `engine_safety` | `UploadEngineRefinement`, `UploadEngineSafety` | every failure allowed: the current item is alive wherever it is used, one request at a time, no item forgotten, a report only when all is settled, a file removed only on an answer without an error; the engine implements `UploadBatch` and keeps the contract of its items |
| `engine_stall` | `UploadEngine`, `UploadEngineStall` | *violated:* a file that has gone stops the batch |
| `uploader_safety` | `AutoUploader`, `AutoUploaderSafety` | every failure allowed: the service is well typed, so that no item completes twice in its loop over the list, and claims no more uploads than there are reports that the server has answered or others have removed, with a daemon that resets the count at any time |
| `uploader_reports` | `AutoUploader`, `AutoUploaderReports` | files stay, `open()` does not fail within the call: notifications say what is so, the error of a batch is right, the service always ends |
| `uploader_user` | `AutoUploader`, `AutoUploaderUser` | *violated:* a restricted request cancels the user's upload |
| `monitor_safety` | `MCCoreMonitor`, `CoreMonitorSafety` | a core is not handled twice unless the list was read while its file system was away, only what is in excess of the last day is deleted, with a directory that is removed, unmounted and back with what it held, and a daemon that restarts |
| `monitor_upload` | `MCCoreMonitor`, `CoreMonitorUpload` | fewer than `2 * Max` similar cores are left within any 24 hours, none is overlooked |
| `monitor_requested` | `MCCoreMonitor`, `CoreMonitorRequested` | *violated:* a core that comes during a refresh is not uploaded |
| `monitor_resume` | `MCCoreMonitor`, `CoreMonitorResume` | *violated:* a watched directory that is removed and recreated in its mount point is not watched any more |
| `monitor_sent` | `MCCoreMonitor`, `CoreMonitorSent` | *violated:* duplicates are sent before they are found to be duplicates |
| `services` | `Services` | a hit is silent exactly if it should be, and the expressions of the file are watched for as written, but for indented headings; the device is awake during a collection and not kept awake after it, snapshots go on, a report is of one session; a unit's switch shows the truth when all is heard, and the last click wins; a unit runs if its mark is there |
| `desktop` | `MCDesktop`, `Desktop` | the list shows the reports there are, in a stable order; a full storage is noticed with one notification; the daemon does not restart in a loop, keeps what D-Bus clients chose, in requests it heeds or ignores, and has one crash notification whose count is right |

### Findings

- **A vanished file stops the batch** (`engine_stall`). `startUpload()` returns false and emits
  nothing; `uploadItem()` and `sessionOpened()` (`creporteruploadengine.cpp:97`) ignore the result.
  `creporteruploadqueue.h:76` has `done()` sent when all items are handled. The monitor deletes
  queued duplicates, so this does not take a user's hand.
- **A restricted request ends an unrestricted upload** (`uploader_user`).
  `creporterautouploader.cpp:123` schedules `quit()` for the whole service.
- **A core may go unnoticed until the next one comes** (`monitor_requested`).
  `creportercoredir.cpp:135` takes everything found by a second scan for known.
- **Monitoring does not resume** after `core-dumps` alone was removed (`monitor_resume`): the
  daemon watches the directory, it is removed, the daemon notices and watches the directory that
  `cd("../..")` at `creporterdaemonmonitor.cpp:141` leads to, one level too high to see it come
  back. It does resume after the mount point has gone and come, unless the directory is not in it yet.
- **Duplicates are sent** (`monitor_sent`): with each new core everything in the directories is
  requested (`creporterdaemonmonitor.cpp:239`), cores not yet counted included.

### Observations

Met while modelling and not kept as runs.

*Upload.* Any answer without a network error has the report deleted, whatever it says
(`creporterhttpclient.cpp:229-245`, `271-278`): a captive portal's page is as good as the server's
receipt. So the properties speak of what was answered, not of what the server has. An item whose file
has gone when it starts and which is then cancelled ends as Finished and counts as sent. If that happens
as the session is lost, the engine opens the next one within `sessionDisconnected()`, and the session
manager then deletes it (`creporternwsessionmgr.cpp:248`): the engine waits for ever. With files that
stay this is not reached. When the session fails within `open()`, `finished()` is emitted within the
loop of `uploadFiles()` (`creporterautouploader.cpp:134`); the rest of the list goes to the same engine,
which emits it again, and the service listens no more. `total` is 0 when the session fails within
`open()` of the first item, since the queue counts an item after it has announced it; in that case the
progress notification, too, is published after the batch has failed. A batch in which nothing was sent
resets the saved count of uploads, which `creporterdaemon.cpp:97` says is reset when the daemon starts;
a service that runs while the daemon starts keeps the count it has read. The network is judged when a
request comes and opened later. The charger decides which battery setting counts
(`creporterutils.cpp:245`), whereas `creporterprivacysettingsmodel.h:209` has one of them hold
regardless of the charger.

*Monitor and daemon.* The day of `creporterdaemonmonitor.cpp:291` begins with the first of a class, so
the last of one count and the first of the next may be close together: up to `2 * Max - 1` similar
reports pass within 24 hours, where `crash-reporter.qml:107` says "Each day, uploads only first 5". If
the list of known cores is read while a file system is away, what is on it is handled and counted again
when it is back (`again`, `misread`). Duplicates are told by binary and signal, not by application as
`crash-reporter.qml:107` says. A name with a dot is cut at the first one and misread, so different
crashes of such a program may be taken for the same. The words that mark a report without a crash are
looked for anywhere in the path. A restart of the daemon or of the monitoring forgets the counts. At a
regular exit the saved state is freed before the monitor's destructor stores the identifier of the crash
notification in it, so the next daemon shows a second one. The daemon does not read its settings again.
Stopping the monitoring over D-Bus is undone at the next start if automatic sending is on; a request for
what the daemon does already is ignored and not written (`creporterdaemon.cpp:134`, `154`), so that it
is lost if the page has written the opposite since: the page turns notifications on, the daemon has no
monitor yet, a client asks it to stop, and the next daemon monitors. A notification that is closed while
it is published again is forgotten, and stays. The notification of stored reports is a new one at each
start. `setUseHomePartitionEnabled()` emits `notificationsEnabledChanged()`.

*Journal spy.* A `;name` with spaces before it is a heading only if it is the first
(`journalspy.cpp:180`): any other is no expression, and its fields go to the expression before it, which
then matches less or other things. A hit that could not be collected, for want of battery, silences the
next ones. A restart forgets all silences. Of several expressions that match an entry only the first is
hit, while the settings page speaks of each match. Without expressions the process idles.

*Endurance.* After a `fork()` that failed no snapshot is taken until a restart, while the keepalive goes
on every half minute. A keepalive may be sent after the request to stop; it ends by itself. A report may
be empty, or be made too early, after the previous session was packed, since the count of snapshots is
not taken anew. A killed script leaves its work directory.

*Settings page.* `setMasked()` looks at what systemd has reloaded, so a mask and unmask in quick
succession lose the second. The mark is made in the first core directory there is, while the unit's
condition names `/var/cache/core-dumps`; nobody looks whether the mark could be made or the helper had
success. `checked = !checked` ends the switch's binding. A report that comes between the first listing
and the watcher is missed until the next change. "Delete all" deletes what arrived since it was
chosen. A size limit of 2048 MiB or more would overflow; the service gives none.

### Bounds, and why they are enough

- `engine_*`: three files. One is in flight, one is the head of the queue and one is behind it:
  the queue distinguishes no more than empty, one, several. The number of batches is not bounded
  except by the files, which are enqueued once per process, as `addedFiles` sees to. `Vanishing`,
  `SyncErrors` and `UsbMode` are on in `engine_safety`. In `uploader_reports` the first two are off:
  with them batches may not end and the numbers fail, as `engine_stall` and the observations above
  tell.
- `uploader_*`: two files; a process for each, both in one, and requests for what has been added
  before are reached. A process may exit and start again any number of times.
- `monitor_safety`: two similar reports and one that is never a duplicate, and `Max = 1`, so that one
  passes, one is in excess and a day may go by between; a clock of three units of which a day is one, so
  that two reports come at the same time, a day and more than a day apart; one directory that goes and
  comes, restarts, stop and start. Reports of one class in one directory are symmetric.
- `monitor_upload`: four similar reports in two directories, `Max = 2`, so that three are left within
  a day around the reset of the count and a fourth might be; the same clock.
- the assumptions of `MCCoreMonitor`, which TLC evaluates with each monitor run: names of up to four
  words and dashes, all batteries, settings and udev events.
- `services`: files of up to four lines over two fields, so that two expressions with a field each, a
  repeated field, a bad pattern and an indented heading occur; five hits in six units of time with a
  silent period of one, so that a hit may be at, within and after it, for two expressions. Four boots,
  a report at four snapshots, sessions of at least two: discarded, packed at once, packed later and
  killed while being packed. Two messages from systemd under way before another click; a handler may
  add to them.
- `desktop`: three reports, two of which fill the storage and two of which have the same date; one kill
  of the storage monitor; two failures to register (a start that fails at once and a delayed one), one
  end of a daemon that runs, and three identifiers, so that one notification is lost and another closed
  late.

### Fairness

- `UploadEngine`: the event loop serves an expired connection timer; `QNetworkSession` settles a pending
  `open()` one way or the other; and a request that has *begun to send* is answered or fails. The last
  is an assumption about the network: the client's timer is stopped at the first progress and no other
  takes its place.
- `AutoUploader`: the same, and the event loop serves `QTimer::singleShot(0)` and ends after
  `qApp->quit()`.
- `CoreMonitor`: weak fairness of `DaemonStep`, the daemon's event loop goes on. Nothing is assumed
  of the directories, the user or the clock.
- `Services`: systemd starts the endurance daemon again (`Restart=always`), its loop and its script go
  on, the heartbeat comes, and MCE ends a keepalive. systemd answers calls and carries out its jobs. The
  handlers of the settings page are strongly fair: one that waits for an answer of systemd keeps the
  user from clicking, so that it is off and on without end only if it is never served.
- `Desktop`: the event loops of the page and of the storage monitor run on; its timer starts it once a
  day.

Deadlock is checked in `engine_safety`, `engine_stall` and `desktop`; elsewhere the programs may come to
rest with nothing left to do, or time is bounded.

## 5. Proofs

Every safety invariant and every action property of the passing runs is stated by a theorem, for all
values of the constants that the module's assumptions allow; where a theorem asks for more, it says so
in its `ASSUME`, and so does this section. The liveness properties are model-checked only.

### The upload

`UploadEngineProofs`, for any set `Files`, finite or not, from `EngineAssumption` alone:
`TypeCorrect`, `CurrentItemIsAlive`, `RequestsAreSerial`, `NothingForgotten`, `FinishedComesLast`,
`ReportsAreKept`, `EngineImplementsBatch`, `EngineKeepsItemContract`.

The first four rest on one inductive invariant, `IInv`. None of the properties is inductive by
itself: that no deleted item is reached through `currentItem` depends on the queue holding no item
twice and none that has been deleted; that one request is in flight depends on a queued item never
having been touched; that `cancelAll()` completes the current item depends on a request being
listened to exactly while it has a reply. So `IInv` says

- `Sound`: types; queued items are distinct, untouched, not deleted (`QueueSound`); item and
  client agree on what they listen to (`ItemSound`);
- `Uploading` while `notified`, `Resting` otherwise: the state of the engine, and whose request may
  be in flight;
- every file requested is `Tracked`: deleted, queued or current; any other file's item is
  untouched.

The slots call one another, so the proof goes the same way: a lemma per slot
(`LastItemFinishedSound`, `AbandonSound`, `UploadNextSound`, `ItemFinishedSound`,
`UploadFinishedSound`, `CancelCurrentSound`, `SessionLostSound`, ...) says that every state it may
end in satisfies `PipeInv` and tracks the same files; each action is then one citation.
`ReportsAreKept` asks in addition which files a slot may remove (`Spares`): that of the item whose
request has just been answered, since every other slot finds a client that has let go of its reply; the
invariant `FilesInv` ties the items to the disk. `FinishedComesLast` is about steps, not states: what a
slot appends to the reports (`Reports`) it appends with nothing pending.

`EngineImplementsBatch` is the refinement: every step of the engine is a step of `UploadBatch` or a
stutter. What a slot does is summed up in one lemma per slot about what becomes of the files that were
tracked (`...Effect`): each is still pending or has been deleted, and `finished()` comes in the step
that deletes the last. A step of the engine's event loop is then one that settles files (`Settle`), a
call of the queue one that adds a file (`Submit`, or `SubmitAndFail` if the session fails within it),
and the end of the process is `End`. `EngineKeepsItemContract` says the same of each item: from where
the slots call it, it is always in a state in which `UploadItem` allows the call.

`CountInv` is the book-keeping of the engine, for `AutoUploaderProofs`: the total is what has been sent,
what is queued and the current item, and more than that after a failure. It assumes `~SyncErrors` and
`Vanishing = {}`, and with either dropped TLC shows that it fails: an item whose file has gone and which
is then cancelled counts as sent, and a session that fails within `enqueue()` is reported with a total
of 0.

`AutoUploaderProofs`, for any finite `Files` (a directory holds finitely many; the service counts
them): `ServiceTypeCorrect`, `SuccessIsTrue`, and, under the two conditions above, `FailuresAreTrue` and
`ServiceHearsTheTruth`.

- The difficulty is the loop of `uploadFiles()`: each turn calls `enqueue()`, within which the first
  item may be started, fail, and take the batch with it, so that the service has dropped its engine
  by the time the next turn begins. The loop is a recursive function over the positions of the list;
  that such a function exists is proved (`LoopIsDefined`), by induction over a set of numbers, and an
  invariant is then carried from turn to turn.
- `ServiceInv` says that a service that is not exiting is `AtWork`: it has an engine if it has been
  activated, the engine is sound in the sense of `PipeInv`, has reported nothing (the service drops it
  in the step in which it reports), and tracks what has been requested.
- `SuccessInv`: what the user has been told of and what the engine has counted since are different
  files, all of them off the disk and not pending, `Gone`. Those are the answered ones and those that
  others have removed. This is what keeps the number true when the daemon
  resets the saved count at any time.
- `ShownInv`: `sent` and the total are the cardinalities of what has been sent and requested.

`UploadItemProofs`, for any files: `TypeCorrect` (no item emits `uploadFinished()` twice),
`NothingLost`, `FinishedMeansAnswered` and `VerdictStays`. The invariant says of an item that has not
completed that it is untouched, or listens to a request, or could not read its file (`Incomplete`), and
of one that has that it listens to nothing that could change it (`Settled`). `KeepsItemContract`, which
`engine_safety` checks, says that each item in the engine behaves as one of these.

### The monitor

`CoreMonitorProofs`, for any directories and classes and any finite `Files`, with `Max` at least one:

- `TypeCorrect` and `HandledOnce`: whatever happens to the directories, the watchers, the monitor
  and the daemon, a core that has been handled is not taken for new again, unless the list was read
  while its file system was away. Needs `KnownInv`, which speaks of what is on a file system whether
  it is mounted or not;
- `NothingNewDeleted`: a core is deleted only after `Max` like it have been left within the last day
  by the clock, or one of its class was counted twice. Needs `KeptInv`: so many of a class as its count
  says, up to `Max`, have been left since the count was started; a restart only makes it worth less;
- `FewLeftInADay`: fewer than `2 * Max` similar ones are left within any day. Assumes `~Restarts` and
  `~Toggles`, because the counts are lost with the monitor. The invariant is the converse of `KeptInv`,
  `CountedClass`: since the count was started at most `Max` have been left, the first of them at its
  start, and of those before it all but one may lie within the day before, at most `Max - 1`. A day that
  reaches over the start of a count has at most both;
- `NothingForgotten`: a core that came together with others is on its way to the uploader or there is
  a change still to be handled. Assumes `Removable = {}` and `~Toggles`; needs `FoundInv`, which
  speaks of the moments in which the list is read anew as well. It is no contradiction to
  `monitor_requested`: the property is about cores *not known*, the finding about one that is taken
  for known.

### Services

The specification lets one part run and the others rest, so `EachAsIfAlone` first: a behaviour of
`Services` is, for each part, one of that part's own specification. Each can then be reasoned about as if
it ran alone.

*Journal spy*, for any expressions, entries, files and silent period: `SilenceIsDeserved`, by an
invariant that `lastHit` is the time of the last hit or long ago; `NoMoreThanFour`, the promise of
`journalspy.h`, which follows: collections for an expression are more than a quarter of a day apart.
`LoadsAsWritten` compares the one pass of `loadExpressions()` over the lines with what the file says
if it is looked at as a whole: the sections that begin at its headings, indented or not, and of each the
first valid pattern of either field. First, what the code reads is a file in which only those headings
count that it sees (`Seen`): the invariant of the pass, `ReadTo`, says that what has been read is the
fields written in the section that is open, so far, and the expressions of those before it, and the lemma
it turns on is that the first valid pattern of a section stays the first when a line is added. Then
(`SeenAsWritten`), such a section is the one that is written, unless an indented heading lies in it.

*Endurance collector* (`EnduranceProofs`), for any number of boots, of snapshots to a report and of
snapshots to a session: `NoSleepUnderCollection`, `SleepAfterCollection`, `ReportsOfOneSession`. None
is inductive. The first two need `ChildInv`: the next heartbeat is asked for only when the child has
exited, so while there is one none can be due, not even one left in the set of `select()` from the last
pass. The third needs `SessionInv`: what the directories hold is of one boot, and of this one as soon as the
boot is marked, wherever the script was killed.

*Switch of a unit* (`SystemdServiceProofs`): `SwitchShowsUnit`, `PageShowsUnitFile`, `LastClickWins`. A
state on the page that is out of date is excused by a message still to come, and `StateInv` says which
one: a change of the property, or the appearance of a unit. The second is not enough for a unit that
is down, which may be unloaded again before it is read. `SwitchInv` says of calls and job together
what was wanted last: it is on its way with nothing that undoes it behind it, or done with nothing that
undoes it on its way.

*Marks*: `MarkAndUnitAgree`, by `MarkLeads`: since the mark is set before the helper is run, a job
that systemd has is of a click whose mark is there.

`ServicesTypeCorrect` puts the types together.

### Desktop

`DesktopProofs`. *Daemon*, for any number of failures, exits, kills and notifications: `NoTightLoop`,
since a start without delay needs the PID file and its failure removes it (`StartInv`); `CountBeginsAnew`
(`CountInv`); `NotificationIsReplaced`: of all identifiers shown but the one that will be replaced, each was
lost by a daemon that could not save it or is of a notification closed late (`NoteInv`);
`ChoiceIsHonoured`: what a client has asked for is in the file before anything else happens, and in the
copy of every daemon that starts (`ChoiceInv`). For a request that is ignored `MonitorInv` is needed:
the monitor is there as the daemon's copy of the settings says, so that what was asked for is there
already.

*List of reports*, for any finite set of reports with dates: `ListShowsWhatIsThere` and
`RowsKeepTheirOrder`. `PageInv` and `ListInv`: unless a change is signalled or was missed, number and
list are those of the disk. `setData()` is two loops, each with an invariant: `KeptOf`, the rows kept
so far are those of the old list that are in the new one, in their old order; `InsertedIn`, those of the
new list that were missing have been put in without moving any pair. That all positions of the new listing
are filled is an argument about cardinalities (`PermutationNamesAll`).

*Storage monitor*, for any arguments, kills and identifiers: `WarnsOnce`, by the same argument as
for the daemon: of all others shown, each is of a process killed before it saved the identifier.

`DesktopTypeCorrect` puts the types together. The assumptions are `FilesAssumption`, `DaemonAssumption`
and `StorageAssumption`, which say no more than that the bounds are numbers.

### Model-checked only

- Liveness: `BatchEnds`, `ServiceQuits`, `SnapshotsGoOn`, `ClickSettles`, `FullIsNoticed` and the
  liveness the monitor's findings refute. They need fairness and `ENABLED`, which the prover does not
  have.
- The findings, which are counterexamples.
- What is computed of names and labels (`ReportNames`, `LogCollection`, with `PowerSaving`): TLC
  evaluates the assumptions of `MCCoreMonitor`, over names of bounded length.

No module declares a recursive operator; loops are recursive functions, and the prover has no induction
over data. That a recursive function is defined, and what a loop keeps, is therefore proved from
the least element of a set of natural numbers (`LeastNumber`, `SetInduction`), which stand in each of
the three proof modules that need them: the library's theorems take an operator as a parameter.

## 6. Not modelled

- The logger, and the D-Bus proxies and adaptors, which pass calls on.
- `libs/utils`: writing and compressing of reports (`appendToLzo`), the device's identity.
- `libs/settings`: the application settings, read and written by the settings page and read once by
  the uploader: addresses without an order of events.
- `libs/httpclient`: the contents of requests, SSL, authentication.
- Headers, which only declare what the modules take from the sources.
- The layout of the page, translations, packaging, and the scripts of `rich-core-dumper` that write a
  core: they run once, alone, and are taken as a source of reports.
