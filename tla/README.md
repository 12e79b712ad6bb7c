# Persistent Storage Manager: TLA+ models, checks and proofs

PSM keeps the settings of an RDK-B gateway: other processes read and write
named records over D-Bus and RBus, PSM holds them in a registry tree in memory,
and writes the tree to an XML file with a backup.  This directory models the
parts of it that are hard to test: when a change reaches the files, what the
files are after a crash in the middle of a save or of a recovery, and how the
bus handlers, the flush timer, the factory reset and the signals interleave,
what the handlers do with lists of parameters, and what an import or an update
does to the files under a running PSM.
Paths below are relative to the repository.

## The system

| Component | Source | State it keeps | Operations |
|---|---|---|---|
| Registry object (PsmSysRegistry) | `source/PsmSysRegistry/psm_sysro_{base,operation,sysramif}.c` | `bNoSave`, `bNeedFlush`, `bSaveInProgress`, `LastRegWriteAt`, `FileSyncRefCount`, `AccessLock`, the registry timer | Engage, Cancel, RegTimerInvoke, SysRamNotify, SysRamEnableFileSync |
| Registry storage | `psm_sysro_storage.c` | a temporary file during an import | ResetToFactoryDefault, SaveConfigToFlash, Import, Export |
| Base file interface | `psm_sysro_cfmif.c` | current and backup file | ReadCurConfig, ReadDefConfig, SaveCurConfig |
| HAL file interface, the one shipped (`USE_PLATFORM_SPECIFIC_HAL`, `source/include/psm_hal_apis.h:78`) | `source/Ssp/ssp_cfmif.c`, `psm_hal_apis.c` | `/tmp/bbhm_cur_cfg.xml`, `/nvram/bbhm_bak_cfg.xml`, the record table `rec_hash`, `parm_present_table`, partner markers and syscfg values | the same, with merging; UpdateConfigs; the parameters that a device got in the factory (GetCustomParams) |
| File loader | `source/PsmFileLoader/*.c` | `bActive` | LoadRegFile, SaveRegFile, TestRegFile; XML to tree and back (`psm_flo_parse.c`) |
| Bus handlers | `source/Ssp/ssp_dbus.c`, `ssp_rbus.c` | `g_psmHealth`, PSM's own parameters (`g_bLogEnable`, `g_iTraceLevel`, `g_NewConfigPath`); they hold the thread lock of the repository | get, set, attributes (delete), names; DisableWriting, ReloadConfig, UpdateConfigs, factory reset |
| Main program | `source/Ssp/ssp_main.c` | the objects above, `g_psmHealth` | start, SIGTERM, SIGINT and SIGUSR2 |

External to the repository are the System Information Repository (the tree and
its thread lock), the ANSC timer, file and XML library, syscfg, the buses, and
the scripts that leave partner defaults at boot.

How they interact: a bus handler takes the repository's thread lock, changes
records in the tree, and the repository calls SysRamNotify, which raises
`bNeedFlush`.  Every 10 seconds the timer calls RegTimerInvoke, which takes
`AccessLock`, then the thread lock, has the file loader encode the tree and
hands the text to SaveCurConfig, unless the last change is less than 3 seconds
old or the file sync is disabled.  SIGTERM and a reload save through
SaveConfigToFlash, which takes `AccessLock` only.  A factory reset unlinks both
files from a task of its own, while everything else goes on.

What is hard about it: two locks taken in two orders; flags that are tested
without a lock; two files written in place, one after the other, that must
survive a stop between any two system calls; recovery code that itself can be
interrupted; I/O errors whose results are dropped; and a main thread that a
signal can take out of the middle of the load.

What makes each component correct:

* file interfaces: one of the files always stands for a configuration that was
  saved; success means durable; recovery loads what survived, and ends;
* merging: user settings win over custom, default and bootstrap values, and
  only a partner default that was asked for replaces them, whichever of the
  sources cannot be read;
* registry: no change is forgotten: it is in the files or a flush is due; the
  timer writes a consistent tree; SIGTERM leaves the latest settings behind; a
  factory reset stays done;
* handlers: each returns, each lock is released once, none waits in a cycle;
  what a set or a delete got through stays done while it goes on and when it
  answers, and a get answers from one moment of the tree;
* import and update: an import that succeeded is what the next start finds,
  what it replaces is in the backup from the moment it begins to write,
  ciphertext gets into no configuration, and no network is given the name or
  the key of another.

## Modules

| Module | Models | State and actions |
|---|---|---|
| `ConfigFiles` | what a file of the base interface can hold | `Missing`, `Empty`, `Torn` or a configuration; `Intact` is TestRegFile, `Copyable` is what backup_file needs |
| `DurableConfig` | the promise of the files: one crash-safe register | abstract; Request, Commit, Abandon, Reset |
| `CfmBase` | `psm_sysro_cfmif.c` and backup_file | one action per system call that changes a file: ReadCurConfig's loop of three attempts (`attempt` is its `i`), SaveCurConfig's backup-then-overwrite, the two unlinks of the factory reset, a crash anywhere |
| `CfmBaseProofs` | theorems about `CfmBase` | |
| `CfmSsp` | `ssp_cfmif.c`, record by record | load_records, the three merges, the partner defaults with their markers, flush_records, SaveCurConfig and backup_file; kill and power loss are different: `/tmp` survives the first only |
| `CfmSspProofs` | theorems about `CfmSsp` | |
| `WriteBack` | the promise of a running PSM about one setting | abstract; clients change it, the store follows with a lag and never goes back, a start serves what is stored; what a termination during the start and a factory reset may break is said there |
| `SysRegistry` | the registry object, the locks and every thread | one label per program point between which another thread can run; the file interface in one step |
| `SysRegistryProofs` | theorems about `SysRegistry`: types, locks, the timer's text | |
| `SysRegistryFlushProofs` | theorems about when its tree reaches the files; `SysRegistry` implements `WriteBack` | |
| `RecordStore` | the promise of the bus interface | abstract; the tree changes one record at a time, each read answers from one moment, the files keep what the tree was at some moment, or a part of that when a save failed |
| `BusApi` | the handlers of `ssp_dbus.c` and `ssp_rbus.c` for whole requests | one action per member of the list (`items`, `pos`, `out`): AddRecord2, DelRecord, GetRecord, EnumRecord, PSM's own parameters with their side effects; the start up to `g_psmHealth`, the failure branches, the exits |
| `BusApiProofs` | theorems about `BusApi`: types, locks, what a set got through | |
| `BusApiStoreProofs` | `BusApi` implements `RecordStore` | |
| `ConfigTransfer` | PsmSysroImportConfig beside the saves of the registry, UpdateConfigs, ReadDefConfig | `cur`, `bak`, `tmp`, `def`; two threads, the owner that imports and the saver; one action per file operation |
| `ConfigTransferProofs` | theorems about `ConfigTransfer` | |
| `ConfigUpdate` | ssp_CfmUpdateConfigs and its helpers | no state: documents are sequences of records |
| `HalParams` | PsmHal_GetCustomParams of the Broadcom builds | no state: what each network's name and passphrase are for each device |
| `XmlRecord` | the conversions of `psm_flo_parse.c` | no state: what each decoder makes of each form of text, and what is written of a record |
| `FileLoader` | LoadRegFile, SaveRegFile and their walks | `file` and the tree (`recs`, `dirs`); one action per element that is loaded or saved, `path` for the recursion; starts, reloads, bus changes, failures of single elements, kills |
| `FileLoaderProofs` | theorems about `FileLoader` | |
| `MCCfmBase`, `MCCfmSsp`, `MCSysRegistry`, `MCFileLoader`, `MCBusApi`, `MCConfigTransfer` | the small instances | model values and the symmetry of the handlers |

`SysRegistry` stands above the file interfaces: it uses their results as one
step (`ReadBack`, `Saved`), which the two file modules justify for a run of the
process that is not cut; a stop inside a save is theirs.  In the same way
`FileLoader` looks inside the load and the save that are single steps of
`SysRegistry`, and takes the file interface as one step.  `BusApi` looks inside
the handlers, whose lists are a loop at one label in `SysRegistry`, and takes
loads and saves as steps: a save that fails leaves the file as it was, if it
could not be opened, or some of the records, and a load takes whatever the
current file has (the way over the backup, and stops in between, are
`CfmSsp`'s).

`ConfigTransfer` extends `ConfigUpdate`, and that `HalParams`.  Its two threads
save through two functions, each at the grain of open, write and backup.  The
main program puts the HAL's functions into the interface that the file loader
calls (`ssp_main.c:482-497`), so the registry saves with ssp_CfmSaveCurConfig:
create or truncate the current file, write it, copy it to the backup.
PsmSysroImportConfig calls the object's own CfmSaveCurConfig
(`psm_sysro_storage.c:375`), which is PsmSysroCfmSaveCurConfig in every build
(`psm_sysro_base.c:530`): copy the current file to the backup, open it, which
fails if it is missing, truncate and write it, and no backup afterwards.
`OpenCur`, `WriteCur`, `BackupCur` and `SaveFails` are the steps of both, in the
order in which each thread goes through them.  Definitions whose comment begins with "A slip" are not
part of any specification: they are plausible mistakes of the modelled code,
and each property fails when one of them takes the place of the action it is
named after.

### Abstractions and assumptions

* `SysRegistry` has one setting that stands for any record.  The tree's write
  lock is held during the encoding and each change, so these are single steps.
* Base interface: a text that is not complete is refused by the XML parser
  (external).  HAL interface: the line parser takes any record line that is
  complete, so a torn file is some part of the records; which part depends on
  the order of hash table or tree and is left open.
* A completed system call is durable.  The code never calls fsync; a page cache
  that reorders writes is not modelled.
* The timer's Stop does not wait for an invocation that has begun.  Signals
  reach the main thread; one that comes while the file loader is not active yet
  saves nothing and is like a kill.
* `ForeignUnlock` says whether releasing the thread lock frees it for another
  thread's hold, which depends on the kind of mutex behind it.
* In `SysRegistry` it is left open whether setParameterValues skips a value that
  did not change; `BusApi` says when it does.
* Handlers with several parameters loop at label "param"; the list is finite.
  One reset task runs at a time.
* In `CfmSsp` the calls run one at a time, as `AccessLock` has it for saves; a
  SIGTERM save against a reload (which reads without `AccessLock`) is the
  exception, and `ConfigTransfer` has two threads inside a save at once, though
  not record by record.
* `FileLoader`: a value is a form, which says which decoder takes it, and a
  number; digits, separators, the case of names and the limits on the length of
  a text are left out.  The end of a save (`EndSave`) is the base interface's,
  whose files a load does not merge with anything.  Where the XML
  library's status for a node without text matters, both outcomes are possible.
  AddRecord2 and AddFolder (external) replace a record of the same name and
  open a folder that exists; the order in which the repository enumerates is
  left open.  Only SIGTERM can save during a load, which `SysRegistry` shows.
* `BusApi`: a name is a sequence of tokens, "." among them; which record RBus can
  carry is a set.  A start or a reload saves and loads in one step, which fills
  gaps with the factory records if these can be read; what a failing save wrote
  before the fault is any part of the records.  A get that fails after it found
  something frees an entry that the exit frees again: then the process may end
  (`Crash`) or go on.  The repository accepts any value for any name.
* `ConfigTransfer`: a file is missing, a document, empty, a text that was not
  deciphered, or a mixture of texts.  A mixture may be accepted, as the parser
  takes any lines that are complete.  Two writers of one file leave one text or
  the other or a mixture.  Whatever is not missing in a device's factory data is
  a text: the functions of factory_info (external) are assumed to write their
  buffer.  A power loss takes `/tmp`, with the current file, and leaves the
  completed writes in `/nvram`, with the backup.
* The HAL merge of factory defaults brings a deleted record back at each start,
  so runs with "delete" use the base interface.

## Runs

| Run | Asks |
|---|---|
| `cfm_base` | With no I/O faults: `Durable`, the refinement of `DurableConfig`, with `Recovered` (what a start would load now) as the register; `KeepsOneIntact`; `LoadsWhatSurvived`; `ResetStays`; and `IInv`, the inductive invariant of the proofs |
| `cfm_base_faults` | With faults: `SuccessIsDurable`, `EveryCallEnds` |
| `cfm_ssp` | The HAL interface under I/O faults, sources that cannot be read, kills and power losses: `WholeIsKnown`, `SuccessIsDurable`, `LoadsTheMerge` |
| `file_loader` | Documents with records of every type, failures and kills: `SavesSurvive`, `SavedLoads`, `ReloadKeeps`, `LoadedSoFar`, and `LoadEnds` under fairness |
| `registry` | Two handlers that set, delete, switch the sync, reload and reset: `LocksExclude`, `WritesBack`, the refinement of `WriteBack`; `OnlyLockCycle`, the cycle below is the only deadlock; `LagIsScheduled`, `TimerSavesTheTree`, `FlushStores`, `TermSavesSettings` |
| `registry_fair` | The shipped build, with saves and loads that fail, set and get: `EveryRequestEnds` and `QuietIsFlushed` under fairness, and the locks again |
| `bus_api` | Two clients on both buses with lists of records and own parameters, reloads, resets, failures, saves that leave a part of the file: `Atomic`, the refinement of `RecordStore`; `AppliedSoFar`; `OneWorks` |
| `config_transfer` | Imports, saves, updates and default configurations on five devices, with faults, kills and power losses: `ImportLasts`, `OldSurvives`, `NoCiphertext`, `SlotsKept` |

What a property leaves open is said in its comment, and is what the code does.
`LoadsTheMerge` is exact for a start; a reload does not fill in from
bootstrap.json what an earlier load of the process has seen, as the marks in
`parm_present_table` stay.  With faults it lets the custom and the factory records
be missing as a whole, since a load goes on without a source that it cannot read
(`ssp_cfmif.c:1524`, `1529`).  `ImportLasts` and `OldSurvives` are about an import
beside a save that had begun before it and is still to make its backup, or to
write; once the two have written over each other nothing is known of the file.

The other runs end in a counterexample to something the documentation says:

| Run | What happens |
|---|---|
| `cfm_ssp_torn` | A kill during the write of the current file; the next start loads the torn file although the backup is whole, fills the gaps with defaults and overwrites the backup (README:195) |
| `registry_lock_cycle` | The timer holds `AccessLock` and waits for the thread lock, a handler holds the thread lock and waits for `AccessLock` in DisableWriting or ReloadConfig (README:188) |
| `registry_reset_undone` | A flush in flight, or SIGTERM, writes the files again after the factory reset removed them (README:52) |
| `registry_term_in_load` | SIGTERM during the load saves a tree that is not loaded yet (comment at `ssp_main.c:221`) |

Bounds.  Two whole configurations besides the factory default tell old from new
from default in `CfmBase`.  In `CfmSsp` one name has a custom over a default
value, the other is known to the partner and to bootstrap.json only; with two
values and absence every precedence between two sources shows.  In
`FileLoader` a document has up to three elements besides the ends of folders:
a record before and in a folder, nested folders of one name, a folder and a
record that come twice, an unknown element between two records; every decoder
has a text it takes and, over the documents, one that it refuses, passes over
or changes.  In `SysRegistry` one or two handlers suffice for the cycle and for each race with
the timer; the setting has two values and absence; `RefModulus` = 4 stands for
the width of the unsigned `FileSyncRefCount` and makes it wrap; no run bounds
the number of steps, crashes or restarts.  Handlers are symmetric, and
symmetry is used where only safety is checked.
In `BusApi` two clients are all that a lock can tell apart; lists of two to four
members hold a record that comes twice, a record before a reload, own
parameters around each other, and an absent name before and behind others;
names have two levels, so that a list of the next level meets one name twice;
`RefModulus` = 2 wraps.  In `ConfigTransfer` two documents differ in a record
that is kept and agree in one that is replaced under a condition; of the five
devices, two of the build with the most networks miss different factory data,
one of each other build has it all or one text too short, and one has none.  The runs of `SysRegistry` that
include the lock cycle do not check for deadlock, as the system really stops.

Fairness.  `BusApi` and `ConfigTransfer` state none.  `FileLoader`: a load that has begun goes on, without a failure
being owed.  `CfmBase`: a call that has begun goes on; nobody has to begin one.
`SysRegistry`: the scheduler runs the main thread, the timer thread, the reset
task and each handler (weak fairness); the flush delay passes; and a handler
whose list of parameters is finite returns in the end although it passes its
"param" label again and again (strong fairness of `HandlerReturns`).  No
request, no signal and no fault is ever owed.

## Theorems

`CfmBaseProofs`, for any set of configurations.  `TypeCorrect`, `SuccessStored`
and `ResetLasts` hold with I/O faults too, the others without:

* `TypeCorrect`: `Spec => []TypeOK`, with and without faults.
* `Invariance`: `Spec => []IInv`.  The invariant says phase by phase which file
  can be relied on: while the backup is written the current file is intact, and
  while the current file is written the backup is; and in a recovery, why the
  attempt under way is the right one.  `HistoryOK` relates the backup to what
  was stored before.  None of the properties is inductive without it.
* `SuccessStored`: a save that reports success has left the configuration in a
  file.  `ResetLasts`: a factory reset stays done through every later
  save of the same process.  They need
  `InHand`: a save has a configuration in its hands, and the current file exists
  when it is copied or written.
* `OneStaysIntact`, `StartLoads`, and `Implementation`: each step of `CfmBase`
  is a step of `DurableConfig` or a stutter (the mapping is in `CfmBase`).

`SysRegistryProofs`, for any clients, operations, values and build:

* `TypeCorrect`.
* `MutualExclusion`, if only the holder releases the thread lock
  (`ForeignUnlock = FALSE`): each lock is held exactly at the labels that need
  it and `bSaveInProgress` is exact.  The proof has one step per kind of
  action: one that keeps, takes or drops a lock.
* `SavesExclude`, without that assumption: one thread at a time saves under
  `AccessLock`, and `bSaveInProgress` says when.  The release of a thread lock that
  another thread holds harms the thread lock only.
* `OneDeadlock`, if only the holder releases the thread lock: unless the timer and
  a handler wait for each other, whoever waits for a lock waits for a thread that
  works, or for one that waits for such a thread.  From `LocksExclude` it follows
  who can hold which lock (`Holders`) and that the holder of each goes on by
  itself (`SaverWorks`, `HandlerWorks`), but for the timer (`TimerWaits`).
* `CycleTakesSwitch`, whatever the mutex: without DisableWriting and ReloadConfig
  the timer and a handler never wait for each other (`NoLockCycle`, which a run
  shows violated with them).
* `TimerSavesTree`, if only the holder releases the thread lock: from the encoding
  until the flag is cleared the tree is what the timer writes.  It needs `LocksExclude` (no
  handler changes the tree then) and `StartsAlone` (during the start, where the
  main thread loads without a lock, the timer is idle: nothing raises
  `bNeedFlush` while `bNoSave` holds).

`SysRegistryFlushProofs`, under `Reliable`: saves and loads do not fail, only the
holder releases the thread lock, and in the HAL build no setting is deleted.
All three are needed: a failed save is not retried (below), a foreign unlock lets
a handler change the tree between the encoding and the clearing of the flag, and
the factory records that the HAL build merges in bring a deleted setting back at
each load.  The model checker has these properties for the base build; the
theorems are for both.

* `FlushesStore`: when the timer clears the flag the files have what the tree has.
* `LagScheduled`: settings that the files lack are flagged or about to be.
* `TermSaves`: SIGTERM leaves the latest settings behind.
* `Implements`: each step of the threads is a step of `WriteBack` or a stutter.  The
  setting is `mem`, the store is what a restart would load (`FileValue`), the client
  that changes it is the one at "notify", and `Life` is where the main thread is.
  So only clients change the setting, a reload is invisible, and no flush brings
  back an earlier setting, whoever makes it.  Two holes are part of the promise,
  as the code has them: a SIGTERM during the start may store the tree that is not
  loaded, and from a factory reset until a new process has loaded nothing is
  promised, as a save under way may undo it, or leave the two files of the HAL
  build different.  Besides `FlushInv` the mapping needs that a reload finds in the
  files what the tree has (`ReloadFollows`), that outside a reset the files of the
  HAL build agree (`Paired`), and what the main thread owes and saves in each life
  of the process (`LivesOn`).

The invariant `FlushInv` adds what each of them leaves unsaid: while the timer or
a flash save writes, its text is the tree's (`FlashSuspends`, with
`TimerSavesTheTree`); before PSM serves nobody changes the tree (`QuietBefore`);
a start loads what was stored (`StartFollows`, `FileThere`, `NoAbsence`); and what
SIGTERM owes is the tree or what came after it (`Owes`).

`BusApiProofs`, for any clients, names, values, and requests and lists of any
length:

* `TypeCorrect`.
* `MutualExclusion`, if only the holder releases the thread lock: the handlers of
  both buses are in the tree one at a time, although a failed get releases the
  lock twice and an RBus delete takes it once for each name.
* `SetsLast`, under the same assumption: what a set or a delete got through and
  did not fail is in the tree, or out of it.  The proof goes by who is inside the
  lock: any step of another client leaves the tree alone, and of the client's own
  steps only those that pass a member change it; a later member of the same name
  is why `AppliedSoFar` speaks of the last word on a name.  It needs that nobody
  is at work before PSM serves.

`BusApiStoreProofs`, for the same clients and requests: `Implements`, each step of
`BusApi` is a step of `RecordStore` or a stutter, if only the holder releases the
thread lock.  Without that it is false: a set in the middle of a get would show
in half of its answer.  The invariant relates what a request has gathered so far
to what the store would tell at this moment (`SoFar`): of a get, each result with
the name it is from; of names, each listed once and the rest still to come.  The
tree cannot change meanwhile, as the holder of the lock is the only one at work.
`EntryIsChildren` shows that the code's search for the next dot finds the store's
children of a folder.

`CfmSspProofs`, for any names, values and sources, with I/O faults, kills and power
losses:

* `TypeCorrect`.
* `KnownWhole`: a whole current file is one that somebody stored or merged.
  `DurableSuccess`: a save that reports success has its records in the current
  file.  Both go by what the save has done at each of its labels (`Stored`,
  `Known`).
* `MergeLoads`: what a start or a reload loads is the merge, in their order of
  precedence, of the sources that could be read.  `Gathered` says what the record table is at each point of
  ReadCurConfig; that `Over` is associative is the lemma it rests on.

`ConfigTransferProofs`, for any documents and devices:

* `TypeCorrect`.
* `StaysOut`: ciphertext gets into no configuration, through either save.
  `Deciphered` says which text a thread has in its hands.  This and the next two
  rest on what an update does: the record helpers fail always, so the files stay
  (`UpdateGives`).
* `SlotsStay`: on any device, whatever factory data it lacks, no network gets the
  name or passphrase of another, but for the divergence below.  The buffer that
  all networks share is a recursive function of the network: a function that
  satisfies its equation is exhibited, so the equation holds of the buffer
  (`BufferEquation`), and for each network the case in hand says where its text
  was read.  `Fitting` is the invariant of a default configuration while others
  work on the files.
* `Lasts`: an import that succeeded is what the next start finds.
* `OldStays`: what an import replaces is in the backup from the moment it has the
  current file to write, and stays there whatever becomes of the import, through
  failures, kills and power losses, until the registry writes.

`FileLoaderProofs`, for any documents, names and values, trees of any depth, failures
of single elements, and kills; it assumes that a record of a document has one of
the forms of text, and that no client names a record "":

* `TypeCorrect`.
* `LoadsBack`: only an enum record or an empty list of addresses stops the load of
  what was saved without a failure.
* `ReloadIsInert`: a reload changes nothing of the live tree.
* `Survive`: what was saved without a failure is what the next start finds.

The conversions come first: a record that a save keeps is loaded as it was
(`RoundTrip`, a theorem of its own), and of all others only two kinds are refused (`RefusedWritten`).
The document is then related to the tree by a walk, the folder behind each
element (`Describes`), which a save extends element by element (`SaveInv`) and a
load follows (`FileInv`).  That a save leaves nothing out goes by the folders
that the walk has left (`DoneInv`), and in the end by the shortest path that it
would have missed.

* `FollowsDocument`: what a load has passed lies where the document has it, for
  documents of any nesting and wherever the load is cut.  `LoadedSoFar` counts the
  folders that are open around an element; the lemmas on nesting say how that
  count, and with it the folder that the element is in, changes from one element
  to the next, and the invariant says that `path` is this folder (`LoadInv`).

Model-checked only: the liveness properties, `EveryCallEnds`, `LoadEnds`,
`EveryRequestEnds` and `QuietIsFlushed`, which are out of reach of the prover, and
the counterexamples above.  Every invariant, action property and refinement of a
passing run is a theorem as well, under the assumptions stated here.

## Known divergences without a run

* Changes closer together than the flush delay put the flush off for ever
  (`psm_sysro_operation.c:286`; README:136 calls the flush periodic).
* A flush whose save failed clears `bNeedFlush` and nothing retries
  (`psm_sysro_operation.c:304`; README:189).
* A reload whose save failed loads the file that the save truncated
  (`ssp_cfmif.c:2278`, `ssp_dbus.c:1029` looks at no status), so that changes
  which only the tree had can be taken back by older or factory values.
* ResetToFactoryDefault returns the status of the second unlink, so that a
  reset that finds no backup does not reboot (`psm_sysro_storage.c:144`).
* EnableFileSync(TRUE) at zero wraps the count and turns saving off, and
  DisableWriting = true is what calls it (`psm_sysro_sysramif.c:118`).
* With I/O faults, the base interface truncates the good file after a backup
  that failed half way (`psm_sysro_cfmif.c:600`).
* Partner values are unset, and their markers deleted, before the configuration
  that has them is saved (`ssp_cfmif.c:1313`): a stop in between loses them.
* A ReadCurConfig whose save fails leaves an empty tree that is then served and
  saved (`psm_sysro_operation.c:153` looks at no status).
* A record that cannot be read ends the load; what comes behind it is missing
  from the tree and from the next save (`psm_flo_parse.c:2138`).  A save writes
  an enum record without a value (`psm_flo_parse.c:1175`), which does that.
* An element that is neither folder nor record is to be "ignored"
  (`psm_flo_parse.c:2131`), and the load stays at it for ever.
* A record loses its permission, and a folder its type, in a save
  (`psm_flo_parse.c:1164`, `1922`).
* With an 8-byte ULONG the binary lists double with each load and save
  (`psm_flo_parse.c:575`, `737`).

* getParameterValues is to release the thread lock exactly once (comment at
  `ssp_dbus.c:897`), but a branch that failed has released it before
  (`ssp_dbus.c:735`).  The same branch frees the entry it pushed last, which
  the exit finds in the list and frees again.
* A set of an own parameter that is only read falls through to the tree and
  reports success, while a get answers the constant (`ssp_dbus.c:682`, `1054`).
* A set that changes the type but not the text of a record changes nothing
  (`ssp_dbus.c:1070`).
* setParameterValues reports success whatever failed of its list
  (`ssp_dbus.c:1102`).
* RBus: a set takes the first property only (`ssp_rbus.c:164`); a get takes
  CCSP_FAILURE for success (`ssp_rbus.c:274`); a delete is not one critical
  section, the lock is taken for each name (`ssp_rbus.c:408`).
* getParameterValues compares names over the size of a pointer
  (`ssp_dbus.c:689`), so that a build with the bounds-checked strcmp_s takes any
  name that begins like PSM's own for one of them; the model compares names.
* An import without a key, or with one that is too short, empties the current
  file and reports success (`psm_sysro_storage.c:213`); the backup has what was
  there.  An export with a key is
  deciphered instead of enciphered (`psm_sysro_storage.c:535`).
* The temporary file of an import is not truncated, and is left behind by some
  failures (`psm_sysro_storage.c:277`).
* An import is not loaded into the tree, so the next flush stores the old
  settings over it.
* An import whose current file is missing fails, as its save does not create one
  (`psm_sysro_cfmif.c:605`), and an import is not in the backup until the
  registry saves: a power loss goes back to the configuration before it.
* UpdateConfigs does not merge: "all changes are done, it's time to write back
  to file" (`ssp_cfmif.c:2425`) and "new config means new default config"
  (`ssp_cfmif.c:2428`) write nothing, as XmlToFile fails always, and success is
  reported.
* The public network gets the passphrase of home security, which the buffer
  still holds (`psm_hal_apis.c:448`).

## Not modelled, and what is left

* Export and GetConfigSize (`psm_sysro_storage.c:400-627`) change no state; the
  default configuration of the base interface is a function that fails.
* The rdkconfig branches of `psm_hal_apis.c` (`CS_XB7`, `XB6`, lines 274-365 and
  612-795) and SCER11BEL: other sources for the same parameters.  In them a
  buffer that the first round of a loop freed is used again in the next.
* A page cache that reorders writes; memory exhaustion; the two writers of
  `ConfigTransfer` record by record.

Next would come the two writers of `ConfigTransfer` record by record, with the
reordering page cache, and the rdkconfig branches beside `HalParams`.

Not planned: getters, setters and object plumbing (`*_control.c`, `*_states.c`,
`*_interface.c`) with no behaviour of their own; the values that each platform
computes in `psm_hal_apis.c`; the console of the debug build; tests, factory
data and scripts.
