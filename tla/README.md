# Verification of the display control board firmware

This directory holds TLA+ models of the firmware in this repository, the TLC
configurations that check them, and proofs checked by TLAPS.

## The system

The firmware is the `ctrlboard` program (`project/ctrlboard`) on the ITE SDK
(`sdk`). It shows a GUI, keeps its settings in a file on NOR flash, serves a
small web site through which it can be configured and upgraded, follows the
storage devices that are plugged in, and talks to an external processor.

| Part | Code | State | Operations and partners | What is hard |
|---|---|---|---|---|
| NOR sector cache | `sdk/share/fat/nor/cache2.c`, `nordrv_f.c` | page buffers, sector and dirty flag per page, access times, flush mutex | read, write (from FAT, under its lock), flush (ioctl, idle, settings, upgrade) | flush and write use different locks; power loss; failing transfers |
| Settings | `config.c`, `backup.c`, `main.c`, `ug_filecrc.c`, `ug_reset.c` | `theConfig`, the ini file, its checksum file, backup copies on drive C, saving flag and counter | `ConfigSave` from GUI and web, one task per save; recovery at boot | overlapping saves, power loss in saving and in recovering, drive letters that move |
| Upgrade and web server | `upgrade.c`, `webserver.c` | upgrade stream, ready/finished flags, result; request buffer | POST of a package, GET that starts it and waits; the main thread runs it after the GUI has quit | a handshake of polled flags without locks |
| Scene (GUI loop) | `scene.c` | command queue of 8, quit value, pages, delayed commands | load, change of language, quit, polling of storage, external and screen saver | commands that are dropped, a queue closed while another thread sends |
| Storage | `storage.c` | kinds of storage known to the GUI with the table entry of each, current kind | `StorageCheck` each frame, the user's choice | one event per frame; the entry it points to changes hands |
| Drives | `sdk/driver/itp/itp_card.c`, `itp_usb_msc.c`, `itp_usb_host.c`, `itp_drive_openrtos.c`, `itp_fat.c` | card queue of 3, polling state of each port, table of drive letters, mounted disks | slot interrupt, USB host task and a polling task per port report; the probe task mounts and unmounts | polling against unplugging, a full queue, a table read without a lock |
| External | `external.c` | two message queues of 8, quit flag | receive, send | one queue drops events, the other blocks the GUI |
| Network | `network.c` | ready, reset request, interface state | connection task; the reset has no caller | the libraries below it |
| Screen saver | `screen.c`, `scene.c`, `webserver.c` | off, countdown, last tick, type | check each frame, refresh by input and by uploads | a tick counter that wraps, two threads without a lock |
| Photo, audio | `photo.c`, `audio.c` | load thread, quit flag; key sound | load, exit; play, stop | callback after exit |
| Buffer stream | `sdk/share/itc/itc_bufferstream.c` | ring, positions, counters | read, write, lock and unlock | full and empty, wrap-around |
| Inter-processor queue | `sdk/driver/xcpu_master`, `xcpu_slave` | rings of 8 messages in shared memory | send, receive, route | one producer and one consumer without locks |
| Boot loader and upgrade package | `project/bootloader`, `sdk/share/upgrade` | package on a card, image and files in the flash | check, program block by block, delete, flush, restart, boot | power loss at any step, a card pulled or exchanged, failing writes |
| Wi-Fi manager | `sdk/share/wifi_mgr` | connection state, security mode tried | connect, retry | retry policy |

Vendored libraries (ffmpeg, openssl, linphone, freetype, lwip, wpa, SDL,
FreeRTOS), chip drivers without protocol of their own, GUI pages and the GUI
tool kit are left out. The HCC FAT file system is not in the repository; what
the models say of it is taken from how the code uses it and marked external.

Properties per part: a write-back cache must not lose or alias sectors and
must be durable after a flush; the settings must survive any power loss and
each save must reach the file; an upgrade handed over must be executed and its
result answered to the request that started it; queues must keep order and
drop nothing that matters; a half-written firmware must be repaired before it
is started; the screen must show what was chosen and go dark only when it
should; no thread may wait for ever.

## The modules and the code

| Module | Models | Lines of code it stands for |
|---|---|---|
| `WriteBackStore` | the promise of a write-back store: what a read returns, what a flush and a power loss do | abstract |
| `NorCache` | the NOR sector cache, implements `WriteBackStore` | `cache2.c`, `nordrv_f.c` |
| `Settings` | saving, backing up and recovering the settings | `config.c`, `backup.c`, `main.c`, `upgrade.c` (checksum, factory reset), `ug_filecrc.c`, `ug_reset.c`, the mounting in `itp_fat.c` |
| `WebUpgrade` | the upgrade from the web: clients, web server thread, main thread | `webserver.c`, `upgrade.c`, `scene.c` (quit), `main.c` |
| `Drives` | from the slots to the GUI's list of storage | `itp_card.c`, `itp_usb_msc.c`, `itp_usb_host.c`, `itp_drive_openrtos.c`, `itp_fat.c`, `storage.c` |
| `BootLoader` | the boot loader and the blocks of a package | `bootloader/main.c`, `upgrade.c`, `boot.c`, `sdk/share/upgrade/ug_*.c` |
| `Scene` | the GUI's frames, its command queue, the other processor's queues, the web's change of language | `scene.c`, `main.c`, `external.c`, three pages, `itu_scene.c` (delayed commands), `mq_send` |
| `ScreenSaver` | the idle time and the turning off and on of the screen | `screen.c`, `scene.c`, `webserver.c` |
| `MCSettings`, `MCBootLoader` | kinds of boards and a package for TLC | |
| `NorCache_proofs`, `NorCacheStore_proofs`, `Settings_proofs`, `WebUpgrade_proofs`, `Drives_proofs`, `BootLoader_proofs`, `Scene_proofs`, `ScreenSaver_proofs` | theorems about the module they are named after | |

The modules meet at the flash: `NorCache` shows what a flush and a power loss
do to sectors, and `Settings`, `WebUpgrade` and `BootLoader` take that as the
meaning of their flush and crash actions, one level up (files and packages
instead of sectors). They are not composed with each other: settings, upgrade
and drives share no other state, with one exception named under "Not
modelled". `Scene` composes the GUI with the external processor and with the
part of the web server that sends commands. The screen saver is a
module of its own because it shares only the order of the frame with them, and
time is its subject.

Each action has the name of the function it stands for, or of the step of it;
the operators whose names end otherwise (`...Kept`, `...Short`, `...Skipped`,
`...Unbounded` and so on) are the deliberately wrong variants that show that a
property can fail.

### NorCache

A call is a transfer of sectors or a flush. `_NOR_cache_getPage` is split
where the code can be interrupted or can fail: `Hit` and `Miss` (lookup, choice
of the least recently used page), `FlushEnter` to `FlushEnd` (the loop of
`_NOR_cache_flush` under `flushMutex`: find the dirty page with the lowest
sector, program it, clear its flag), `Load` and `LoadFail` (read the page),
`CopyOut`, `CopyIn` and `MarkDirty` (copy, then set the flag), `Proceed` (next
page or return). The data of a page is a function on the sectors it covers;
the 32-bit access times are an order `older` between pages, which is what the
code compares. The lock around reads and writes is the FAT driver's
(`fatLock`, external); a flush through `ioctl` does not take it, and this is
what makes the two-thread runs interesting. A power loss keeps `disc`, with
the sectors of a page being programmed `Torn`, and loses the rest.

### Settings

`CheckBackup` to `FlushSynced` are the boot (`BackupInit`, the retry loop of
`SDL_main`, `BackupSyncFile`), `ConfigSave` to `Clear` the saving task. A file
has a whole-file content: a version of the settings, `Partial` while it is open
and not written, `Torn`, `Missing`. A checksum file holds the version it
certifies. `file` is what the running system sees; `flash` is, per file, the set
of contents a power loss may leave, which a flush makes a singleton. `board`,
which never changes, is one of `Boards`: has the board completed a boot before
(`installed`), can a power loss in addition destroy the file system of a volume
that has unflushed writes (`fragile`; `risky` are the volumes in that state),
which is the case the recovery code is written for, and may `ConfigSave` be
called while the last save still runs (`overlap`). `Mount` gives the letters B
and C to the volumes in order, and an unformatted volume takes none, as
`FatMount` does: the backup then answers to the public letter.

### WebUpgrade

The server runs one thread, so its state `web` says where in which request it
is: `select`, waiting for `upgradeIsReady` (`ready?`), about to hand the stream
over (`hand`), waiting for `UpgradeIsFinished` (`finished?`), `stopped`. The main
thread goes through `scene`, `quit`, `exit`, then `join` (unless the upgrade comes
from the web) and `process`, then `clear`, `wait`, `program`, `programmed`,
`asleep`. The flags of `upgrade.c` are plain variables, read and written one per
step, as the code does without a lock. `heap` follows each buffer for a
package from `malloc` to `free`. A package is a model value: its checksum is
right, or it is `Damaged`. Programming makes `firmware.cached` `Torn` until it
has ended; the flush makes `cached` durable. Requests that are refused change
nothing and are stuttering steps.

### Drives

The interrupt of the SD slot puts an entry in the queue or drops it (`lost`).
A USB port's polling task asks its disk for its status (`MscStatus`), reports a
change in a step of its own (`MscReport`, which waits for room), and is joined
by the host task when the disk is unplugged (`MscDisconnect`), which then resets
the port (`MscStatusReset`). The probe task takes an entry, mounts
(`DriveMountCard`, `FatMount`, `SetAvail`, `Mounted`) or unmounts. `StorageCheck`
compares the entry the GUI knows for each kind with the table and returns one
event; the model's step is one call. A disk has one partition, a port one disk,
and a disk that is put in again before anybody looked is another disk as far
as the file system goes (`pulled`).

### BootLoader

`Open` and `OpenLate` are the start (`InitFileSystem`, `OpenUpgradePackage`; the
USB disk may not be ready in time), `CheckCrc` the pass over the whole package,
`ReadTag` and the actions after it the loop of `ugUpgradePackage`: a header
read, then the work on the block in a second step (`Finish`, `Fail`), so that a
power loss or a pulled card can come in between. `DeletePackage`, `Flush`,
`ExitReset` and `BootImage` are the rest of `DoUpgrade` and the start of the
application. The image is written straight to the flash and is `torn`
meanwhile; the files go through the cache, so `fileLeft` and `volumeLeft` hold
what a power loss may leave, as in `Settings`. Reads and writes may fail
(`Fault`) wherever the code looks at their results, and where it does not:
`FlushFails` is a flush whose result `iteFatNorFlush` drops, `LosePage` a page that
`_NOR_cache_getPage` replaces although the flush of it failed (files written since
the last flush are then torn; a page of the FAT counts as the files it lists).
`exit` flushes once more before it resets the board (`_exit`), so `ExitReset` may
still write what `FlushFails` left, or lose it. `ret` after a failed checksum is
either value, because the code never sets it. `unseen` is a history variable: the
errors of this start that no result reports. `build` says whether packages are
deleted and what the package's flags say of partitioning. `source` is the open stream: `gone`
when its card was pulled, even if another card is in the slot. `blame` is a
history variable with the four events after which a half-written firmware may
stay: the disk was `late`, the package was `deleted` after a failure, the cache did
not reach the flash after the deletion, by a power loss or a failing flush
(`unflushed`), the card was `pulled`.

### Scene

`main` goes from `SceneInit` over the steps of a frame of `SceneRun` to
`SceneExit` and `ExternalExit`. A frame empties the command queue, takes at most
one event of the other processor, handles at most one user event that matters here and counts
the delayed commands down. `commandQueue` is the handle: `SceneExit` closes it in
one step and sets it to -1 in the next, and `SceneChangeLanguage` of the web server's
thread tests it in one step and sends in another. `Sent` is the non-blocking
`mq_send`. `crash` records what a real board would do when the program uses a
scene that is not loaded (`root`, `widget`) or a queue that is `freed`; nothing
happens after that. `early` remembers that the web sent its command before
`SceneLoad` did.

### ScreenSaver

`ScreenSaverCheck` is taken apart into its reads and writes (`ReadTick`,
`ScreenSaverCheck`, `StoreCount`, `ScreenSaverBlank`, `ScreenOff`), because
the web server's thread may come between any two of them: `WebType` changes the
type, `WebPost` and `WebRefresh` test and refresh. `now` is the counter modulo
`Wrap`; the difference over the wrap is one short, as in the code. The count-down
is a float in the code; it is counted in ticks here, and what is not above zero
is 0. `idle`, `raced` and `webDark` are history variables for the properties.

## The runs

| Run | Instance | Shows |
|---|---|---|
| `nor_one_thread` | 1 thread, 2 pages of 2 sectors over 6 sectors, 2 values, transfers of 1 or 2 sectors, 1 power loss | The cache implements `WriteBackStore` (`ImplementsStore`); clean pages equal the flash; replacing a page keeps what a read returns; a returned flush has left nothing to lose; every call returns |
| `nor_two_threads` | 2 threads, failing transfers, 1 value, single sectors | No sector has two copies, under every interleaving and failure |
| `nor_flush_race` | 2 threads, working flash | Finding: a write during the flush of its page is dropped |
| `settings_power_loss` | all 8 kinds of board, 2 saving tasks, 3 versions, 2 power losses | Every boot ends, on every board. With saves that do not overlap each save reaches the file; on an installed board one drive then always has settings that any power loss keeps, the boot never comes to the factory reset or a failed assertion, and the board comes up with the last finished save (with volumes that can break: up to one power loss) |
| `settings_lost_save` | a new board, 1 task, no power loss, `ConfigSave` at any time | Finding: a change during a save is not written |
| `web_upgrade` | 2 connections, 2 buffers, 2 good packages and a damaged one, 1 restart | The package that is programmed is the verified one and stays in memory; a success answered survives power losses; the stream a request waits for is not taken away; an upgrade is answered; the server comes back |
| `web_reset_blocked` | the same | Finding: a factory reset that is never done |
| `drives` | an SD card, 2 USB disks, 3 letters, a queue of 3, 4 plugs | One letter for each disk; the storage in use is a known one; the mounts follow the slots; the GUI is told of what stays |
| `drives_removed` | the same | Finding: a removal the GUI is never told of |
| `boot_loader` | a package of 8 blocks, 6 builds, write-protected card or not, 2 power losses, 1 failing read, write or flush or late disk, 1 card put in | Only a checked package is written; a half-written firmware keeps its package or one of the four reasons; the loader starts it only for them; a package reported as finished is in the flash for good, or one of the four errors came that no result shows; the board comes to an end of its upgrades; a package that partitions the disk is installed in spite of power losses |
| `scene` | 3 languages, queues of 3, delays of 2 frames | No missing scene and no freed queue is used outside the two windows named in `SafeScene`; although commands are dropped the GUI shows the last language in the end; asked to quit, it quits |
| `screen_saver` | a counter of 8, a second of 2 ticks, a timeout of 4, frames of at most 2 ticks | The screen goes dark only after a whole idle time, goes dark when nobody disturbs it, wakes on input and is on at the end, each with its named exception |

Bounds. Two pages are the smallest cache in which one page is replaced while
another one survives, and six sectors give it a third page to want; two sectors
in a page are what it takes for a page to be half written, and a transfer of two
to cross a page. Two values tell a lost write from a kept one; with two threads
and faults, where only the placement of sectors is asked, one is enough. Three
versions tell the copy being saved from the one before and the one after, two
tasks are what it takes for saves to overlap, and two power losses hit a
recovery from the first; a third one is discussed below. Two connections are one that
waits in the server's thread and one that comes in between; as each
upload leaks the one before, two buffers let the third find no memory. Four
plugs take one disk out and put two others in, and the queue of three is the
real one. In the boot loader, two power losses hit the repair of what the first
one left, one fault and one exchanged card each meet every block; the package
has one block of each kind and two files, so that one can be written and one not. Three
queue entries in `Scene` let the queue be full with a command of every sender
in it, and three languages let a change come after a change; the real queues of 8 differ in
nothing the code looks at. In `ScreenSaver` a counter of 8 wraps within two
timeouts, starts anywhere, and a frame can take a second. Deadlock is checked
for `NorCache`; the other models may stop, because a user who does nothing
more, or a bound reached, leaves nothing to do.

Every property of a passing run is also checked to fail when the code is
changed in a plausible way (`mutants` in `PROJECT.json`): a flush that ends early,
a transfer without the lock, a page that is not marked dirty, a skipped flush, a
backup copied the wrong way, a flag left over from the last request.

### Fairness

- `NorCache`: each thread goes on with a call it has begun. It waits only for
  the FAT lock and the flush mutex, each given back by a holder that does not
  wait for the waiting thread. Nobody has to begin a call.
- `Settings`: the boot and each saving task go on; they wait for `cfgMutex` only.
- `WebUpgrade`: both threads are scheduled. Strong fairness is asked of `Stop`
  alone: the server's loop tests its shutdown flag after every round, however many
  requests the clients send. Clients, buttons and power are not fair.
- `BootLoader`: the loader runs, the image starts, and somebody switches the board
  on again (`PowerOn`; without it a power loss would be the end). Cards, faults and
  losses are not fair.
- `Scene`: the main thread, a request the web server has begun and the sending
  task run; each waits for nothing but room in the queue to the other processor,
  which the sending task makes. Nobody has to touch anything.
- `ScreenSaver`: the frames, the clock and a refresh the web server has begun.
- `Drives`: the polling tasks, the probe task and the GUI's loop run for ever.
  Nobody has to plug anything.

## What was found

Four statements of the repository are not what the code does; each is a run
that TLC answers with a counterexample.

1. `cache2.c:416`: the flush clears the dirty flag of a page after programming
   it, without excluding a writer. A sector written in between is dropped when
   the page is swapped out (`SwapOutKeepsData`; `cache2.h:51`).
2. `config.c:16`: the counter of saves is a `bool`; a `ConfigSave` during a save is
   lost (`SavesReachFile`).
3. `main.c:66`: a factory reset requested while an upload begins is never done,
   each thread waiting for the other (`ResetHappens`).
4. `storage.c:87`: when a letter passes to a disk of the other kind between two
   calls of `StorageCheck`, the removal is never reported (`RemovalTold`).

Seen while modelling, and not claimed as contradictions of a text:

- NOR cache: `endOfPartition` (`nordrv_f.c:287`) is one too low, so the last sector
  belongs to no page and a transfer of it loops for ever (`CallsReturn` and
  `NoSectorTwice` hold for all others); the result of the flush is ignored by
  `getPage` when it replaces a page (a failed flush loses the page, which is why
  `nor_two_threads` checks no data property); a flush writes the dirty pages but
  keeps them, where `cache2.h:92-94` speaks of emptying; at the end of the device
  `itp_nor.c:88-91` and `137-140` compute the wrong length.
- Settings: the recovery flushes the factory defaults before it copies the backup
  over them (`backup.c:305`); if the power fails between, the defaults verify and
  replace the backup (the exception in `SettingsKept`); a power loss in the first
  boot can leave the backup drive without its mark (`backup.c:322`), and three
  power losses on volumes that break then break `OneCopySolid`; two overlapping
  saving tasks can fail the assertion of `backup.c:114`.
- Web: the second upgrade after a failed one hangs for ever because the main
  thread sleeps (`upgrade.c:472`; `ServerBack` names that state); each new upload
  leaks the package before it (`webserver.c:358`); an upload the client gives up
  leaves the GUI ended and the main thread waiting; `SceneRun` reads `quitValue`
  twice; the two loops of `upgrade.c:335` share one counter of tries.
- Drives: the name of a drive is set after it is marked available
  (`itp_fat.c:923-926`); two inserted disks can be told to the GUI in the order
  of their letters, not of their arrival.
- Boot loader: the package is deleted before the cache is flushed
  (`bootloader/main.c:459-466`), also after an error, which is what the option
  says; four errors do not reach the report, against `ug.h:41` ("0 (OK), or otherwise
  (ERROR)") and the "Upgrade finished." that follows: after a wrong checksum `ret` is
  uninitialised; `ug_package.c:46-51` and `71-76` return 0
  for a header or a tag they cannot read, with the card pulled or still in;
  `cache2.c:165` ignores a failed flush of the page it replaces; and a failed
  flush at the end is dropped on its way (`cache2.c:408-415`, `nordrv_f.c:41`,
  `main.c:465`). `FinishedMeansProgrammed` names the four (`unseen`) and says that there
  is no fifth: TLC finds a counterexample as soon as one of them is left out.
  Also: where packages are not deleted, or the card is
  write-protected, the board upgrades at every start (the condition of `Settles`);
  a package that does not partition never finds its partition after a power loss
  while the disk was formatted (the condition of `Installs`); `BootImage` checks no
  checksum of the image.
- Scene: a language chosen over the web before `SceneLoad` meets
  `assert(scene->root)`; one chosen during `SceneExit` may send to a freed queue;
  one event of the other processor is taken per frame; the sending task never
  sees `extQuit` while it waits (nothing waits for it); `external.c:105` sets
  `writebuf[2]` where the case before it sets `writebuf[0]`.
- Screen saver: a type chosen over the web while the screen is dark leaves it
  dark to every touch, because `ScreenSaverRefresh` tests the type of now; a refresh by an
  upload in the middle of `ScreenSaverCheck` makes its tick look older than the
  last one, and the screen goes dark at once.
- Photo: `photoLoadCallback` is cleared after it has run (`photo.c:77`), so that a
  request made meanwhile is refused. Wi-Fi manager: `==` binds tighter than `|` in
  `wifiMgr.c:570`.

## What is proved

The proofs hold for every value of the constants the assumptions allow
(`NorCacheAssumption`, `SettingsAssumption`, `WebUpgradeAssumption`,
`DrivesAssumption`, `PackageAssumption`, `BuildAssumption`, `SceneAssumption`,
`TickAssumption`: sizes are positive, special values are not ordinary ones, a
package has its blocks in an order the tool makes; TLC evaluates them in the runs).

**NorCache** (`NorCache_proofs`).
`TypeCorrect`. The type invariant is not inductive alone: that a page's buffer
covers exactly its sectors needs that a transfer works on the page that has its next
sector (`OnItsPage`), that one thread at a time replaces pages (`LocksHeld`), and
that the flush loop stays in range (`FlushInRange`).
`NoSectorTwice`: for any number of threads, with failing transfers and power
losses, no sector has two copies, provided the last sector is not used
(`LastSectorUnused`: the transfer that loops is exactly the other case). `DistinctPages` adds
that the sector a thread is about to load is in no page; only the holder of
the FAT lock loads, so nobody can bring it in meanwhile.
`CleanPagesCanBeDropped`: with one thread and a working flash a page with a
clear flag equals the flash. `CleanInv` adds that the page between
programming and clearing equals the flash already, and it needs
`NoSectorTwice`: otherwise programming one page would change what
another one should match. Finding 1 shows that one thread is needed.
`CallAdvances`: with any number of threads, failing transfers and power losses,
each step of a call leaves it fewer sectors (`SectorsLeft`) or, at the same
sector, fewer of its at most `3 * NumPages + 6` stages (`StagesLeft`: the flush
loop has three stages in each iteration), and no other thread's step sets it
back. It is the part of `CallsReturn` that does not depend on fairness; it too
needs `LastSectorUnused`, without which the page end does not get past the sector.

**The cache as a store** (`NorCacheStore_proofs`, one thread and a working flash).
`FlushIsDurable` (`FlushMakesDurable`), `SwapOutLosesNothing` (`SwapOutKeepsData`)
and `CacheIsAStore`: the cache implements `WriteBackStore` (`ImplementsStore`), for
every number of pages and sectors, every length of a call and any number of
power losses. `StoreInv` adds two facts to the invariants above. `InCall`: a
write about to mark its page has put its value in every sector of its range.
`EnoughIterations`: the flush loop, which stops after `NumPages` rounds whatever it
finds, has a round left for each dirty page. This is a counting argument: a
page leaves the set of dirty pages in each round, and one thread cannot dirty
another meanwhile. It makes the flush end clean, and the page that `getPage`
replaces clean too. The lemmas `ViewOfHeld`, `ViewOfMissing` and
`ViewOfExtensional` say what a read returns without its `CHOOSE`; then every
action of `NorCache` is shown to be a step of the store (`CallRefines`,
`CopyInRefines`, `ProceedRefines`, `FlushWriteRefines`, `FlushEndRefines`,
`CrashRefines`) or a stutter (`HiddenSteps`). The three hypotheses are what the code needs:
finding 1 breaks the store with two threads, and a failed flush loses the page.

**Settings** (`Settings_proofs`).
`TypeCorrect` for every kind of board. `TwoLossesSurvived` has no hypothesis: on an
installed board whose saves do not overlap one drive always has certified
settings and no boot comes to the factory reset, for any number of tasks and
versions, after any number of power losses if no volume can break and after
two if one can (`Limited`). `OneDriveKept` and `AlwaysRecovers` state the
properties of the run for boards of which the breakable ones meet no more than
that (`FewLosses`). The bound is tight: with a third loss TLC breaks both, because
a second loss while the backup volume is being formatted anew can leave it
without its mark, and the third can break the public volume. `NothingLost` is `SettingsKept` as it stands.

The inductive invariant is `Guarded`, whose `Rest` has five parts. `Disks`: what
may be missing, and that the backup keeps its mark (`MarkKept`). `Recovering`: where
the boot is and what it may find; while one volume is formatted or written
(`FromBackup`, `FromPublic`) the other one is solid. `Saves`: which file of a save
is unflushed in which step of the one saving task, and that otherwise the drives
are equal and flushed (`Settle`). `BootAges` and `RunAges`: which drive has nothing
older than the last finished save. None of the properties is inductive alone:
that one drive is solid while the other is written follows only from the step
the writer is in, and which drive is the fresh one changes with it.

`BootAdvances`: on the same boards every step of a boot lowers `Rank`, a number up
to 31 in which a first failed verification weighs more than a whole recovery.
It is the part of `BootEnds` that does not depend on fairness.

**WebUpgrade** (`WebUpgrade_proofs`).
`TypeCorrect`, `PackageInMemory`, `SuccessIsDurable`, `StreamIsKept`. The
inductive invariant is `Owned` (each allocated buffer belongs to one
request or to `fwFileBuf`), `ReadyFirst` (nothing is received before
`upgradeIsReady`), `Handshake` (the package of the waiting request is the one in the
stream; the main thread programs only while that request waits) and `Promise`
(what was promised is on the flash, and is withdrawn when programming begins).
Each has a lemma for the steps; restarts go through `BootKeeps`.
`UpgradeGetsOn`: from the start of programming the answer is at most three steps
of the two threads away (`ToAnswer`); nothing a client or a button does comes
between, and a power loss ends the request. It is the part of `UpgradeAnswered`
that does not depend on fairness.

**Drives** (`Drives_proofs`).
`TypeCorrect`, `NoDiskTwice` (`OneLetter`), `StorageInUseKnown` (`CurrentKnown`),
for any number of ports, letters and queue entries. The invariant says that a
disk with a letter is known to the probe task or was just mounted (`Known`),
that the probe task mounts only disks it does not know (`Mounting`) and that no
disk has two letters (`NoTwoLetters`). Its steps are grouped as the tasks are:
`SlotsStep`, `ProbeStep`, `GuiStep`.

**BootLoader** (`BootLoader_proofs`).
`TypeCorrect`, `PackageKept` (`Resumable`), `WholeBoot` (`NoMixedBoot`),
`FinishedIsDurable` and `CheckedBeforeWritten`, for any package the assumption
allows, any build and any number of losses, faults and cards. The invariant
relates the place in the package to what has been programmed: all blocks before
it are in the flash or in the cache, so that reaching the end means that the
whole package is there, unless an error was not seen (`unseen`); the stream that is read is the checked card or gone; and
as long as nothing is to blame, a half-written firmware has its package in the slot.
`LoaderAdvances`: where packages are deleted and the card can be written, every step
of the loader lowers the number of packages still to be tried (`Pending`; the one
it works on no longer counts, because it is deleted whatever comes of it) or,
at the same number, the way left to the application (`Way`), and a card pulled or put
in, or a page lost, raises neither. It is the part of `Settles` that does not depend on fairness.

**Scene** (`Scene_proofs`).
`TypeCorrect` and `SceneSafe`. The invariant is about the order of the queue:
while the scene is not loaded and no command came before it, the load command
is the first one, and nothing but the web server sends until then; no event is
taken before it; the handle is open from `SceneInit` to `SceneExit`.

**ScreenSaver** (`ScreenSaver_proofs`).
`TypeCorrect`, `NeverEarly` (`OffOnlyIdle`), `EndsLit` (`LitAtEnd`). The invariant
says that what has been counted down, together with the ticks since `lastTick`
that are still to be counted, is never more than the idle time (`Counted`); inside
of `ScreenSaverCheck` the tick that was read takes the place of `lastTick`. Over the
wrap the code counts one tick less, which is on the safe side.

Every invariant and every action property of the runs is stated by a theorem,
and so is the refinement. Only model-checked is all liveness (the prover has
neither fairness nor ENABLED): `CallsReturn`, `BootEnds`, `LoneSavesReachFile`,
`UpgradeAnswered`, `ServerBack`, `MountsFollow`, `InsertionTold`, `Settles`, `Installs`,
`LanguageShown`, `QuitEnds`, `Wakes` and `Sleeps`. For `CallsReturn`, `BootEnds` (on
installed boards whose saves do not overlap, within the losses of `Limited`),
`Settles` and `UpgradeAnswered` a theorem shows the rank that every step lowers;
that a step is taken is left to TLC. With two threads or failing transfers the
NOR cache keeps no more than `NoAliasing`, so the store is claimed without them. Induction
over data and recursive operators are out of the prover's reach too; no module
uses `RECURSIVE`.

## Not modelled

- NOR cache: releasing the drive; partial-sector functions and
  `_NOR_cache_invalidate`, which nothing calls.
- Settings: `ConfigUpdateCrc` (no caller); format and content of the ini file.
- Web: pages, the requests for settings and MAC address, unmounting of external
  drives, LCD console and watchdog around the programming. In the variant with Wi-Fi the
  server starts elsewhere; the model starts it in `main.c:44`.
- Drives: USB device mode, mounting by `ioctl`, NTFS, several partitions or LUNs, xD
  and memory sticks, `driveQueue` (nobody reads it). Probing is switched off
  while a volume is formatted (`backup.c:210`): the one place where `Settings` and
  `Drives` meet. A table entry is read in one step; the split reads of
  `StorageCheck` are a listed hazard.
- Boot loader: recovery, the reset to factory settings, the builds that ask for a
  key, loading and decompressing the image, NAND and SD as boot devices. Package:
  several disks, a boot loader inside the package, the flag that formats a
  partition, encryption. `Settings` and `WebUpgrade` take their flushes to succeed;
  what a failing one does is followed in `BootLoader` only.
- Scene: the video state, `SceneGotoMainMenu` (no caller), `isReady` (nobody reads
  it), mouse, screenshots; the events of storage are in `Drives`. External: the
  UART, the end of the receiving task. Screen saver: a change of the time-out,
  the wake-up by double click and the power modes.
- Network, photo loader, Wi-Fi manager: their protocols are thin layers over
  libraries and drivers whose answers the sources do not specify, or, for the
  photo loader, one pointer; the buffer stream has no user in the repository.
- The components of `PROJECT.json` with status `not_modelled`, with their reasons there.

## Plan

Done: `WriteBackStore`, `NorCache`, `Settings`, `WebUpgrade`, `Drives`, `BootLoader`,
`Scene`, `ScreenSaver` and the proofs above. Next, in this order:

1. Proofs: ranks for other liveness properties, as `CallAdvances`, `BootAdvances`,
   `LoaderAdvances` and `UpgradeGetsOn` are for theirs: the end of the GUI (`QuitEnds`),
   the wake-up of the screen (`Wakes`).
2. The boot loader's recovery and reset to factory settings, as further ways
   out of its start.
3. The photo loader (a callback cleared after it has run, `photo.c:77`), composed
   with the pages that ask for pictures.
4. The Wi-Fi manager's retry policy (`wifiMgr.c:570`), with the driver's answers
   as choices.
