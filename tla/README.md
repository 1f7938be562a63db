# BVSTK verification project

TLA+ models of the BVSTK firmware (Zynq-7000: FreeRTOS and QNX Neutrino), the
TLC runs that check them on small instances, and TLAPS proofs of their main
invariants for every value of the constants.  Paths below are relative to the
repository's `src/`.

## 1. The system

BVSTK sits between an external master and the devices on its I2C, MDIO and SPI
buses.  It intercepts register accesses, applies a policy, keeps a copy of the
registers and shows everything to consoles, a web interface and DCP2 clients.

| Component | State it keeps | Operations | Hard behaviour | Module |
|---|---|---|---|---|
| Event journal (`shared/events`, `apps/freertos/runtime/bvstk_observer.c`) | two rings per bus, a head that counts all records | publish, head, read(cursor) | publishers lap slow readers; loss counts; slot arithmetic | `EventJournal` |
| DCP2 server loop (`apps/freertos/services/dcp2`) | one connection: notify filter and cursors, stream flags and cursors | NOTIFY, STREAM, drains | other tasks publish between any two steps; a send fails mid batch | `EventStreams` |
| Cache registry (`services/cache`) | catalogs with generation, revision, presence, entries; a shared change journal | define, put, presence, snapshot, next | catalogs replaced under a reader; journal overrun by another device | `CacheRegistry` |
| DCP2 CACHE service (`protocols/dcp2/bvstk_dcp2_cache.c`) | subscriptions, one snapshot buffer and its token | GET, SUBSCRIBE, UNSUBSCRIBE, event | pages out of order, expiry, one buffer for several subscriptions, fairness | `CacheSession` |
| I2C master service (`services/i2c`) | device table, policy, register cache, presence | read, write, policy edits, set_config | configuration changes while transfers wait; replies filed late | `I2cService` |
| I2C slave (`services/i2c`, `drivers/pl/i2c`, `ports/*/os/i2c`) | interrupt queue, frame window, register pointer, armed reply | interrupt, handle frame, serve read | full queue, coalesced flags, window reused under a reader | `I2cSlave` |
| I2C master driver (`drivers/pl/i2c`) | core registers, attempts | transfer, recovery | a time-out with the transfer done or half done | `I2cMasterHw` |
| MDIO service and worker (`services/mdio`) | device table with policy, register cache, read area and mailbox in BRAM, deadlines | worker step, read, write, policy edits, set_config | the host writes the mailbox at any moment; publications fail half way | `MdioService` |
| MDIO core driver (`drivers/pl/mdio`) | FIFO, result bank, DATA_VALID | transfer, ack, reset | deadlines with a frame in flight | `MdioCore`, `MdioBus` |
| SD card (FreeRTOS: `services/sd`, `drivers/pl/sd`, `ports/freertos-xilinx/storage`) | owner of the card, core state, volume | raw commands, initialisation, block I/O | mount races the console; time-outs with DMA in flight | `SdService` |
| SD card (Neutrino: `ports/neutrino-zynq7000/storage/bvstk_sd_raw.c`) | two views of one card, controller status | requests of sectors | status bits of an abandoned transfer | `SdRaw` |
| QSPI flash (both systems) | the chip | block write as sector rewrite, self test | power loss inside a rewrite; address bits | `QspiFlash` |
| Device profiles (`shared/config`) | documents in three formats | parse, format, validate | what one format cannot express | `DeviceProfile` |
| Configuration store (FreeRTOS) | RAM copy and files in three layouts | boot, migrate, recover, save | power loss between any two file operations | `ConfigStore` |
| Neutrino runtime and store | store, live service, slave address, files | commands, DCP2 edits, save, start | kills, failing saves, three copies | `NeutrinoRuntime` |
| Shared file system, shell commands, HTTP file routes (`apps/freertos/storage/fs`, `services/http`) | FAT volumes | cp, mv, rm, touch, write, append, mkdir, put, tar | look first, act later; FAT ignores case; calls fail half way | `FileOps` |
| DCP2 file service | stream handles, readers, the set of allocated objects | OPEN, READ, CLOSE, expiry | repeated requests; files that change under a stream | `FileTransfer` |
| Line editor and consoles | line, cursor, history, terminal row; close flag | keys, sessions | the editor never reads the screen back; one flag for all sessions | `LineEditor`, `Console` |

How they interact: bus services publish events to the journal and push each
change of their cache through a bridge into the registry, inside one critical
section.  The DCP2 server thread reads both.  Consoles, web and DCP2 tasks call
the services directly; there is no common lock above them.  Below, the services
call the drivers, one mutex per core; the stores sit on FatFs (FreeRTOS) or on
the Neutrino file system, which sit on the block drivers.

What makes each part correct:

* journal: what a reader gets is what was published; each record is delivered
  or counted as lost, once;
* registry and CACHE session: snapshot plus events equals the device; a client
  is told to resynchronise when, and only when, this can no longer be kept up;
* I2C service: cache, presence and registry speak of the device at its present
  address; no forbidden write reaches the bus; the cache agrees with the chip;
* I2C slave: a host reads from the pointer it wrote, and whole frames reach the
  chip; driver: a reported success is the transfer of that call;
* MDIO service: the host reads what the cache holds, never a word from before a
  write or a reset; only allowed frames leave; driver: one frame per call;
* storage: a reported write is on the medium, neighbours are kept, raw commands
  stop where the file system begins;
* configuration: a saved profile is never lost and a start loads what was saved
  last; store, service and slave agree;
* files: no command loses its source, OK means stored, streams are whole;
* consoles: the line that runs is the line on the screen.

## 2. Modules and how they follow the code

| Module | State and actions |
|---|---|
| `EventJournal`, `EventStreams` | `head`, `entries` are the rings, `log` a history of everything published; `phase` and `todo` are the position in the connection loop of `dcp2_server.c`, `notify`, `streams`, `cursor` the fields of `dcp2_conn_state_t`.  One action drains one bus. |
| `CacheRegistry`, `CacheSession` | one operator per function of `bvstk_cache.c`; `subs`, `snapshot`, `progress`, `roundRobin` are the fields of the session, `view` the client's copy, `idle` the time since the last page. |
| `I2cService` | `task` is the call each task is in, `wire` what the chips hold.  A call has a step for copying the device record, the policy check, the transfer (under the driver's mutex), recording the presence and filing the reply. |
| `I2cSlave` | host and core (external): the host may begin a transaction at any moment, the bytes of a frame reach the window before its header.  Flags are read and reset in two steps, queued or dropped (FreeRTOS) or taken by the single thread (Neutrino); a frame is handled in steps: header, bytes, pointer, forwarding byte by byte, clearing, loading the reply window, answering, end. |
| `I2cMasterHw` | `transfer_locked` register access by register access, CSR and IRQ being two; the core acts on START some time later (`asked`), may hang, refuse, finish late and leave commands, bytes and flags. |
| `MdioService` | `svc` is the service structure with the read area (`bram`) and the registry's view (`mirror`) beside it, `mailbox` the write area, `job` what the holder of the service mutex is doing. |
| `MdioCore`, `MdioBus` | `transfer`, `ack` and `reset`, one step per register access; `MdioBus` is the promise they are shown to implement. |
| `SdService` | a service call holds the mutex and is a list of driver commands; interrupt, reply and DMA completion arrive in any order or never; `fsport` is the disk port, `shell` what the console looked at before its command. |
| `SdRaw` | a request is split into sectors of four waits each; what a wait gave up on may still arrive. |
| `QspiFlash` | read, erase and program of one sector as single steps with power loss between; `Span` is how much of the chip the opcodes of an image can address. |
| `DeviceProfile` | a document is the sequence of its key and value pairs; parse, format and validate as operators, with the limits and the keys each format knows. |
| `ConfigStore` | `stage` is the position of `config_task`, `job` the file operations of the save in progress; `Crash` may come between any two of them. |
| `NeutrinoRuntime` | a command runs under the state mutex and is one action, the file it saves is written in steps because the process may be killed.  Reads and failed writes change the cached byte, a new address empties the cache, a DCP2 change of the mode is saved like the console's. |
| `FileOps` | one locked call is one step and the set of its outcomes (any FatFs call may fail); a command of several locked calls is several steps. |
| `FileTransfer` | the volume is locked per backend call, so a READ is a run of steps between which files change. |
| `LineEditor`, `Console` | every key as an operator on the editor's record, the terminal's row being one more field; the candidates of a completion are a set, since their order only shows in a listing; four kinds of port with their own folding of CR LF and their own completion. |
| `MCPlatform`, `MCFiles` | independent parts checked in one run: `part` says which of them a behaviour is about, so that state spaces add up. |
| other `MC...` | the small instances. |
| `RingArithmetic`, `...Proofs` | lemmas and theorems. |

Operators whose comment begins with "A mistake:" are deliberately wrong variants
of the definition below them.  Nothing uses them; putting one in place of its
neighbour shows that a property notices.

Atomicity follows the code: what runs between `enter` and `leave` of a guard (a
FreeRTOS critical section) or under one mutex is one step, except where somebody
outside the lock sees the difference (the host and the mailbox, the power, the
core).  Calls of the single DCP2 thread touch the session from nowhere else and
read the registry inside one guarded call, so each is one step.

Abstractions: an event keeps bus, type, the unconfirmed flag and the address; a
register entry keeps validity and value (and, in `I2cService`, whether it was
seeded).  Wire formats, time stamps and 64-bit wrap-around of counters are left
out.  A failing transfer is "failed" (the chip did not answer) or "refused" (the
core did not start); a failed write may or may not have reached the chip.  An
MDIO word is the set of its one bits; a deadline is the fact of having passed; an
answer is the number of the frame it answers.  Block contents, file contents and
configurations are members of small sets; a profile is compared by its effect.
History variables (`log`, `missed`, `sent`, `loose`, `known`, `expected`, `may`,
`touched`, `goals`, `twice`, `early`, `calm`, `torn`, `steady` and the like) are
read by properties only.

## 3. Runs

| Run | Shows | Bounds |
|---|---|---|
| `event_streams` | `RingContent`, `Accounted`, `DeliveredIsPublished`, `NoSilentLoss` and the liveness property `CatchesUp` | ring of 2, batch of 1, 3 records per ring: rings wrap and a reader is lapped in every position; every reason to drop an event occurs |
| `cache_session` | `MirrorExact`, `NoGap`, `PendingOwnsSnapshot`, `ResyncIsJustified` | one device, 2 registers on 2 pages, journal of 2, 4 changes, 2 catalogs of different length, 2 snapshots |
| `cache_session_two` | `BoundedBypass` and the liveness property `Informed` | two devices (two pages and one) and two subscriptions on a journal of one record |
| `i2c_service` | `CacheFromDevice`, `CatalogMirrors`, `WritesPermitted`, `CacheCoherent` | one client, one configurator, two addresses and values, rule lists of one entry, an edit out of range |
| `i2c_late_reply` | a violation of `CacheCoherent` | two clients |
| `i2c_two_writers` | a violation of `CacheFromDevice` | two configurators |
| `mdio_service` | `MirrorExact`, `ReadAreaExact`, `WorkerFitsConfig`, `PolicyEnforced` | one device, two addresses, three registers, words of two bits (one is RESET), poll lists of different length, rule lists of one entry; any publication may fail |
| `mdio_live` | `MailboxDrained`, `DevicesProbed` | two devices, one polled, one mailbox word taken per step |
| `platform` | `HostReadsItsPointer`, `ForwardsSentFrames`, `NoStaleArm` (slave); `TransferHonest` (I2C driver); `BusPromise`, `FailsOnlyLate` (MDIO driver); `CoreAccess`, `StopsAfterFailure` (SD); `MediaKeepWrites` (SD on both systems, flash); `ConfigLoadedIsSaved`, `ProfileSurvives`, `RuntimeAgrees` (configuration) | 3 phases of a host that keeps no pace, a window of 4 bytes of which frames of 3 are accepted, a queue of 3; 3 driver calls with 3 attempts, a card of 4 sectors with a partition inside, a flash of 16 blocks in sectors of 2, one power loss and one fault and two saves from each layout a flash may have, one kill of the Neutrino process |
| `qspi_alias` | a violation of `BootUntouched` | Neutrino clients that use the whole window |
| `files` | `KeepsSource`, `OkMeansStored`, `StreamWhole`, `NoLeak`, `OnScreen`, `LinesIntact`, `QuitEndsItsSession` | two volumes with trees of depth 2, places above, below and beside each other, two commands of a console and a browser; streams of a file, a tree and an archive with one change and one fault; five keys on each kind of port, lines of 4, history of 2 |
| `file_rename` | a violation of `KeepsSource` | a target that is the source in capitals |

The bounds `Max...` cap counters that grow for ever in the code, or the number
of calls, faults and crashes of a behaviour.  They are chosen so that every ring
wraps past every cursor, every catalog is replaced under a subscriber, ids run
out, the queue of the slave fills and drops an event, a frame meets every step of
handling the one before, a fault meets every step of a save and a second start
follows the first.  `platform`, `files` and the violation runs over
them stop when these bounds are used up, hence `CHECK_DEADLOCK FALSE` there.

Assumptions about the outside: the flash finishes an erase within the driver's
five seconds; FatFs keeps its structures consistent between calls; a soft reset
of the I2C master core drops its commands and the bytes on their way.  None is
made about when an I2C host begins, or gives up, a transaction, nor about when
the master core acts on a START: "Idle alone can precede START or the BRAM
writer" (`bvstk_i2c_master.c:103`), and a START at a busy core may be lost.

Fairness: `event_streams` assumes that the server thread keeps executing its
loop (`WF(Loop)`), `cache_session_two` that it keeps calling
`bvstk_dcp2_cache_event`, which the loop does in every round.  A FreeRTOS task
that is ready and of the highest ready priority runs; the loop waits at most
100 ms for a request.  Publishers are bounded, so "catches up" means: once the
others pause.  `mdio_live` assumes that the worker task, which calls the step
again one tick after each, gets the mutex in the end (`SF(StepBegin)`: every
holder releases it) and finishes its steps.

### What the four violations say

*Two configuration writers* (`i2c_two_writers`).  `set_config` copies the
device's previous record before it enters the guard and decides, by that copy,
whether to drop the cache.  If another task changes the address in between,
values of one device stay valid for the other.  The documentation asks for one
writer; with one writer the property holds (`i2c_service`, `RepliesStayHome`).

*Late replies* (`i2c_late_reply`).  The reply of a transfer is filed after the
bus is released.  A read that finished its transfer first may be filed after a
later write of the same register, and the cache then shows the older value as
valid, until the next access.  With one client at a time the cache is right.

*Flash addresses* (`qspi_alias`).  The Neutrino driver sends 24 address bits to
a chip of 32 MiB: the upper half of the file-system window is the boot area.
Below 16 MiB the driver is right (`platform`, where `NeutrinoReach` keeps to it).

*Renaming by case* (`file_rename`).  `mv a.txt A.TXT` takes the source for an
existing target and unlinks it.

### Cases the properties leave out, each with a configuration of its own

Six configurations are kept beside the runs, over `MCPlatform` (`I2c...`) and
`MCFiles` (`File...`, `ConsoleQuit`).  Each states the one promise that a
property below makes under a condition, without it: `WrittenIsTaken`,
`PointerSetsTheStart`, `EndTakesPermission`, `MkdirMakesDirectory`,
`BaseNameOnce`, `QuitClosesSession`.  TLC ends each of them with the trace
described here.  `services/`, `drivers/` and `cores/` are directories of
`docs/system/pl-subsystem/i2c/`, `console-commands.md` is in `docs/reference/`.

*An early idle* (`I2cEarlyIdle.cfg`).  `wait_completion` ends a write when the
CSR reads idle, and it may still be idle because the core has not acted on
START.  The call then returns a success before the transfer, and a refusal by
the chip is never looked at.  A read also waits for its `DATA_VALID` and is
honest in every case; a write is, unless this happens (`TransferHonest`).  The
comment at `bvstk_i2c_master.c:103` names the danger, and lines 105-106 guard
reads only; `services.md:62-63` promises that the cache holds what was sent
successfully.

*A pointer that is wiped* (`I2cSlavePointer.cfg`).  The host writes its next
pointer while the slave still handles the frame before: the bytes come after
that frame was read and before `clear_frame`, which wipes them, the header after
it.  The frame is then a zero of the right length, and the host reads register
0.  `drivers/ports.md:67-78` and `cores/slave.md:203-207` warn of frames that
are replaced; `services/read.md:54-55` says that a pointer write sets the start
in any case.

*An end that is reset unread* (`I2cSlavePermission.cfg`).  The flags are read in
one access and reset in a later one.  The end of a read raised in between is
neither seen nor left raised, and the permission of that read remains
(`services/read.md:52-53`: the end withdraws it).

*mkdir over a file* (`FileMkdir.cfg`).  The console takes `FR_EXIST` for a
success, also when what exists is a file (`fs_shell.c:273`;
`console-commands.md:31,50`: OK means that the directory was created).

*The base name, twice* (`FileBaseName.cfg`).  Console and file layer both add
the source's base name to a target that is a directory: with a directory `b` on
the card, `cp -r flash:/b card:/` puts the copy in `card:/b/b`
(`fs_shell.c:429`, `fs_shared.c:669`; `console-commands.md:61-62`: the base name
is added).

*A quit that is cleared* (`ConsoleQuit.cfg`).  All consoles share one close
flag.  A session that starts, or a command on the UART, clears it between
another session's `quit` and its look at the flag, and that session stays open
(`console-commands.md:18`: `quit` closes the session).

### Where a property stops short

`KeepsSource` leaves out a file copied onto itself (emptied when it is opened),
a directory copied to one above it that repeats its name (`cp -r /b/b/b /`
writes into `/b`, over files it has still to read), a directory the web
interface renames below itself (`http_ui_files.c:244`: FatFs takes it, the
answer is a success, and nothing leads to it any more) and sources that another
client touched: the move between volumes copies and removes under two locks.
`OkMeansStored` leaves out the same rename and the two cases above, a `mkdir`
over a file and a second base name.  Otherwise a copy or move must be at the
very place the documentation names, that is at the target or at the base name in
it if it is a directory; where another client turns the target into a directory
meanwhile, either will do (`goals`).  It holds the plain HTTP upload
(`http_fs_routes.c:1366`) and the archive extraction only to what they check:
both answer before the last flush.

`TransferHonest` promises of a write what it does unless a write was taken for
done too early and the core has not been at rest since (`early`).
`HostReadsItsPointer` speaks of a host that began its frame, and later reads of
its own, with the slave at rest, and of flags that did not fall between capture
and reset (`calm`); `ForwardsSentFrames` of a frame that was not put into a
window in use (`torn`), at whatever pace, with the queue full or not;
`NoStaleArm` of a last frame that was not torn and of an end that was not
dropped, reset unread or hidden by the `DATA_VALID` of a frame (`missed`).
These conditions are the cases in which the promise fails, as the configurations
above show.  `PolicyEnforced` bounds the rule lists too, but with the one rule
of `mdio_service` that half says nothing there; it rests on the theorem
`OnlyAllowedFramesLeave`.

`LinesIntact` asks `EnterOnce` of all ports but TCP, where an LF in a read of
its own is one more line, and `TabKeepsTyped` of SSH and the Neutrino shell:
UART and TCP replace a path by the bare name.  Its `HistoryIntact` compares
position and history of an open session only: while a command runs, its line is
in the history already and the position is reset when the command is done.  The
proof needed this; five keys, the bound of the run, do not get there.
`QuitEndsItsSession` speaks of behaviours in which no other session touches the
shared flag; what two sessions do to it is `ConsoleQuit.cfg`.
`NeutrinoLoadedIsSaved` asks for every device only if no kill or fault cut a
migration short: the next start does not resume it.  On FreeRTOS the network
document may fall back to the defaults, since `write_file_atomic` unlinks before
it renames.

## 4. Proofs

All theorems hold for every value of the constants allowed by the named
`ASSUME`s of the modules (`RegistryAssumption`, `SlaveAssumption`, ...), which
the runs evaluate.  Assumptions a theorem adds are in its statement.

`EventStreamsProofs`.  `RingIsFaithful`, `NothingUnaccounted` and
`DeliveryIsFaithful` follow from one invariant, proved in `Invariance`: types,
ring content, cursors between origin and head, the accounting equation and the
delivered set.  None is inductive alone: that a drain hands over the right
records needs the ring content, that the loss count is exact needs the cursor
bound, and both need the types.  `LossIsAnnounced` counts the wanted records a
client has been moved past: a drain adds no more to that set than to the loss it
announces.  `RingArithmetic` gives the fact that two sequence numbers less than
`Capacity` apart lie in different slots.

`CacheSessionProofs`.  `TypeCorrect`, `FollowerIsExact` (`MirrorExact`),
`FollowerMissesNothing` (`NoGap`), `SnapshotIsOwned`, `RoundRobinIsFair` and
`ResyncHasCause`.  The invariant says that the records between a subscription's
cursor and the head describe the difference between the client's copy and the
device: a register without a record ahead is the client's, one with records is
what the last of them says, and revisions count the records.  It is stated of a
cursor that may already have left the journal, where it claims nothing, so that
an append is one lemma whoever the reader is.

`I2cServiceProofs`.  `ServiceInvariance` proves `TypeOK`, the roles of tasks,
`CatalogMirrors` and `WritesPermitted` together with `PermissionNoted` (a write
in progress that the policy allows now is noted as permitted), which is what the
permission check needs.  `RepliesStayHome` assumes at most one configurator and
adds `PreviousCurrent`: the address `set_config` copied is still the device's
when it commits; `i2c_two_writers` is the failure of exactly this conjunct.
`CacheIsCoherent` assumes one client besides, the case outside `i2c_late_reply`,
and adds that a reply in flight is what the chip still holds.

`MdioServiceProofs`.  `RegistryShowsCache` (`MirrorExact`), `HostReadsTruth`
(`ReadAreaExact`), `WorkerFollowsConfig` and `OnlyAllowedFramesLeave`
(`PolicyEnforced`).  A step changes cache, read area and registry one after the
other and any publication may fail, so the invariant speaks of the service record
as a value: `Base` holds of every record one operation hands to the next,
`MirrorBut` names the registers in which the registry still lags, and both are
carried through `read_phy`, `publish` and `invalidate` by one lemma each.
`JobFits` is what the holder of the mutex may rely on between two of its steps.

`PlatformProofs`, first the cores in the fabric.

* MDIO driver: `CoreInvariant` proves at each label of `transfer` that the frame
  of the call is in exactly one of port, FIFO, bus, answer FIFO and result bank,
  or nowhere.  `NothingLeft` speaks of the idle driver; the steps in between need
  to know that a reset or an acknowledgement finds no more than this one frame.
  `CoreImplementsBus` maps a call in progress to a request of `MdioBus` and
  shows every step to be a step of it or a stutter; `FailureIsLate` shows that
  the refusal of a foreign answer is never taken.
* I2C driver: `MasterIsHonest` (`TransferHonest`) rests on `HwInv`, for a core
  that acts on START at any later moment.  `ReadOwn` holds whatever an early write
  left: after `clear_irq` only the read's own command announces bytes, because
  what else the FIFO holds are writes ahead of it.  `CoreOwed` says what the core
  holds at each register access as long as no write was taken for done early:
  the commands of the present attempt and nothing else.
* I2C slave: `HostReadsFromPointer`, `ForwardsWholeFrames`, `ArmedByHost` rest on
  `SlaveInv`, for a host that sends at any moment and any queue of three or more
  events (`SlaveAssumption`; the source has 16).  `WindowFits`: a frame that was
  not torn is in the window, and then in the task, as it was sent.  `Disarming`:
  when the host has left no pointer, the last event on the way takes the
  permission, whatever is ahead of it.  `Ordered`, which only a calm host has: at
  most one frame, one request and one end are on the way, in this order, and what
  was read, what is in the window and what is being fetched follow each other.
* SD service: `SdIsHonest`, `FailureIsFinal` and `CardIsGuarded` rest on
  `SdInv`: the plan of commands in progress reads back what it wrote, and
  everything compared so far still holds on the card.

`PlatformProofs`, then the media and what is stored on them.

* `CardIsKept`: status bits belong to the transfer the request waits for,
  because an abandoned one keeps the inhibit bits set; what it may still write
  is not relied on.
* `FlashIsKept`: in the middle of a sector rewrite, what is known of the sector
  is in the copy, everywhere else it is on the chip.  It assumes `Unaliased`, that
  clients stay within reach of the opcodes: `qspi_alias` is the case without.
* `MediaAreKept` puts the three media together for `PlatformSpec`, and
  `PlatformHasDevices` shows that the composed platform implements the
  specification of each device, so that each theorem above holds of it.
* `RuntimeStaysInStep` (`RuntimeAgrees`): from the start of the migration on,
  service and slave are in step with the store; edits preserve this because a
  store that is not empty keeps a first device.
* `ProfilesSurvive` (`ProfileSurvives`): `CsInv` says which file carries each
  profile at each step of a save or start.  A file is written over nothing that
  a profile still needs: until a save is done, the old profile is in its file or
  its backup, and a start that goes on has first put every backup back.  While a
  save runs, the new configuration does not count yet (`Owed`).
  `StoreAssumption` says that the first flash holds what it is said to hold, that
  no profile is named like the MDIO marker `initialized`, and that a document that
  could be formatted reads back as what was saved; `platform` evaluates all three
  on its flashes and configurations.

`FilesProofs` and `CommandProofs`, the users' side.

* Consoles (`FilesProofs`): `ScreenIsTrue` (`OnScreen`), `NoLineIsLost` (`LinesIntact`) and
  `QuitEnds` (`QuitEndsItsSession`) rest on `ConInv`, which holds line, cursor and
  terminal row together at every byte: the editor never reads the row back, so
  each key has a lemma that what it rewrites is what differs.  That no line
  reaches the size of the buffer is part of it.  The history is compared with the
  lines submitted by a recursive function; what it computes is reached through a
  least counterexample.
* DCP2 file service (`FilesProofs`): `StreamsAreWhole` (`StreamWhole`) and `NothingLeaks`
  (`NoLeak`) rest on `XferInv`.  `StreamWhole` speaks of a stream that has been
  read to its end; the invariant says at every block how the part delivered so
  far and the reader's position make up the whole (the flow of a stream), that the
  entries of an archive follow each other along the chain of directories, that an
  undisturbed reader is still at the present contents (`SteadyFlow`), and that a
  handle remembers the block it gave last.  `NoLeak` counts: the objects
  allocated are one set per live handle, and these are disjoint.  Assumed:
  `FileTransferBounds`.
* Commands on files (`CommandProofs`): `FilesAreKept` (`KeepsSource`) and `AnswersAreTrue`
  (`OkMeansStored`) rest on `FileInv`.  Both properties speak of a command that
  is done.  The invariant adds what the command relies on before: until its locked
  call the tree below an untouched source is the one the command came for, and
  between the two locks of a move the copy is whole; and that the volumes are
  trees, which every call preserves at each point where it may fail.  Each locked
  call has a lemma on all its outcomes (`WriteFileIs`, `CopyTreeIs`, `CpIs`,
  `MvIs`, `RenameIs`, `RmRecursiveIs`, `TarIs`, ...), over paths of any length and
  trees of any shape; `NoticedIs` says that the other clients either touch the
  source or change nothing it depends on.  `GoalIs`, `LandsAt` and `LandingIs` give
  the place where a copy is from what the target was when the console and then
  the locked call looked, `MkdirIs` the directory.  Both theorems assume
  `OneSpelling`, that the places the commands name spell each name in one way:
  `file_rename` is the case without, where `strcmp` and FAT disagree on what is
  the same file.
  `FileOpsStarts` and `FileOpsPlaces` say that the volumes start as trees and
  that a command's source is not the root, which `f_stat` refuses.

`FilesHaveConsoles`, `FilesHaveTransfers` and `FilesHaveCommands` carry the
results to the composed `FilesSpec`.

## 5. Only model-checked

Out of the prover's reach: liveness under fairness (`CatchesUp`, `Informed`,
`MailboxDrained`, `DevicesProbed`).

Not proved yet: `ConfigLoadedIsSaved` (what a start reads, after every stage of
the migration on either system).  That formatting and parsing a
profile are inverse is an assumption of `ProfilesSurvive`, checked on the
configurations of the run.

## 6. Not modelled

`PROJECT.json` lists every component with its status.  Vendored code (lwIP,
FatFs, wolfSSH, Xilinx drivers), generated headers, web assets, tools and JSON
or HTML formatting stay outside.  So do:

* the PL SD controller and card initialisation drivers (`bvstk_sd_controller.c`, `bvstk_sd_init.c`),
  which no image of this commit builds;
* DCP2 framing, control and policy requests: byte layouts and argument checks of
  requests whose effects are the actions of the service modules;
* the SPI core driver: one blocking call with one caller;
* MQTT, SNTP, LAN start-up, telnet options, the SSH transport with its exec, SCP
  and SFTP channels, request parsing and the bus and observation pages of the
  web interface: thin callers of the services and of third-party stacks;
* formatting and automatic `mkfs` of volumes, listing, the `tar` console command.

Known risks of this code that no property covers: a directory the web interface
renames below itself (`http_ui_files.c:244`); an edit by console or web on
FreeRTOS goes to the service and to the store in two steps (`i2c_shell.c:70`);
the web client's cursor after a reboot (`bvstk_journal.c:36`); a flash that is
not mounted within 30 s makes the defaults take effect, and a later save replaces
the stored ones (`config_store.c:726`); a data time-out on Neutrino leaves
DATA_INHIBIT set until restart (`bvstk_sd_raw.c:386`); the capacity computed for
standard-capacity cards (`bvstk_sd_raw.c:681`); stream handles after 2^32 opens
(`bvstk_dcp2_fs.c:125`); automatic formatting after a read error
(`fs_shared.c:90`); the dispatcher cuts lines at 255 characters
(`console_dispatch.c:118`).

## 7. Plan

1. `ConfigLoadedIsSaved` in `PlatformProofs`: on FreeRTOS from `CsInv` with the
   order in which a start looks at the files of a profile, on Neutrino from
   `RuntimeInv`; a lemma that `format` and `parse` of a profile are inverse, in
   place of the last conjunct of `StoreAssumption`.
2. An atomic transfer that `I2cMasterHw` implements, as `MdioCore` implements
   `MdioBus`.
3. The FreeRTOS edits of console and web composed with `ConfigStore`; the
   observation cursor of the web client over `EventJournal`.
