# Formal models of the FujiNet-NIO core applications

This directory models the programs of this repository in TLA+. TLC checks the
models on small instances, TLAPS proves the most important facts for every
value of the constants.

- [Inventory](#inventory): the system's parts, their state, what is hard about them
- [Plan](#plan): modules, order, abstract specifications, runs, theorems
- [The modules](#the-modules): what each models and how it corresponds to the code
- [The runs](#the-runs): bounds, fairness, what each shows
- [The proofs](#the-proofs)
- [What is not modelled](#what-is-not-modelled)

## Inventory

The programs talk to a FujiNet (a network and disk device on the machine's
peripheral bus). The device's firmware is not in the repository: it is modelled
only as far as the programs depend on it, and marked external.

| Component | State it keeps | Operations | Interacts with | Hard behaviour | Correct when |
|---|---|---|---|---|---|
| Resident N:, wire (`apps/platform/atari/resident/fnresident_asm.s`: `begin_packet`, `exchange`, `receive`, `sio`) | `outstanding`, `polls`, one packet buffer | W (hand over), P (poll), R (collect), recovery | FujiNet over SIO | any command may fail before or after it took effect; the reply may come after the caller gave up; frames carry no sequence number | a reply is only taken for its own request; W is never repeated; waiting ends |
| Resident N:, CIO streams (same file: `dispatch`, `do_open` .. `do_close`) | two owner records (IOCB, mode, handle, offset, cache length and position, EOF, fault, committed, reading), two 128-byte caches | OPEN, CLOSE, GET, PUT, STATUS | CIO above, wire below | short acknowledgements, failed flushes, POST turning from writing to reading, records reused and shared by two programs | bytes arrive once, in order and committed once; what the program is told is so |
| Resident o65 loader (`fnresident_o65_loader.s`) | parser state, HATABS, MEMLO, borrowed IOCB and zero page | find a slot, load, relocate, publish | CIO disk, the resident module | read errors at any depth, repeated runs, 16-bit address arithmetic | all or nothing: an aborted run leaves the machine as it was |
| Service client (`src/common/fnsvc.c`) | last disk error | mount, unmount, list, host, app-key requests | control device | paging, bounds, which error belongs to which call | listing ends and skips nothing; the last error is that of the last call |
| Control device (`src/platform/{atari,linux,msdos,amiga}/fnctl.c`) | current URI and path, unit mappings, cached drive or RAM copies | get and set state, unit slots, exchange | FujiNet | pairs stored by two requests; caches updated before the device agreed | the pair belongs together; a cache never disagrees with an accepted change |
| Listing and image slot programs (`apps/fin.c`, `fout.c`, `fdrive.c`, `fls.c`) | none of their own; they change the FujiNet's mount catalog | put an image into a slot, delete a slot, list | service client, control device | a slot changes between two requests; pages of any size | what is printed is what the FujiNet has |
| Mount programs (`apps/fmount.c`, `fumount.c`, `fboot.c`) | none of their own; they change the disk device's media and the unit mapping | mount and map, eject and map, restore the boot disk | service client, control device | two requests for one change, either may fail before or after its effect; two programs at a time | media and mapping agree or the program reports failure |
| Host and key programs (`apps/fhost.c`, `fapp.c`) | none of their own; they change the FujiNet's current host and history | select, show and forget hosts; transfer values by offset | service client | transfer loops over partial replies; a host shown by a second request | what is shown is current; what is stored is what was given |
| Amiga mount programs (`apps/platform/amiga/*.c`) | DOS device list, handler process, inhibit nesting; on Kickstart 1.3 static devices and marker files in `T:` | mount, unmount, restore, boot | AmigaDOS, service client | snapshot then act, polling for a process to end, two programs and a user at once, markers lost by a reboot | a handler only serves media of its own geometry and filesystem; inhibit is balanced; markers name what is mounted |
| Speed tools (`apps/platform/atari/hsionet.c`, `hsioflip.c`, `tools/atari-hsio/server.py`) | pending flag, sequence number, stream offset; SIO speed bytes | echo messages; switch speed | PROCEED interrupt, server | interrupt, pending flag and 60-tick fallback all lead to a read; edges get lost | every byte of every round is read once and in order, whatever edges are lost |
| Diagnostics (`proctest.c`, `u1mbinfo.c`, `ftestnio.c`, `fnaccept.c`) | proctest: edge counts, what is on the screen, the mode of its network session | count edges, read a session on edges or by polling; single passes of calls whose results are printed or recorded | PROCEED interrupt, FujiNet | one edge for several arrivals, a change of mode meanwhile, counts that change while drawing | all data is read; what is shown catches up |
| Build and image tools (`Makefile`, `makefiles/`, `boot-disk/`, `msdos/`, `tools/`) | none at run time | | | | |

`PROJECT.json` lists the hazards at the lines where they bite, and the properties
that cover them.

## Plan

In order of importance to a user's data:

1. **ResidentWire**, implementing the abstract **RetainedReply**; **ResidentStream**
   over RetainedReply's steps, implementing the abstract **ByteStreams**. *(done)*
   Theorems: all the invariants of both and both refinements *(done)*.
2. **ResidentInstaller**, implementing the abstract **HandlerTable**: repeated runs
   of the loader with a fault at any read. **Relocation**: the loader's arithmetic
   against linking for the load address. *(done; the SDX child and the
   in-RAM source are left)* Theorems: all the installer's properties and its refinement,
   the relocated image *(done)*.
3. **PagedTransfers** and **ServiceErrors**: the transfer loops and the error state
   of the service client and its callers. *(done)* Theorems: PrintsAll, StoresAll, PrintedTogether *(done)*.
4. **AmigaMount**: DOS node, handler process, inhibit nesting and media under
   FMOUNT, FUMOUNT, FBOOT and a user. *(done for one command at a time)* Theorems: all its safety
   properties *(done)*.
   **KickMount**: the Kickstart 1.3 builds with static devices and marker files, two
   programs at a time. *(done)* Theorems: HandlerMatches, ReadyToUse, LogicalIsTrue *(done)*.
5. **ControlDevice** and, over it, **Mounts**: current URI, unit mappings, mount
   catalog, media and hosts of the portable programs over the four control devices,
   with programs interleaved and requests failing. *(done)* Theorems: MountedIsMapped, SuccessIsTrue,
   ReadsTrue *(done)*.
6. **Notify**: hsionet's echo test under lost edges, proctest's session and counters.
   *(done)* Theorem: EchoTrue *(done)*.

Left, in this order: two AmigaDOS 2 commands at once in AmigaMount (it would show
how far the snapshot of the DOS list may age); the SDX child of the installer and its
variant for a module in RAM.

Each has at least one abstract statement it is checked against (RetainedReply,
ByteStreams, HandlerTable, the linker, a listing as a sequence, an atomic mount). All keep
parameters as constants and recursion out of the modules to be proved about.

## The modules

### RetainedReply and ResidentWire

`RetainedReply` says what one request promises without saying how: a device
holds at most one transaction, carries a request out at most once, keeps its
reply until it is collected; a requester may stop waiting at any time but sends
again only to an empty device.

`ResidentWire` is `begin_packet`, `exchange` and `receive`, one action per SIO
command: `SendW` (W), `PollAgain`/`PollIdle`/`PollReady` (P, by its outcome),
`ReadReply`/`ReadFails` (R). `pc` names the next command and `recovering` says
which caller `receive` returns to. `outstanding` and `polls` are the code's
bytes. Every command may fail before it reached the device or after it took
effect: `SendW` and `ReadFails` choose. Validation of a frame is abstracted to
the classes of lengths the code tells apart (`ReplyLengths`): `CanRetire` are
those R can collect, `CanBeValid` those that may pass `exchange`'s checks, and
such a reply may still be rejected. `executed` and `answered` are history.
`device` is external: idle, busy with a request, or holding its reply, and it
may restart.

### ByteStreams and ResidentStream

`ByteStreams` is the promise to a CIO program: bytes taken reach the body in
order, a commit ends a complete body, bytes given are those of the response in
order, and what the program is told is true.

`ResidentStream` has one action per CIO call up to its first exchange (`Open`,
`Put`, `GetCached`, `GetAtEnd`, `GetMore`, `Status`, `Close`), and one per way an
exchange goes on: `Recover`/`RecoverFails` (draining in `begin_packet`),
`BadName` (the URI check between `begin_packet` and W), `Send`/`SendFails`,
`Missing`, `NotCollected`, `BadReply`, and a handler for each good reply
(`OpenReply`, `WriteReply`, `ReadReply`, `InfoReply`, `CloseReply`). `call.stage`
is the request the handler is waiting for; the order of stages is
`finish_write`'s (write, then commit) followed by what the call itself needs.
`owner` holds the 16-byte records; a cache is the sequence of its bytes, so
`LEN` is its length; `POS` is only modelled for input, because while writing the
code uses it as scratch for `cache_index`.

Calls that change nothing are not actions: a call on an IOCB that is not open
($85), OPEN of an open one ($81), an invalid IOCB number ($86), a third owner
($A1), the wrong direction ($92), PUT, GET or STATUS on a faulted output ($90).
The gateway's `busy` byte makes calls sequential; the interleaving that matters
is between calls of the two owners and between a call and the FujiNet.

Assumed of the FujiNet (external actions): it appends WRITE data to the body in
the order it receives it and acknowledges exactly the bytes it appended, an
empty WRITE commits, an empty READ without the EOF flag only happens at the
end of the content, a handle is not issued twice. It may refuse anything,
damage any reply, be late, and restart.

`MCResidentStream` gives the responses of the instances and the symmetry of IOCBs.

### HandlerTable and ResidentInstaller

`HandlerTable` is the installation as one step: first empty slot, memory from
MEMLO, no second N:. Other programs install handlers too.

`ResidentInstaller` is `_main` of the MyDOS loader, one action per call that can
fail or change the machine: `BorrowIocb` and `OpenFile` (`disk_open_header`),
`ReadHeader` (`validate_wrapper`), `ScanHatabs`, `CalculateRanges`, `ParseHeader`,
`Refill`/`Load`/`DiskError`/`BadSection` (`load_module` over `disk_read_byte`),
`Prepare`/`NoMarker` (`prepare_and_init`), `ValidateVectors`, then `PublishVector`,
`PublishName` and `RaiseMemlo` in `publish_hatabs`'s order, and `Finish` (`finish`,
`disk_close` and the zero page). Memory is cells: an image has one for TEXT, one
for DATA with table and marker, one for BSS, and a cell says how far it got.
`Sections` is the file after its headers, read through a buffer. `run` holds the
loader's variables, `hatabs[s].by` and `faulty` are history: `Fail` gives up because of the disk
or the file, `Stop` for a reason of the machine. No free IOCB, or a screen or stack too low for the
buffers, is such a reason, which `_main` reports as OUT_FORMAT all the same. Between runs other
programs take IOCBs and publish handlers in RAM or ROM; `Reset` strikes anywhere,
keeps memory and resets HATABS, MEMLO and the IOCBs.

### Relocation

The linker and the loader, one after the other. `LinkOperand` is one operand of the
linker (external): it appends the operand to its segment, writes the operand's record
to the segment's table after the skips its distance needs, and links the image at
address 0. `LoadModule` hands over to the loader. From then on a step is one record of
`relocate_segment`: `SkipAhead`, `Relocate`, and `EndOfTable` for the calls that
`load_module` makes for TEXT and then DATA. `consumed` is `src_ptr`, `offset` is
`reloc_offset`. All arithmetic is that of a small byte: `InSegment` is `target_in_segment`
and `word_in_segment` with their 16-bit sums, `High` the carry out of a low byte that
may only be in the record, `SkipBy` the record that moves on by one less than it says.

### PagedTransfers and ServiceErrors

`PagedTransfers` has one set of actions for five loops that have the same shape:
`fnsvc_list_directory` (FLS), `fdrive.c`'s, and `do_list`, `do_get` and `do_put` of
`fapp.c`; `kind` selects where they differ. `GotPage` is an exchange and what is
printed of it, `TornPage` a reply whose entries end early, `Write` a chunk of which
the service takes some. Another program may change the contents between
exchanges. `parity` makes an exchange that achieves nothing a step, so that a loop
of such exchanges counts against `LoopsEnd`.

`ServiceErrors` is `last_error`, `last_status`, `last_raw_error` and `disk_last_error`
of `fnsvc.c` over any sequence of calls; a call is its name and how it ended. Its specification is called
`ErrorsSpec`, so that `ServiceClientProofs` can extend both modules.

### ControlDevice and Mounts

`ControlDevice` is `fnctl.c` of the four platforms: `EnsureState`, `GetState`, `SetState`,
`ReadKey`, `WriteKey`, `SetUnit`, `GetUnit` and `Return`, a call being the list of its
requests. The constants `LinuxStores`, `AtariStores`, `MsdosStores` and `AmigaStores` (and `...Loads`,
`...Unread`) say where the platforms differ: how many requests a URI and its display
path take, whether a failed read is an error or an empty string, and what stands in
for a unit that cannot be read (the unit itself on Linux and Atari, failure on
MS-DOS, the RAM table on the Amiga). `key` and `unitKey` are what the FujiNet stores,
`ram` the Amiga task's copies. A request may fail before or after its effect. Tasks
interleave on Linux and the Amiga and follow one another on Atari and MS-DOS.

`Mounts` runs the programs over it, one action per request: `ChangeCatalog`
(`fnsvc_set_mount`), `LookUp` (`fnsvc_get_mount`), `ChangeDisk` (mount, unmount and
restore of the disk device), `MapUnit` (`fnctl_set_unit_slot`), `ChangeHost` and `Show`. `job`
is the program and its next request; `met` and `broken` are history. The FujiNet's host history is the set `past`: fhost
sends an index, which names some host in it. fumount maps
the ejected drive to slot 0, as the code does; for drive 0 that is its own slot.
`kind` splits a behaviour by what is being changed: pairs, units, mounts or hosts share no state.

### AmigaMount

`main` of the AmigaDOS 2 `fmount.c`, `fumount.c` and `fboot.c`, `pc` naming the next step:
every packet, Inhibit, device command and DOS-list access is one, and a user may access
the drive, open and close files between any two. `node` is the DOS-list entry,
`handler` the filesystem process with the DosEnvec it read when it started, `media`
what the device has. `prog` is the program's variables; its `gone` says that the
handler whose port the program keeps has exited, and a packet to it is never
answered (`HandlerGone`). `canDie` chooses whether this system's handlers know
ACTION_DIE. `disturbed`, `late`, `unbalanced` and `badBoot` are history. TD_CHANGESTATE and
ACTION_DISK_INFO may fail, which FMOUNT and FUMOUNT take for a drive that is not parked: that is `Overlook`,
and `unbalanced` records it, as it does an Inhibit(DOSFALSE) that fails; there is at most one of these in a behaviour.
FBOOT is `StartBoot`, `NodeState` (DN0: must be inactive), `RestoreDefault` (whose TD_CHANGESTATE may fail after the
restore, `TakenForEmpty`), `ValidateDefault` (which may also refuse a good disk, when it cannot be read) and
`CreateDn0` or `StartInactiveDn0`; `badBoot` records a default disk that is left unseen, refused or over another
DosEnvec. Other than in FMOUNT the node's DosEnvec is not rewritten when it exists.

### KickMount

The same three programs as they are compiled for Kickstart 1.3, where DOS devices are
static: an endpoint is a type of medium and a logical unit. `Inspect`,
`Choose`, `MountMedium`, `StartHandler`, `MarkStarted` and `RecordLogical` are FMOUNT; `Find`, `Eject` and
`Clear` are FUMOUNT; `Restore`, `Validate` and `StartBoot` are FBOOT. `started` and `logical` are the marker
files in `T:`, which may fail to be written; `Reboot` clears them and the handlers, and leaves
`media`, which the FujiNet keeps. `ChangeCatalog` is another program replacing the image
in the slot. `owner`, `swapped` and `blurred` are history.

### Notify

Three programs that share nothing but their trigger. `WriteRound`, `WaitRound` and
`ReadRound` are hsionet's `run_test`: `told` is the interrupt's flag, `run.pending` the program's, `run.waited`
the ticks of the fallback; `Response` is what the server in `tools/atari-hsio` answers, each
byte known by its round and place. `Key`, `Pass`, `Ready`, `Info` and `Read` are proctest's `page_url`;
`Edge`, `CountKey` and `Loop` its `main`, where `Compare`, `Store`, `Show` and `Shown` are the steps of a pass, so that
the interrupt may count between any two reads of its count. `Arrive` and `InfoArrives` are the network. `excused` is
history: unread bytes for which no edge will come.

### Reading the properties

`OwnReply`, `AtMostOnce`, `ClearMeansEmpty`, `ExchangeEnds` and `KeepsPromise`
are the wire's; `WriteContinues`, `CommitIsFinal`, `ToldIsTrue`, `ReadInOrder`,
`FaultSilences`, `OwnersApart`, `CallsReturn` and `KeepsStreams` the streams';
`PublishedWorks`, `CallerUntouched`, `OutcomeTrue`, `WritesFreeMemory` and
`InstallsAtomically` the installer's, `RelocatesAsLinked` the relocator's; `PrintsAll`,
`StoresAll`, `LoopsEnd` and `PrintedTogether` the service client's and its callers';
`GeometryMatches`, `InhibitBalanced`, `SuccessIsTrue`, `EjectsUnused` and `CommandsEnd`
the AmigaDOS 2 mount programs'; `LogicalIsTrue`, `HandlerMatches` and `ReadyToUse` those of
Kickstart 1.3; `ReadsTrue` the control devices', `MountedIsMapped` and `SuccessIsTrue` the portable
programs'; `EchoTrue`, `DataArrives` and `CountsShown` those of the PROCEED line. Each
is stated in words above its definition. Beside several definitions stands a
variant of the code with one plausible mistake (`MustDrainNever`,
`AcknowledgeKept`, ...): with it in place the named property fails.

## The runs

| Run | Configuration | Bounds | Why they suffice |
|---|---|---|---|
| `wire` | `ResidentWire.cfg` | 3 requests, 3 polls, 1 FujiNet restart | a reply can outlive its exchange, be met by the next and be overtaken by a third; polling is exhausted, and answered at its first and last poll; the proofs cover every bound |
| `stream` | `ResidentStream.cfg` | one IOCB, one session, 3 bytes over 2 values, cache of 2, response of 3 bytes, 1 restart | the cache fills with a byte left over; a short acknowledgement leaves a suffix; at least two refills, the last one short; GET after the POST body; bytes of two values show reordering |
| `stream_owners` | `ResidentOwners.cfg` | two IOCBs, two sessions, one byte each way, cache of 1; IOCBs symmetric | both records in use and reused, every pair of calls interleaved |
| `installer` | `ResidentInstaller.cfg` | 4 HATABS entries, 2 IOCBs, buffer of 3 of the 7 sections, MEMLO 1, installer at cell 6 | an odd MEMLO, room for one image and not for two, a table that fills up, full and short buffers; runs and resets are not bounded |
| `relocation` | `Relocation.cfg` | byte of 8 values, TEXT of 4, DATA of 14 bytes, load address 29, zero page 2, addresses 3, 7, 20; at most two operands | distances above a byte's, one or two skips, carries out of the low byte, both segments, operands in the last bytes; the proof covers any number of operands and every size |
| `transfers` | `PagedTransfers.cfg` | 3 items, pages and chunks of 2, one change by another program | pages that are full, partial and empty; two or three exchanges |
| `disk_error_doc` | `DiskErrorDoc.cfg` | two reasons | a counterexample: see below |
| `amiga_mount` | `AmigaMount.cfg` | two image types, two images of each, 2 polls for 20, one un-inhibit that fails or one query that hides a parked drive | the same and another geometry, a handler that exits in time, too late and not at all; a second Inhibit, over a medium and without one; commands are not bounded |
| `mounts` | `Mounts.cfg` | two tasks, four platforms, two units, two texts, one image and the boot image, two hosts; tasks, texts, images and hosts symmetric | every pair of programs and of calls in every interleaving, on one unit and on two; a unit other than 0 is where slot 0 is a foreign one; a pair is torn by two texts; the number of calls is not bounded |
| `kick` | `KickMount.cfg` | two tasks, logical unit 0, two types (two endpoints); tasks symmetric | every pair of programs on one logical unit, with the type the endpoint has and another. Logical units share only the catalog; two of them are out of reach of TLC, and the proofs cover any number |
| `fboot_doc` | `FbootDoc.cfg` | the same with one task | a counterexample: see below |
| `notify` | `Notify.cfg` | rounds of 1, 3 and 2 bytes, 4 rounds; 4 bytes of a session; 3 refusals or failures; fallback after 3 ticks for 60; 4 edges; 3 ticks of quiet | a reply in one, two and three parts, an edge lost before each; a round after the sequence of lengths wraps; the count changes while drawing and again after |

`wire` shows that replies are never mixed up although frames have no sequence
number: the argument is entirely in the order of drain, flag and W. The stream
runs show that this suffices for byte streams: data are neither lost nor
repeated without the program being told.

`relocation` shows that in-place relocation equals linking for the load address. The
installer's refinement shows that no fault, repetition or RESET leaves half an
installation: what is visible in HATABS and MEMLO changes at the name, when the
image is already complete. In the refinement MEMLO counts as raised from there on,
a window of a few instructions in which a RESET loses both.

`disk_error_doc` is expected to fail: `fnsvc.h:61-64` promises that
`fnsvc_disk_last_error` is about the most recent `fnsvc_disk_*` call, but a call that
is refused for its arguments (`fnsvc.c:409` and three more) leaves the value of an
earlier one, and a malformed reply after status 0 leaves FN_DISK_ERR_NONE.
The error codes of `fnsvc_last_error` do not have this weakness where they are
printed: `PrintedTogether`, which is proved.

`fboot_doc` is expected to fail too: `fboot.c:73-75` says the default disk is validated
"before attaching a DOS handler, so a bad firmware URI cannot leave DN0: using an
incorrect geometry or filesystem". In the Kickstart 1.3 build FUMOUNT leaves the
static handler running, the check for an active DN0: is not compiled in, and the
refusal leaves the disk it restored mounted. In AmigaDOS 2 the check is there.

Some properties except what the code does not exclude, and nothing else:
`GeometryMatches` the access to a drive between FMOUNT's retirement of the handler
and its update of the DosEnvec (FMOUNT then reports failure), `EjectsUnused` a file
opened after FUMOUNT looked. `PrintsAll` excepts an empty reply before the end,
which FDRIVE and FAPP GET take for the end. `GeometryMatches` also excepts the disk FBOOT
refused or did not see, and an inactive DN0: of another geometry that FBOOT starts as it is. `InhibitBalanced` and
`SuccessIsTrue` of AmigaMount except one Inhibit: FMOUNT can print "Mounted" while the drive is still inhibited, if its
query or FUMOUNT's failed and the drive was parked (`fmount.c:96-110`, 569 and 609). `OutcomeTrue` says of a run that
got no IOCB, or no room for its buffers, only that it reports a bad format too.
`ReadsTrue` excepts a pair that a failed or overlapping change tore (there are two
requests for it on Linux and the Amiga) and a failed unit read on Linux and Atari,
which the code reports as "unit n is slot n". `MountedIsMapped` excepts a unit whose last
program failed, and an ejection that met a mount; `SuccessIsTrue` of Mounts speaks of programs that met
no other on the same slot, drive or host. `HandlerMatches` excepts an image that was
replaced between FMOUNT's inspection and its mount, and a configured default disk of another
type. `LogicalIsTrue` speaks of logical units at rest on which no two programs met and
none failed half way. `DataArrives` excepts what proctest leaves behind a failed
read, or what came before PROC was enabled.

`mounts`, `kick` and `notify` show what the portable code relies on: that every mount is
followed by its mapping, that an endpoint is chosen by the type of the
medium, that "started" is only marked by who started, and that a read is
attempted for each of the three reasons hsionet has. Each of these is a mutant under which the
run fails.

Deadlock is checked where the system always goes on: `installer`, `transfers`,
`mounts`, `kick`. `CHECK_DEADLOCK FALSE` elsewhere: bounds on requests, sessions and
bytes let a behaviour of the resident handler end, a relocation ends, an Amiga program
can hang on a handler that has gone, and the programs of Notify end at a key.

**Fairness.** `ResidentWire` has weak fairness of the resident's own step: an SIO
command returns because the operating system gives it a timeout (`sio` sets
`DTIMLO` to 60). `ResidentStream` has weak fairness of the step of a call in
progress, which `ExchangeEnds` justifies: an exchange ends. `PagedTransfers`
and `AmigaMount` have weak fairness of the program's steps: an exchange returns, with
or without a reply, and AmigaDOS answers packets to handlers that exist. `Notify` has weak fairness of the programs' steps and of the
clock, which is what makes hsionet's fallback work; nothing is assumed of edges or keys. The
handler's exit is not assumed: the program gives up after its polls. Nothing is
assumed of the FujiNet, which may stay busy for ever, or of the program, which need not
call again.

**No liveness beyond return.** A reply of length zero, or one above 512 bytes, is
never collected (`receive` does not issue R for it), so every later request
fails until the FujiNet drops it by itself. The model has this behaviour
(`PollReady`), and the code's comment says so; no property claims that a later
exchange succeeds.

## The proofs

`ResidentWireProofs` proves, for any number of requests, polls and restarts:

- `WireTypes`: `Spec => []TypeOK`
- `AcceptsOwnReply`: `Spec => []OwnReply`
- `CarriedOutAtMostOnce`: `Spec => []AtMostOnce`
- `ClearFlagIsTrue`: `Spec => []ClearMeansEmpty`
- `KeepsThePromise`: `Spec => KeepsPromise`, the refinement of RetainedReply

The assumption is `WireAssumption`: the bounds are natural numbers, with at
least one poll. The inductive invariant `WireInv` adds to `TypeOK`:

- `FlagInv`: the flag is set whenever P or R is about to be sent and clear
  whenever W is, and a clear flag means an idle device. That is what drain before
  W and set before W achieve together.
- `DeviceInv`: a transaction at the device belongs to a request made so far; to
  the present one while its reply is awaited; to an earlier one while the present
  is still being prepared. So what R brings is decided by who called `receive`.
- `ExecutedInv`: counts are at most one; zero for requests not sent and for the
  one the device is busy with; one for the one it holds a reply of.
- `AnsweredInv`: answers are to their own requests and were carried out.

`OwnReply` alone is not inductive: a reachable state's device could hold any
request; `DeviceInv` excludes that. The refinement maps "awaited" to the
request while `receive` runs for `exchange`, and shows action by action which
abstract step is taken (a lost W is `Send` or `Abandon`, draining is `Discard`).

`ResidentStreamProofs` proves, for any number of IOCBs, sessions and restarts, any cache size, response and
number of bytes PUT (`StreamAssumption`: natural bounds, a cache of at least one byte, `Free` is no IOCB):

- `StreamTypes`, `WritesContinue`, `CommitsAreFinal`, `OwnersStayApart`: the invariants of types and of writing
- `FaultsSilence`: `Spec => FaultSilences`, the action property

`WriteContinues` speaks of the one WRITE that is being served and says nothing of how the next is made. The inductive
invariant `StreamInv` therefore follows a byte from PUT to the body. `SessionInv`: a body is a start of what was PUT,
all of it when committed. `CacheInv`: the cache of an owner that may still write is the rest of what was PUT, from its
offset on, and the body ends at that offset, unless a WRITE of it is in flight: then the body may have grown by what the
reply will acknowledge, or be committed if the WRITE was empty. `DeviceInv` says the same of a WRITE whose caller has given up: nobody
may write to that session any more. `CallInv` says what a call at each stage may hold, and that a call that goes on after a commit was told it
worked; `LinkInv` that a reply awaited is the reply to this very request, which is what ResidentWire proves of the link. `OwnerInv` keeps owners apart, `SizeInv` the caches
within their size, with room for a byte between calls. One lemma per action shows what it keeps.

The second part of the module proves, under the same assumption:

- `ReadsInOrder`: `Spec => []ReadInOrder`
- `TellsTrue`: `Spec => []ToldIsTrue`
- `StreamsKept`: `Spec => KeepsStreams`, the refinement of ByteStreams

The inductive invariant `ReadInv` says that the cache of an owner that reads is the response up to its offset and that what GET gave ends at
`POS` in it (`OwnersReadInv`); that a READ is asked for only when the cache is used up (`ReadCallInv`); that a good
reply is the response at the offset it was asked for (`ReadReplyInv`), which is the assumption about the FujiNet. In the refinement PUT is
`Take`, serving a WRITE with data is `Grow` and an empty one `Commit`, a GET that returns a byte is `Give`, and the end of file,
a STATUS or CLOSE that succeeds and any failure are `Tell`; every other step is shown to be unseen.

`ServiceClientProofs` proves of `PagedTransfers`, for any finite set of items, any page and chunk size and any number of
changes by others, as long as the items can be counted in the counters' width (`TransfersAssumption`):

- `TransfersTypeCorrect`: `Spec => []TypeOK`; `start` and `left` do not wrap
- `ListingsPrintAll`: `Spec => []PrintsAll`
- `PutStoresAll`: `Spec => []StoresAll`

The properties say nothing of where the next exchange begins. The inductive invariant `LoopInv` adds that: while nobody
interfered, what a loop has printed is the items before `start` (`ReadInv`), and what a PUT has stored is the value's bytes
before `start`, which is the value's length less `left` whether or not somebody interfered (`PutInv`). A page or chunk then
continues it (`PageContinues`, `WrittenIs`).

It also proves `ErrorsPrintedTogether`: `ErrorsSpec => []PrintedTogether` of `ServiceErrors`, for any set of
reasons and any sequence of calls. The property is inductive by itself; the lemmas show why:
a call whose errors are printed forgets those of the calls before it before anything can fail.

`NotifyProofs` proves `EchoAlwaysTrue`: `Spec => []EchoTrue`, for any lengths of the rounds, number of rounds, bytes, refusals and
ticks (`NotifyAssumption`: the lengths are positive, and there is one). While hsionet waits or reads, the stream from
its offset on is exactly what its round still lacks (`EchoInv`); neither the edges nor the clock appear in
the invariant, which is why losing them cannot misplace a byte.

`KickMountProofs` proves, for any number of tasks, logical units, types and endpoints,
under `KickAssumption` (the type of DN0: is a type, logical unit 0 exists, and `None` is neither a type,
a unit nor an endpoint):

- `HandlersMatch`: `Spec => []HandlerMatches`
- `DrivesReady`: `Spec => []ReadyToUse`

The inductive invariant `KickInv` has four parts. `TypeInv` are the types. `JobInv` says what each next
step may hold: a unit or an endpoint until it has chosen, an endpoint of its unit afterwards, of the
type it inspected when it is about to mount. `MatchInv` says of every endpoint, started or not, what
`HandlerMatches` says of the running ones: a handler may start at any time over what is mounted already, so the
weaker statement is not preserved. `HandlerInv` ties markers, and programs past C:Mount, to handlers
that run: a marker is written by a program that has started the handler, and a reboot takes both.

The module also proves `LogicalUnitsTrue`: `Spec => []LogicalIsTrue`. TLC
reaches one logical unit only; the proof covers any number. The property speaks of units at
rest, so the invariant `LogicalInv` says what holds of a unit while a program is at work on it: at most one
is, unless the unit is blurred, and what marker and media lack of the property is what that program is about
to do (`Solo`): write the marker of an endpoint it has mounted, or clear that of one it has ejected. `OwnerInv` says that an
endpoint with an owner belongs to a logical unit. Each step is shown to disturb one unit and leave the others as they were.

`AmigaMountProofs` proves every safety property of the run `amiga_mount`, for any types, copies of images and number of polls
(`AmigaAssumption`: at least one poll, FBOOT's type is a type, and `"none"`, which stands for no medium, is not):

- `AmigaTypeCorrect`, `GeometryAlwaysMatches`, `InhibitAlwaysBalanced`, `AmigaSuccessIsTrue`: the invariants
- `AmigaEjectsUnused`: `Spec => EjectsUnused`

None of them is inductive, because a command acts on what it saw of the node steps before and users may start or
open the handler between any two steps. `AmigaInv` says for each `pc` what is still so of it: what FMOUNT saw of the node
(`SeenInv`) and what it goes on to do (`MountInv`), that FUMOUNT ejects from a handler that was not in use when it looked (`UnmountInv`),
how often the drive is inhibited at each step, on each error path and after a query that hid it (`HeldInv`), and when the medium may differ from the
node it is under (`FitInv`). `Asleep` is the fact that most steps rely on: a
handler that runs although the program found none has been started by somebody, which `disturbed` records.

`MountsProofs` proves, for any number of tasks, units, texts, images and hosts, under `DeviceAssumption` (the platforms are
among the four that have a control device):

- `MountedDrivesMapped`: `Spec => []MountedIsMapped`
- `ProgramsTellTrue`: `Spec => []SuccessIsTrue`
- `ReadsTellTrue`: `Spec => []ReadsTrue`

`MountsInv` is for the first. A mount is followed by its mapping, so a drive that
shows another slot's disk is about to be mapped (`MapInv`); what could come between is an ejection, which maps the drive
to slot 0. Programs of the same unit that run at a time know of each other (`MetInv`), so an ejection that
reaches its mapping and finds a medium in the drive has met the mount that put it there (`EjectInv`).
`WorkInv` is for the second: what a program that met nobody has done so far is still so (`Done`), at each of its steps;
a step that could undo it is one of a program for the same thing, and by `MetInv` that one is known. `DeviceInv`
is for the third. The uri and the path are two keys, and not every platform stores them by one request: a read that nobody disturbed holds the keys it has
read so far as they are (`ReadOf`), a change has written those it has no longer to write (`WriteOf`), the Amiga's copy in memory is a pair that was
stored together if it says so (`RamOf`), and the keys are a whole pair while nobody is half way
and no change was torn (`KeyInv`).

`ResidentInstallerProofs` proves everything the run `installer` checks, and the types, for any HATABS, number of IOCBs, disk
buffer, MEMLO and place of the installer (`InstallerAssumption`: at least one of each, and memory between MEMLO and the installer):

- `InstallerTypes`, `PublishedHandlersWork`, `CallersUntouched`, `OutcomesTrue`: the invariants
- `OnlyFreeMemoryWritten`: `Spec => WritesFreeMemory`
- `InstallsOnceOrNot`: `Spec => InstallsAtomically`, the refinement of HandlerTable

`InstallerInv` says of each `pc` what the run has achieved. `RangeInv`: the image begins at MEMLO rounded up and ends below the installer,
since the ranges were calculated; MEMLO does not move meanwhile. `ImageInv`: TEXT is relocated by the fifth section, DATA by the
sixth, BSS is the module's after its entry was called. `SlotInv`: the entry found stays the first empty one until it is named.
`PublishedInv`: an image that can be found is complete and below MEMLO, but the one for which MEMLO is about to be raised; with
`RangeInv` that is why loading a second time cannot damage it. `ForeignInv`: no N: of another program has our marker below MEMLO, on which the
report "own" rests. `BorrowInv` says which IOCB `Finish` must give back, however far the run came. `VerdictInv`, proved from `InstallerInv`, says what each
outcome tells of the machine: entries are only added and MEMLO only rises until RESET, so it stays true, and `Request` never asks for more
than the file has, so a good one is not called bad. In the refinement the installation happens at the
name; each other step is shown to be unseen.

The second half of the module is about `Relocation`: `ImageIsRelocated`: `RelocationSpec => []RelocatesAsLinked`, for any byte of at
least three values, sizes, load address and number of operands (`RelocationAssumption`: the image ends below the top of
the address space). The property speaks only of the end; the inductive invariant `RelocationInv` says how far the work has got after
each record. `Accounts`: the records of a table are, operand by operand, the skips and the entry of that operand, so that the number of records read
determines the operands relocated (`count`) and the place reached (`reach`); `ReaderIsAt` says that this is the loader's `offset`, which
starts at -1 in 16-bit arithmetic. `ImageIsMixed`: each operand already read is as linked for the load address and all others as
linked for 0. An entry then changes its own operand into the former (`High` with the carry from the record or from the byte before) and no other, because
operands do not overlap, and it is inside its segment because the linker's operands are.

Four further theorems bound the work of what the liveness properties are about, whatever the environment does. Each is a
number that every step of the program makes smaller (`Budget`, `StepsLeft`, `Remaining`), bounded by the
constants, and zero only at rest:

- `ExchangesBounded`: an exchange issues at most `2 * MaxPolls + 3` SIO commands, draining an older reply included
- `CallsBounded`: a CIO call makes at most `CacheSize + 2` exchanges of three steps; a FujiNet that acknowledges
  one byte at a time cannot keep a flush going
- `LoopsBounded`: a transfer loop makes at most one exchange more than there are items
- `CommandsBounded`: an Amiga command takes at most `MaxPolls + 10` steps, and hangs (`pc = "hung"`) only after
  a handler has outlasted the polls of the program that told it to die (`DyingInv`)

They are all of `ExchangeEnds`, `CallsReturn`, `LoopsEnd` and `CommandsEnd` but fairness: that the program's next step is possible and taken.

Only model-checked: liveness itself (`ExchangeEnds`, `CallsReturn`, `LoopsEnd`, `CommandsEnd`, `DataArrives`,
`CountsShown`), which is out of the prover's reach because it needs fairness and ENABLED. Every other property
the passing runs check is proved.

## What is not modelled

- Packet layout, checksums and URI text: a reply is good or it is not. A damaged
  frame that passes its checksum is outside the model.
- Registers, zero page and the gateway's epilogue (`dec busy` precedes the reload of
  the caller's registers): calls are taken to come from the foreground.
- Wrap of the 32-bit stream offset.
- The installer: its SDX child, whose parent allocates memory, and the variant that
  finds the module in RAM; the contents of headers and options (accepted or not);
  16-bit sums that wrap only for files the linker does not write; a HATABS with
  holes between entries; CIO's own use of the zero page.
- Transfers: listings of 65,536 entries and values of 65,536 bytes, where `start` and
  `left` wrap. A write at offset 0 is assumed to replace the value.
- AmigaDOS 2: device commands that fail are assumed to change nothing; a second failure of the kind `Overlook`
  stands for; a LockDosList that fails (`fmount.c:59-61`), for AmigaDOS 2's waits for the list and returns it; two commands at once (then both
  could pass FUMOUNT's busy check); fmountrestore, which runs FMOUNT once for each
  remembered unit.
- Kickstart 1.3: FUMOUNT waits a fixed time for the handler's write-back
  (`fumount.c:370-377`), an assumption about time; a C:Mount that fails without Execute telling; the
  table of endpoints, of which the model has the types and the units.
- The restore of the portable fboot: a FujiNet that accepts it is assumed to put the default image
  into the unit. `amiga/fboot.c:4-6` says that it may keep a user's image there; `src/apps/fboot.c` does not check.
- Control devices: the MS-DOS driver and the search for its drive letter, the Amiga's stack
  start-up. No program in the
  repository calls `fnctl_get_state` or `fnctl_set_state`: their callers are any task.
- fhost LIST, STAT and DEL of fapp: single exchanges that change nothing the
  programs read back. The layout of fls's output.
- Atari: hsioflip, whose speed settings are bytes of the OS and of the link that nothing in the
  repository reads back; u1mbinfo, one pass of clearing, probing and printing tables of the Ultimate 1MB's
  ROM, which is outside the repository; ftestnio and fnaccept, single passes of calls to the external library that print or
  record each result, which nothing reads again; the sockets of the echo server.
- Time: a tick is a step; how many ticks an exchange takes is left open.
- The FujiNet beyond what is said above, and the operating systems.
- Build, boot-disk and image tools, which run at build time, and the tests, which were
  read as documentation.
