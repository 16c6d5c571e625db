# EverDrive-64 bootloader v5: a verification project

The bootloader is the first program a Nintendo 64 runs from an EverDrive-64
cartridge. It brings up the cartridge's FPGA, identifies the SD card, mounts its
FAT file system, loads `ED64/OS64.V64` into the cartridge's ROM space and starts
it. If anything fails it shows an error code and serves a small USB protocol.

This directory holds TLA+ modules translated from its source, the TLC
configurations that check them on small instances, and TLAPS proofs of the
results that hold for instances of every size. Paths below are relative to the
repository's root, as `src/src/disk.c` in `PROJECT.json` is `src/disk.c` there.

## The system

| part | source | state | operations | talks to |
|---|---|---|---|---|
| sector stream | `src/disk.c`, `bi_sd_to_ram`, `bi_sd_to_rom`, `bi_ram_to_sd` of `src/bios.c` | `disk_mode`, `disk_cur_addr`, `disk_card_type` | read to RAM, read to ROM, write, close | the SD card, which is in the middle of a multi-block command between calls |
| card identification | `diskInit`, `DiskCheckInit` | `disk_card_type`, `sd_resp_buff`, `REG_BOOT_CFG` | init | the card; itself, before a restart |
| file access | `src/fat.c` 96-360 | `currentFile`, `fat_cache` | read to ROM, read to RAM, skip | the stream |
| directories, paths | `src/fat.c` 363-632 | `currentDir`, `currentRecord`, `recordTable`, data cache | open, read, find | the stream, the table cache |
| mount | `fatInit` | `current_fat` | mount | the stream |
| boot sequence | `src/main.c` | test results, boot flags | load, start, show an error | everything above |
| USB link and listener | `src/usb.c`, `bi_usb_*` | a read in progress in the cartridge | commands `t r w R W f s c` | a host computer |
| registers, I2C, RTC, FPGA loading | `src/bios.c` | `biBootCfg`, `biSysCfg`, `bi_sd_cfg` | register writes, byte protocols | the FPGA, the MCU |
| PI, SI, screen, ticks | `src/sys.c` | `screen`, the PI's DMA | copy, repaint, sleep | PI, SI, VI |
| text, strings | `src/gfx.c`, `src/str.c` | cursor, palette | append, fill, trim | the screen |
| libdragon, linked | `interrupt.c display.c rdp.c dma.c n64sys.c exception.c` | interrupt depth, callback lists, buffer flags | register, nest, lock, attach | handlers that run between any two instructions |
| timers, not linked | `timer.c` | `TI_timers`, the count and compare registers | start, stop, close, walk | the interrupt of the compare register |
| audio, not linked | `audio.c` | `buf_full`, `now_playing`, `now_writing` | open, write, close, callback | the audio interface |
| memory pak, not linked | `mempak.c` | what is on the card | format, read, write, delete | a card that may be pulled |
| files, not linked | `dragonfs.c`, `system.c` | directory stack, open files, handles, filesystems | newlib's and DragonFs's calls | the image in the ROM |
| the rest of libdragon, not linked | `controller.c console.c graphics.c` | last results, a text buffer | poll, print, draw | the SI |

The program is one thread. Interrupts are disabled for the whole of the boot
(`src/main.c:22`), so what runs beside it is hardware: the SD card, the
cartridge's DMA, the USB host, the VI, and the user, who may press reset, swap
the card or cut the power at any moment.

What is hard in it:

* **Belief about the card.** A sequential call sends no command at all if
  `disk_mode` and `disk_cur_addr` match. Every way in which belief and card can
  part (a missed command, a lost answer, a timeout in the middle, an answer that
  is never read, a DMA that gives up) must end in an error or in a new command.
* **State that outlives a restart.** The boot flags and the card do, the RAM
  does not; the card may be another one.
* **Failures half way.** Positions and cache indices are advanced before the
  access they describe.
* **Boundaries.** `u8` and `u16` arithmetic where calls, clusters, FAT sectors
  and the file end at different places; counters whose last value is overloaded.
* **Waiting.** Each loop on the hardware must end, by its own bound or by the
  hardware's.

What makes each part correct: the stream moves the sectors asked for or says
otherwise, and always returns; identification succeeds only on a card it knows
the kind of, and returns on a dead one; a file yields its own sectors in order;
a directory search finds the record or a distinct error, and terminates; a boot
starts the system only when all of it was loaded, with the stream closed;
critical sections exclude the interrupt handlers; a frame is drawn where nobody
looks and shown when it is complete; a timer fires, and not much too early;
every chunk of sound is played once and in order; the host's blocks arrive where
they belong; a note on the pak outlives whatever happens to the next one; a path
and a file's number keep their meaning.
`PROJECT.json` lists the single hazards at their lines.

## The modules

| module | models |
|---|---|
| `SectorDevice` | abstract: what `disk.c` promises its callers |
| `SdStream` | the stream, the transfer loops, and the card beside them |
| `SdStreamProofs` | the theorems about `SdStream` |
| `SdInit` | identification over restarts, with the card's identification states |
| `SdInitProofs` | the theorems about `SdInit` |
| `FileReader` | abstract: what the file half of `fat.c` promises |
| `FatFile`, `MCFatFile` | reads, skips, the chain and the table cache; the small volumes they are checked on |
| `FatFileProofs` | the theorems about `FatFile` |
| `FatDir`, `MCFatDir` | mounting, directories, records with long names, lookup by path; the small disks and trees |
| `FatDirProofs` | the theorems about `FatDir` |
| `Boot` | `main.c` over resets and power cycles, with the listener and its host |
| `BootProofs` | the theorems about `Boot` |
| `Interrupts` | libdragon's interrupt nesting and callback lists, against the handler |
| `Cpu` | the one thread, as libdragon's users of critical sections see it |
| `Display` | the frame buffers, between client and VI handler |
| `Rdp` | the ring of drawing commands, between processor and RDP |
| `Render` | both, with the client that locks, draws, detaches and shows |
| `RenderProofs` | the theorems about `Render`, `Display` and `Rdp` |
| `AudioQueue` | abstract: what `audio.c` promises its client |
| `Audio` | the ring of sound buffers, between client, handler and audio interface |
| `Timers` | the list of timers, the count and compare registers, time |
| `UsbLink` | the listener's transfers, the FPGA and the host |
| `Parts` | a program with one of these three, for checking them together |
| `PartsProofs` | the theorems about `Audio`, `Timers` and `UsbLink` |
| `MempakNotes` | a note's codes and names on the memory pak |
| `Mempak`, `MCMempak` | the pak's tables and notes, written chunk by chunk; the small pak |
| `LibdragonProofs` | the theorems about `Interrupts`, about `Mempak` and about `Files` |
| `DragonFs` | the directory stack, listings and open files of the image |
| `Newlib` | newlib's calls over attached filesystems |
| `Files`, `MCFiles` | a client of both beside a plain picture of the files; the small image |

The modules meet at the calls of the program: `FatFile` and `FatDir` read
sectors by calls that give the sectors asked for, or fail. That is what
`SectorDevice`, which `SdStream` implements, promises until a first failure has
made the stream doubtful; after it a call may return 0 with other sectors
(finding 1), and what `FatFile` and `FatDir` say of calls after a failed one is
said of a device that still gives the right sectors. `Display` and `Rdp` take a
critical section as one step in and one out, as `Interrupts` shows it to be (so
do `Audio` and `Timers`, all through `Cpu`), `Newlib` calls `DragonFs`, and
`Boot` takes from identification, mount, lookup and load the results these modules show them to
have, each with its failures.

A definition called `X_Something` is `X` with a bug the code does not have. It
is used by no specification; replacing `X` by it shows that a property notices.

### SdStream

State: `disk_mode` and `disk_cur_addr` are the code's; `card` is what the card
knows (idle, sending, receiving or programming; the sector it is at; whether the
next block is ready). `pc` is where the call in progress is, `req` what it was
called with and `moved` the sectors that have really passed. `lost` is history:
the host has seen a transfer or a stop fail and no acknowledged stop since.

Actions: `Call` and `CallClose` enter; `OpenContinue`/`OpenAnew` are the
comparison at the head of `diskOpenRead` and `diskOpenWrite`; `StopAcked`,
`StopTimeout` and `BusyEnd` are `diskCloseRW`; `CmdRead`, `CmdWrite` and
`CmdWriteTimeout` are CMD18 and CMD25; `RecvSector`, `DmaSector`, `SendBlock`
and their failures are the loops of `bios.c`; `Poll` is one round of a waiting
loop. The card takes steps of its own (`CardReady`, `CardProgrammed`) between
any two of them. In each command there is a choice of what the wires do: it
arrives or not, the answer arrives or not.

Data: a sector is its number; bytes, CRCs and the bits of a command are left
out, so a block damaged in a way nobody notices is not modelled (nothing in
`bi_sd_to_ram` looks at the CRC it reads, `src/bios.c:564`). A command's
argument keeps its width (`ArgRange`), and cards that count in bytes and in
sectors are both there (`HighCapacity`). The 65534 polls of a loop are
`MaxPolls`. The loop of `bi_sd_to_rom` has no bound of its own, and none here.

`SectorDevice` is the promise: as long as the device is trusted, a call's
sectors are the ones asked for, in order, and a call that returns 0 has moved
all of them; a failed call may cost the trust, and only a close or a switch of
streams restores it. Untrusted, what moves is still a consecutive run.
The mapping is `active <- a transfer is in progress`, `trusted <- ~lost`.

### SdInit

One action per command and per register write, so a reset falls between any two
of them. `card` has the kind inserted, its state on the identification path and
whether CMD8 has introduced the host. `sd_resp_buff` is what answer arrived
last, because the code reads it after commands that were not answered.
`boot_cfg` is `REG_BOOT_CFG`: the only host state that survives `Reset` and
`Exchange`; `PowerCycle` clears it. The seven commands of the selection are one
action over a table (`Selection`) of each command's successor and error.
`0xC0` is not among the results: it needs an answer to CMD8 that `diskCmdSD`
never gives.

### FatFile

`pos` and `sec_available` are `currentFile`; `table_sec_idx` is the index the
code keeps and `table` whose contents the buffer really has. A read or a skip is
a loop of `ReadChunk`, `SkipCluster` or `SkipSector`, with `TableLoad` and
`NextCluster` where the chain is followed. `memory` records where each sector
arrived, `at` how many have been passed, and `broken` that a call has failed
half way. Widths are constants (`PtrWrap`, `LenWrap`, `RamWrap`) so that
wrap-around happens in small instances. Callers do not skip past the end of a
file (the code does not look, `src/fat.c:308`, and the program never skips).
Left out: mode 1 (write) and the flush of a dirty cache, which no statement of
the program can reach: every caller passes mode 0, and `table_changed` and
`data_changed` are only ever cleared.

### FatDir

`dir` is `currentDir`, `rec` is `currentRecord`, `recordTable` the table of
locations (a location is a sector times 16 plus the record's number in it).
`data_sec_idx` is the index of the data cache and `data` the sector the one
buffer really holds; what `FatReadRecord` decodes is always read out of `data`.
`why` says whose call of `FatReadRecord` is running: that of `fatOpenDir`, of
the comparison in `fatFindRecord`, or of `fatOpenFile`. A record is a value (the
end mark, deleted, hidden, a piece of a long name, a file, a directory), a name
a model value; letters, case and the checksum of short names are abstracted.

`MountRead` to `Mounted` are `fatInit`: the first sector is read, is the boot
sector or leads to it, and says where the data begins (`data_entry`); a disk that
is not signed, has no FAT32 partition or no FAT32 boot sector gives `0xF8`. The
geometry after that (`ClusterSize`) is a constant.

`LoadDir` to `ScanNext` are `fatReadDir`, record by record; `OpenRecord`,
`DecodeLfn` and `NextRecord` are `FatReadRecord`, and the actions of `Search`
what its three callers do with the result. Every access to the card may fail.
Following the chain is one step, and goes through the table's cache:
`table_sec_idx` is its index and `table_data` the sector of the table its buffer
really holds. The index is set before the read (`src/fat.c:211`), so after a
failed one `TableRecord` decodes an entry of another sector, or, if none has been
read, whatever the buffer held (`entry` of a volume); where that leads, into the
chain of another directory, out of every directory (`other` is what a record
there looks like) or to cluster 0 and from there to cluster 0 again, the search
goes. `misled` records that a search has used such a buffer. Sectors and
locations are `u32` (`Word`); a directory must lie where its records have a
location, in the first 2^28 sectors (128 GB).

Chains on the volume end: on a cyclic chain without an end mark `fatReadDir`
(`src/fat.c:579`) does not. `SearchEnds` says that a search does on others, but
for one that is `misled`: stale entries can form a circle, and without the
exception TLC finds a search that goes around in it for ever.

`Lookup` is the reference: what a path names in the tree, written without
caches, locations or positions. `FindsTheFile` compares. An entry has a long name
if the records in front of it are pieces of one from the piece with the mark on
(`HasLong`); pieces without that one in front belong to nobody, as for
`fatReadDir` (`src/fat.c:556`), and the small trees have such pieces.

### Boot

One action per access to a register that outlives a reset, per call that
`MainLoadOS` makes, and per 4 KB (scaled) of the ROM space. `boot_cfg` is
`REG_BOOT_CFG` and `biBootCfg` its copy; `mcn` the main FPGA, `locked` the state
of `REG_KEY`, `rom` who wrote each part of the ROM space last, `sending` whether
the card is in the middle of a read. `Reset` keeps what the hardware keeps and
starts the program over; `PowerCycle` keeps nothing. `Runs` is whatever was
started: it leaves flags, lock, memory and card in any state before the next
reset. The host's commands are what they change (`WriteRom`, `Upload`, `Start`,
`Other`); a host that overwrites the RAM the bootloader itself runs in (`w`) is
not modelled.

### Interrupts

`depth` is `__interrupt_depth`, `ie` the enable bit, `mask` and `pending` the
source's; `head`, `next` and `callback` are the list in memory, `used` the cells
`malloc` has given out. The thread takes one step per access to shared state;
`MI_handler` may run between any two, to its end, since it runs with interrupts
off. The five lists share their code and nothing else, so there is one.
`nesting` counts the critical sections open, as their callers see them, and
`registered` is what the list ought to be.

Callers are taken as those of libdragon are: they pair enabling with disabling,
do not call `init_interrupts` inside a pair (the disabling would have been
ignored and the enabling would not, `src/libdragon/interrupt.c:527`), and
register with the source masked or interrupts off (`Quiet`, as `rdp_init`). The
last is needed: `__register_callback` hangs the cell into the list before it
sets its fields (`:173`). Removing needs no such care, and the model allows an
interrupt between every two steps of it. `malloc` succeeds here; where it fails
the code loses the whole list (`:173`).

### Display, Rdp, Render

`now_showing`, `show_next`, `now_drawing` and `buffers` are the variables of
`display.c`; `on_screen` is the VI's origin, `disp` the context the client has.
Every call is a step into its critical section, its accesses, and a step out;
`display_lock`'s search is one step per comparison (`LockTest`, by `i` and
`test`), so that a search without the critical section would meet `VI_handler`
between any two.

`Rdp` counts in units of two words, in which all commands come. `ring`,
`rdp_start`, `rdp_end` and `wait_intr` are the code's; `dirty` are the units
that are in the data cache only. `__rdp_ringbuffer_queue` and the write-back
belong to the calls; `SendDisable`, `Submit` and `Submitted` are the rest of
`__rdp_ringbuffer_send`. The RDP has one run of commands waiting (`pending`:
while there is one, the bits `0x600` of its status are set) and one it executes
(`active`), and reads a command only when it executes it. What it has read is
taken out of `ring`: whether old commands still stand there makes no difference
to code that never gives them to the RDP again, and if it did
`ReadsWhatWasQueued` would say so. `due` is history: what was submitted and is
not executed. `then` is where `__rdp_ringbuffer_send` returns to.

The client is one that follows the comments of both files: `display_init` and
`display_close` in turns, one context at a time (`display.c:415`), attached
before it is drawn in (`rdp.c:287`), detached before it is shown (`:309`), with
interrupts enabled (`:306`). It may call `rdp_init` and `rdp_close` between
frames. `wait_intr` is a count in the code and a flag here: it is only compared
with 0. Left out: the texture cache and its flushing, a second `display_init`,
and the drop of words in `__rdp_ringbuffer_queue` when the ring is full beyond
whole units, which `RdpTypeOK` shows is never met.

### Audio

`buf_full` is the set of buffers whose bit is set, `AI` how many buffers the
audio interface holds, two at most, `line` its interrupt and `mask` whether it is unmasked.
`audio_callback` is one step per buffer handed over (`Fill`), from the handler
(`HandlerFills`; `Over` names, for each place, the handler having broken in there) or from a write
(`WriteFills`). `audio_init` is four steps, with the handler in place before
there are buffers and before `now_playing` and `buf_full` are reset;
`audio_write`'s wait opens its window in `LetInterruptsIn` and `KeepThemOut`.
`audio_close` leaves the ring's variables and the interface as they are, and a
client may open again at once, as long as it has closed (`audio.c:178`).

An interrupt during `audio_init` that finds a buffer full from before hands over
what is not set up (`Noise`), and if it comes between `:239` and `:241` leaves
`now_playing` ahead of `now_writing` for the whole session (`astray`). `AudioQueue`
says so: `Stray`, at most once for each chunk the close dropped, and `Anyhow`.
The refinement is `queue <- the chunks of the full buffers in ring order`,
`phase <- what there is of buffers`, `left <- how many bits of buf_full are left`.

### Timers

The list is a set: its order is only that in which the callbacks of one walk
run. `Tick` is time between calls and `TickInside` time inside them, at most `Latency`
ticks of it. `Walk` is one pass of `__proc_timers` over the list and `Arm` what
follows: another pass if the next alarm would be too soon, else the registers.
`raised` is the interrupt's line, raised when the count meets the compare
register, lowered by writing the latter. `owed` is history: for each timer, how
many ticks are left until its time has truly come and how many stood on the
counter when it was added. Ticks are bounded by `Far`, which stands for the
code's largest intervals, so the 32-bit wrap of the counter does not come into
play: every walk sets the counter back. `Far` is beyond margin and latency
together, and an interval may be anything from one tick to `Far`
(`TimersAssumption`); `timer.c` checks neither bound. With 0 it does not work: the
alarm of the only timer is set for where the counter already stands
(`timer.c:205`) and comes when the counter has wrapped, and a continuous timer
has expired again each time `__proc_timers` looks (`:131`), which never returns.
The writes of count and compare (`:204`, `:205`) are taken to be in one tick, and
`Latency` bounds all that passes in a call or the handler, however often it walks:
intervals shorter than a walk takes are outside it.

### UsbLink

The unit is the 16 bytes of a command. `fifo` is what the host has sent, `fpga`
the one transfer in progress with its one buffer, `call` the command obeyed,
`arrived` and `moved` are history. The host sends any unit at any time and may
stop for good; every wait of `bi_usb_busy` may give up (`Stops`, `TimesOut`),
in the middle of a block, leaving the rest in `fifo` for whatever reads next.
`bi_usb_rd_end`, `bi_usb_rd_start` and `StoreBlock` are `UsbCmdW`, which asks for
the next block before it has looked at this one. Assumed: the host pads to whole
units, and a read that gave up has read some number of whole units.

### Parts

Audio, timers and the USB link share nothing but the processor, and no program of
the repository uses more than one of them. `Parts` picks one at the beginning.

### Mempak, MempakNotes

`pak` is what each 32-byte chunk of the card holds; a data block is one chunk
here and a table of contents two. A call reads what it needs when it begins
(nothing else writes) and puts what it will write in `todo`, which `WriteChunk`
works off; `CutShort` ends the call at any chunk, that chunk being old, new or
`Garbage`. `live` is what clients count on: a note from the moment its writing
has returned until its deletion is begun. The checksum of a table is a sum modulo
`Modulus`, as in the code. That a torn table is told from a whole one is
`Garbage`, not arithmetic: 8 bits of a sum cannot promise it, and no property
here does. `MempakNotes` has the code page both ways and the dot and extension
of a name; a client's names are those the card can keep (`CleanName`: with their
dot, since the code always gives one back).

### DragonFs, Newlib, Files

`directories` is the stack up to `directory_top`, an entry a directory is known by
its first entry; `open_files` and `handles` are the two tables, with the numbers
that tie them. A call is given as what it returns and as what it changes.
`recurse_path` walks a path token by token over a copy of the stack and says
whether the copy stays. `Read` keeps the copy of one sector beside the place, so
that a stale copy would show in `Bytes`. `SizeOf` and `StatOf` are the pair of what
`fstat` and `stat` return and `st_size`. `Files` keeps a plain picture (`cwd`,
`listing`, `opened`) and compares every answer with it in `right`.

## The runs

| run | bounds | shows |
|---|---|---|
| `stream` | 4 sectors, calls of up to 2, 2 polls, byte-addressed card, all faults; ~139 000 states | `Coherent`: until a failure has been seen, an open stream is where the host believes it to be; `RightSectors`: until then every sector moved was asked for; `DeviceSpec`: the stream implements `SectorDevice`; `EveryCallReturns` |
| `sd_init` | `wait_max` 2, 3 restarts, all kinds of card, all faults; ~2 700 states | `ReadyMeansKnown`, `SlowIdentification`, `InitReturns` |
| `file` | clusters of 2 sectors, chains of up to 3 of 3 clusters over two FAT sectors, calls of up to 5, 3 calls, failing reads; ~256 000 states | `InPlace`; `ReaderSpec`: file access implements `FileReader`; `EveryCallReturns` |
| `dir` | disks with and without a partition and three that are not to be mounted; root of two clusters of 2 sectors of 2 records, every content of up to 2 items, three subdirectories, 6 paths, 2 searches, table of 3, table sectors of 4 entries, failing reads; ~535 000 states | `FindsTheFile`, `BufferIsCurrent`, `SearchEnds` |
| `boot` | ROM space of 4 units, 2 tested, 2 cleared, files of 0, 1, 2, 4; 2 blocks from the host, 2 restarts; ~267 000 states | `StartsLoaded`, `RegistersUsable`, `StreamClosed`, `MessageFits`, `KeepsFlags`, `BootEnds` |
| `interrupts` | 3 cells, 2 callbacks, nesting to 3; ~105 000 states | `Exclusive`, `Reenabled`, `HandlerFindsList`, `CallsReturn` |
| `render` | ring of 7 units, slack 2, commands of 1 and 2 units, 2 or 3 buffers; ~26 000 states | `HeldAlone`, `RefusedOnlyWhenFull`, `ReadsWhatWasQueued`, `WholeFrames`, `EveryCallReturns` |
| `parts` | rings of 2 and 3 buffers, 2 sounds; 2 timers of 1, 3 or 4 ticks, margin and latency 1; blocks of 2 units, commands of 0, 1 and 3 blocks, a chip of 2 units; ~170 000 states | `QueueSpec`: the ring implements `AudioQueue`; `EveryChunkIsSent`; `AlwaysArmed`, `EveryTimerFires`, `EarlyByTheCounter`; `BlocksInOrder`; `CallsReturn` |
| `mempak` | 3 blocks, 2 notes of 1 or 2 blocks, names that fill the field and do not; ~804 000 states | `NotesIntact`, `NothingLost` |
| `files` | 6 entries, directories two deep, 15 paths walked and 10 opened, stack of 3, 2 open files, 2 handles, 2 filesystems, sectors of 2 bytes; ~10 000 states | `PathsLead`, `NumbersHold` |
| `stream_retry`, `render_detach` | the smallest instance that shows it | findings (below) |

Each invariant that is not about types has its module's `TypeOK` as a conjunct
where the module has no type theorem.

Why the bounds are enough. A stream call compares one address and then moves a
run: two calls in either direction, of one or two sectors, before, behind and at
the current sector, with a third sector to tell wrong from right, are all the
relations there are; the theorems remove the bound for the safety properties.
Two polls distinguish a card that is on time, late, and too late. With
`wait_max` 2 the identification loops are entered, repeated and left by their
bound, the case `i = wait_max` included; three restarts allow one to tear the
flags, one to believe them and one to recover. In `FatFile` a chain of three
clusters has a first, a middle and a last one; clusters {2, 3, 5} with four
entries to a FAT sector make the table cache hit and miss in both directions; a
call of five sectors spans three clusters from the middle of one.

In `FatDir` a sector of two records puts groups of two and three records inside
a sector, across two and across two clusters that are not neighbours; with three
places in the table a directory underfills, fills and overfills it; the
subdirectory ends by a mark, by its chain, or by the full table; the second
search meets the caches, the table and the record of the first, and what a
failure at any of its reads left in them. The clusters lie in two sectors of the
table, so that its cache hits, misses and fails too; what is no directory's looks
like a file or like a piece of a name, and its entries end a chain or are zero.
In `Boot` the sizes put the end of the file before, at and behind the ends of the
test's pattern and of the cleared part; two restarts allow one to leave a state
behind and one to be hit in the middle of handling it; two blocks allow the host
an upload and a start. In `Interrupts` three cells are a first, a middle and a last one, two callbacks
give a list with one registered twice, and depth 3 has sections inside sections.

In `Rdp` a ring of seven units with two of slack is the smallest in which three
of the longest commands fit in front of the slack and one in it
(`RdpAssumption`; the code has 512, 128 and 2): the RDP has at most two runs
unread when a third is queued, so a ring that small wraps around onto the very
next unit if there is a mistake. Two and three buffers are all there are.

In `Audio` rings of two and of three buffers are the smallest and the smallest
that is not; more buffers than the interface holds, and as many. In `Timers` two
timers can be due together, one after the other and one within the other's
margin, one of them may be set to no more than the margin, and a tick inside a call or the handler is what the margin is against.
In `UsbLink` three blocks have a first, a middle and a last, and two units of the
chip put a command behind the remains of a block. In `Mempak` three blocks are
one too few for two notes of two, so notes share out what deletions leave; the
first chunk of a table has one link and the second two, so that a chain crosses
between them. In `Files` two places in each table overflow with three opens;
the stack has room for the directories and for a file in the deepest, and not for
one more (`StackSuffices`); files end inside a sector and at its end.

The runs of `FatFile` and `FatDir` stop when `MaxCalls` calls have been made,
those of `SdInit` when the last permitted restart has returned, and `Boot` at
the error screen with the host silent and the restarts used up: only there is a
stop no deadlock. `SdStream`, `Interrupts`, `Render`, `Parts`, `Mempak` and
`Files` are checked for deadlock.

### Fairness

`SdStream`: weak fairness of `Host`, because the processor does not stop in the
middle of a call, and of `Dma`, because the cartridge's transfer ends, with or
without an error: `bi_sd_to_rom` has nothing else to rely on. The card gets no
fairness: the code must, and does, get by with a card that never answers.
`SdInit`: weak fairness of `diskInit`, and none of the restarts or of the card.
`FatFile` and `FatDir`: weak fairness of `Work`, the processor's own steps;
failing is never required for a call to end. `Boot`: weak fairness of
`MainLoadOS`; that the flush of `bi_usb_init` ends rests on a host that does not
send for ever. `Interrupts`: weak fairness of the thread inside a call: a storm
of interrupts that never lets it go on is excluded. `Render`: weak fairness of
the thread inside a call and of the RDP, which has no reason to stop, and strong
fairness of the handlers, since the processor takes an interrupt that is raised
the moment it may, and interrupts are enabled again and again. `Parts`: weak
fairness of what the processor has begun and of its handlers; of the audio
interface, which plays at its own rate; strong fairness of `Tick`, since time
does not stop while a client makes call after call; none of the host or of the
FPGA's transfers, the listener's polls being bounded. `Mempak` and `Files` state
no liveness: their calls are loops over tables.

### What the passing runs say about the code

* `Coherent` holds only until the host has *seen* a failure, which is exactly
  when `diskCloseRW` was not acknowledged or a transfer gave up. The two places
  where the code looks away, CMD18's answer (`src/disk.c:120`) and the result of
  `diskCloseRW` in `diskOpenRead` (`:186`), are inside the model. The first is
  harmless: a card that is not sending times out. The second is the source of
  `lost`.
* `ReadyMeansKnown` names the two ways in which `diskInit` may return 0 with the
  wrong idea of the card's addressing: a reset between the writes of the two
  flags (`:333`, `:334`), and a lost answer to CMD8 (`:269`). There is no other.
* `rca` is read from the buffer after a CMD7 that no card answers (`:309-312`);
  the run shows it is always CMD3's answer when a card gets selected.
* `BufferIsCurrent`: the pointers `FatReadRecord` keeps into the one buffer are
  never used after it has been refilled, as long as no read has failed.
* `RegistersUsable` excepts `uploaded`: after the host's command `f` nothing
  calls `bi_init` (`src/usb.c:84`), so the registers of the FPGA it loaded stay
  locked and a following `s` closes the stream through them.
* `StreamClosed` excepts `doubt`: `simulate_pif_boot` ignores the result of
  `diskCloseRW` (`src/main.c:151`), and after a reset in the middle of a read a
  host's start finds `disk_mode` NOP if `diskInit` has not run.
* A file of no sectors starts (`size = 0`): the first 4 KB of the ROM space are
  then the memory test's pattern, since clearing begins at `0x1000`
  (`src/main.c:142`). `StartsLoaded` speaks of the rest.
* `display_lock` refuses only with two buffers of which one is shown and the
  other waits for the vertical blank; with three there is always one
  (`RefusedOnlyWhenFull`).
* With clusters of 64 KB `(u16)(512 * len)` (`src/fat.c:350`) is 0, and a read to
  RAM puts each cluster where the last one was; the boot reads to ROM, which has
  no such conversion. The run has smaller clusters, and the theorem about reading
  says so (`NarrowClusters`).
* A skip to the very end of a file that fills its last cluster follows the chain
  past it and fails (`:311`, `:298`), where the reads return early: `FileReader`
  allows this error, and nothing calls skip.
* After a failed read `fat_cache.data_sec_idx` names a sector the buffer does not
  hold (`:376`), and so does `table_sec_idx` (`:211`); `FindsTheFile` and
  `BufferIsCurrent` speak of the time before. A search that is started again
  after a FAT sector could not be loaded may follow what the buffer has instead,
  and need not end: `SearchEnds` has to except it (`misled`). The shipped boot
  does not search again after a failure.
* The root directory is taken to be at cluster 2, whatever the boot sector says.
* `EarlyByTheCounter`: a timer added while others run fires early, by as many
  ticks as stood on the counter at that moment, since the walk that follows
  takes the count off it as well (`src/libdragon/timer.c:92`, `:201`).
* What `audio_close` leaves waiting can reach the interface after the client has
  opened again (finding 4): `QueueSpec` says how much, and that there is nothing of
  it when nothing waited. `CallsReturn` holds of such a session all the same.
* `audio_write` may fill a buffer the interface still plays: its bit is cleared
  when it is handed over (`src/libdragon/audio.c:156`). `QueueSpec` is about what
  is handed over, and when.
* `UsbCmdW` that gives up leaves a read in progress in the FPGA
  (`src/usb.c:51`); `BlocksInOrder` shows that it cannot reach the blocks of a
  later command, though it may swallow units the host sends next, the command
  itself among them.
* `NotesIntact`: the order of `write_mempak_entry_data` (data, other table, table,
  note) keeps every earlier note readable at each cut. Blocks may be lost by a
  cut, until the card is formatted; `NothingLost` is for cards without one.
* `newlib`'s `open` of a file that is not there returns a number all the same
  (`src/libdragon/system.c:864`, the error being a pointer like any other); `read`,
  `lseek` and `close` on it fail, `fstat` returns 0, and so does `stat` of such a
  file (finding 5). Opening ends a listing and resets the working directory,
  and the slots of `handles` are never freed, so after `MAX_OPEN_HANDLES` opens
  there are no more. The model has all of this, and `NumbersHold` with it.
* `DragonFs` ignores an entry too deep for its stack and goes on as if it had been
  pushed. `src/libdragon/dragonfs.c:36` says that directories can be 100 levels deep;
  in one as deep as that there is no room left for the file that `recurse_path`
  pushes at the end of a walk (`:607`, `:322`), `peek_directory` returns the
  directory's first entry, and `dfs_open` opens that one, whichever it was asked for.
  So `PathsLead` and `NumbersHold` are for trees one level lower (`StackSuffices`),
  and `PathsFound` shows that this is all it takes. Without that hypothesis, and with
  a stack of 2 in place of 3, the run `files` ends in this counterexample. No
  program here has directories that deep.
* `DragonFs` opens `f/` as the file `f`.
* Nothing in `rdp.c` looks at how far the RDP has read before the ring starts
  again (`src/libdragon/rdp.c:241`). `ReadsWhatWasQueued` shows that the wait
  for the RDP's one waiting run (`:231`) is what keeps it from being overtaken.

### Findings

The first two are runs that end in a counterexample, a property stating what a
comment or a definition of the repository says; the others are comments that a
passing run speaks against:

1. `stream_retry`: after a read timed out, `disk_cur_addr` is already advanced
   (`src/disk.c:217`) and the mode is still RD; a retry from the following
   sector goes on with the stream and returns 0 with earlier sectors. The
   shipped boot stops at the first error, so only another caller would meet it.
2. `render_detach`: `rdp_detach_display` takes the first interrupt it sees for
   its own (`src/libdragon/rdp.c:323`); after a client's `rdp_sync(SYNC_FULL)`
   it may return while the RDP still draws. `render` shows that without such a
   call it does not. libdragon's drawing is not used by the boot.
3. `render` (`WholeFrames`, which holds where the comments say otherwise):
   `src/libdragon/rdp.c:42` warns of excessive syncs that "can stall the pipeline
   and cause triangles/rectangles to be drawn on the next display context instead
   of the current", and `:333` of graphics that "may not be displayed until the
   next render cycle". A sync of the pipeline is a command like another to this
   code. The model's RDP may take as long over each command as it likes, and a
   client may queue any number; still nothing is drawn outside the buffer that is
   locked, because `rdp_detach_display` waits for the interrupt of a SYNC_FULL
   queued behind them (`:318`, `:323`). What the comments describe comes about
   with a client's own `SYNC_FULL` (finding 2), or where the RDP does not execute
   in order or interrupts are disabled at the detach (`:320`), which the model
   leaves out.
4. `parts` (`QueueSpec`, which allows for it by name): `audio_init` unmasks the
   interrupt (`src/libdragon/audio.c:224`) before it has buffers and before it
   resets the ring (`:239`), and `audio_close` leaves `buf_full` and the interface
   as they are. A client that closes with chunks waiting and opens again
   ("remember to call #audio_close", `:179`) may have a pointer handed over that
   malloc left; an interrupt between `:239` and `:241` moves `now_playing` but not
   `now_writing`, and a chunk is then not "played back by the audio system as soon
   as room" (`:280`) is there, but passed by later ones. The run reaches both, and
   without `Stray`, or `Anyhow`, `QueueSpec` is violated. No program here uses
   audio.
5. `files` (`NumbersHold`, which says what is answered instead): of `fstat` and
   `stat` `src/libdragon/system.c:658` and `:1013` say "0 on success or a negative
   value on error". DragonFs's `__fstat` puts what `dfs_size` returns in `st_size`,
   its error `DFS_EBADHANDLE` as well, and returns 0 in any case
   (`src/libdragon/dragonfs.c:1126`, `:1135`). So `fstat` of a number whose file is
   closed succeeds as long as a filesystem is attached where the file's was, and
   `stat` of a name that is no file, or with the open files used up, succeeds
   wherever a number is left; only a negative size tells. That `open` gives such a
   name a number is against `:829` in the same way. No program here uses these
   calls.

## The proofs

`SdStreamProofs` proves, for every number of sectors, call length, poll bound,
addressing and set of faults, from `StreamAssumption` and `ArgAssumption` alone:

* `TypeCorrect`: `Spec => []TypeOK`.
* `StreamCoherent`: `Spec => []Coherent`, and `SectorsRight`:
  `Spec => []RightSectors`.
* `ImplementsDevice`: `Spec => DeviceSpec`, every step of the stream being a step
  of the device or a stutter.

`ArgAssumption` says that a card that counts in bytes has no sector whose byte
address does not fit 32 bits, which the SD specification guarantees (2 GB) and
without which `saddr * 512` would wrap; `ArgIsExact` is the lemma that uses it.

`Coherent` is not inductive by itself. The inductive invariant is
`Inv == TypeOK /\ Phases /\ Coherent /\ RightSectors`: `Phases` says what each
control point implies (nothing has moved before the transfer begins, no stream
is open while one is being replaced, a transfer runs in the loop of its kind with
`disk_cur_addr` already at its end, and a DMA that gave up is not a finished
one), and `Coherent` and
`RightSectors` need each other: a sector moved is the right one because the card
is where the call has come to, and the card is there because the sectors moved
so far were. `InvTransfer`, `InvMove` and `InvAbort` are the three ways a step
touches it, and `InvStep` has one case per action.

The refinement needs more, because the device still promises consecutive sectors
when nothing is trusted: `DeviceInv == Inv /\ Extent`, where `Extent` bounds
`moved` by the request, keeps a caller's close from transferring, and ties the
card's position to the last sector moved. `MoveMaps`, `FailMaps` and
`DeviceStep` map the steps.

`LibdragonProofs` has three parts that do not meet (the specifications are named
`MempakSpec` and `FilesSpec` so that one module can speak of all). The first proves, for any
number of cells and callbacks and nesting to any depth:

* `CriticalSections`: `Spec => []Exclusive`; `HandlersOutside`: every step of
  the handler falls outside all critical sections.
* `NestsUnwind`: `Spec => []Reenabled`.

The inductive invariant ties the code's counter to the callers' nesting
(`Counted`), the bit to the counter (`BitFollows`), and says where inside a call
the two may differ (`InCall`). `Exclusive` alone is not inductive: what a step
of `enable_interrupts` does depends on the counter and not on the nesting.

* `ListWhole`: `Spec => []HandlerFindsList`.

The list is a function from `1 .. Links` to cells that no variable holds, so the
invariant (`ListInv`) asks for one: its k-th cell has the k-th of the callbacks
registered, its cells and the one being added or removed (`Extra`) are those
allocated, and `__unregister_callback` is at one of them and has passed none with
its callback (`Searching`). A cell being added is in `head` before it is set up,
and no handler runs (`Adding => ~MayInterrupt`, from `Quiet`). What the handler
finds is defined by following `next` (`Chain`); `ChainIsList` shows it to be this
function, by the least place where they could differ, and `LinksFit` that
the end comes within as many steps as there are cells.

The second part of `LibdragonProofs` proves, for a pak of any size, tables split
anywhere into two chunks, any modulus of their checksum, and any names the card
can keep (`MempakAssumption`), any number of calls and of cuts:

* `MempakNotesIntact`: `MempakSpec => []NotesIntact`.
* `MempakNothingLost`: `MempakSpec => []NothingLost`.

`NotesIntact` is about the card as it is; what a later chunk will do to it depends
on those still to be written. So the invariant (`MempakInv`) is about every card
that the present one becomes when the writing of `todo` stops after some number of
chunks, the next one spoilt or not (`StoppedAt`): each is `Sound` for the notes
clients count on, and the one where everything is written is `Sound` for those the
call leaves (`op`). Writing a chunk or cutting the call short then only makes the
set of such cards smaller (`WriteStep`, `CutStep`), and each call has to show once,
when it begins, where its writing may stop (`FormatStops`, `WriteStops`,
`DeleteStops`) and that the card is sound there. `Sound` gives every note on the
card a list of blocks of its own, no two with a block in common, and asks every
half of a table that is not spoilt to link that list (`Agree`), whether or not the
table is valid: two halves from different writings can add up to a right checksum,
and then the table is still right for every note there is. `Settled` is what holds
besides while no call has failed: a block is free exactly if it is in no list. That
`Walk` follows a list to its end (`WalkIsList`) and that the search links the blocks
it takes (`AllocatedFacts`) rest on the least-number principle, that a name is read
as it was written (`NameKept`) on the code page being one-to-one (`CharacterKept`).

The third part of `LibdragonProofs` proves, for tables, stacks and images of any
size, sectors of any length, any filesystems and any numbers to read and seek by:

* `NumbersKept`: `FilesSpec => []NumbersHold`.
* `PathsFound`: `FilesSpec => []PathsLead`.

`ImageAssumption` and `DragonFsAssumption` say that the image is a tree: every entry
is in one directory, each directory ends, and no name is in one twice.
`FilesAssumption` says how paths are spelled. Both properties are about trees that
the stack is deep enough for (`StackSuffices`); in others they may fail (see above).

The invariant (`FilesInv`) has a part for the tables and one for each client.
`TablesOK`: the tables tell their numbers and handles apart, none is one still to be given out, a prefix is attached
once, every place is in its file and the copied sector is the one that is named.
It holds for every client (`TablesStep`), and for that the walk is shown
to keep a stack of entries no deeper than its limit, whatever the path (`WalkType`).
`PictureOK`: each number open in the picture `Refers` to one slot of `handles`, in
a filesystem still attached, and through it to one open file, that is the picture's
file at the picture's place; and every open file has such a number. The converse
is what makes a closed number lead nowhere (`UnopenedFacts`) and the table full
exactly when the picture is (`RoomFacts`, by counting both ways); it needs handles
to be unique over all calls, because slots of `handles` outlive what they stood for.
There is a lemma for each call (`OpenHolds` to `AttachHolds`).

For the client that explores directories, `PlaceOK`: the stack holds, from the root
on, the first entries of directories each of which is in the one before, and the
last is the picture's (`StackOf`); and what is still to be listed is what follows
the code's next entry. `WalkerPicture` is `PictureOK` for files opened by number or
by handle. That walks end where names lead (`WalkEnds`) compares two recursions of
different length, the code's over tokens and the picture's over names and slashes:
the state after `n` tokens `Follows` some later place `k >= n` in the path
(`TokenFollows`), found at its end by stepping up (`Upward`). `..` is where the two
differ most, one popping a stack and the other asking for the directory the
directory is in (`StackOfParent`); `StackRoom` derives from the levels of
`StackSuffices` that there is always room for one entry more. That the first entry with
a name is the only one (`NamedFacts`) follows from the tree.

`SdInitProofs` proves, for every `wait_max`, every set of cards and faults and
any number of restarts:

* `IdentifiedRight`: `Spec => []ReadyMeansKnown`.
* `IdentifiedSlowly`: `Spec => []SlowIdentification`.

`ReadyMeansKnown` speaks of the end of `diskInit`; the invariant follows what the
code knows up to there. `AnswerInv`: what is in `sd_resp_buff` came from the card
that is in. `TypeInv`: what `disk_card_type` has come to say at each stage of the
path. `FlagInv`: what the flags that survived a restart say of a card that is
*selected* (of any other they may say anything, it will not answer the probe).
`LoopInv` and `SpeedInv` are the bounds of the loops and the clock.

`FatFileProofs` proves, for every size of cluster, FAT sector and call, and any
volumes `VolumeAssumption` allows (chains that are long enough for the file,
without a repetition; a file of no sectors has no cluster and is not opened here):

* `PositionRight`: `Spec => []InPlace`.
* `ImplementsReader`: `NarrowClusters => (Spec => ReaderSpec)`.

`Inv` says, inside calls as between them and until one fails, that the sectors
passed, those still to pass and those available are the file (`InFile`), that
the position is that of the next sector or, while the chain is followed, the
last cluster's (`Placed`), and that the FAT sector in the buffer is the one the
index names (`CacheInv`). `Filled` adds where a read has written. The lemmas are
about quotients and remainders: a chunk never crosses a cluster.
`NarrowClusters` is what keeps `(u16)(512 * len)` from being 0 for reads into
RAM; without it the refinement is false (see above), `InPlace` is not.

`FatDirProofs` proves, for every geometry, tree, table size and path:

* `RecordsDecodedInPlace`: `Spec => []BufferIsCurrent`.
* `FileFound`: `Spec => []FindsTheFile`.

`IInv` follows a location from where the directory is scanned, through the table
(`TableInv`) and the call of `FatReadRecord` (`RecordInv`), to where it is decoded,
as the location of a record of some directory of this volume (`DirRecord`), so
that the sector it stands for is behind `data_entry`: the first sectors of the
disk, which the buffer holds after mounting (`MountInv`), are never taken for a
directory's, and its place is computed without wrapping round (`DirBounds`).
What a step along the chain finds is what the volume has as long as the card has
not failed (`EntryFacts`). `VolumeAssumption` says what a formatted disk has: no two directories
share a cluster, a boot record that is a directory names a directory's cluster,
and the data of a FAT32 volume begin where its boot sector says, behind at least
one reserved sector.

`FindInv`, on top of it, says how far a search has come. It numbers the records of
a directory as if they lay in one piece; that the code's steps from a sector to
the next, along the chain, are steps from number to number is the first half of
the lemmas (`SectorRecords`, `SectorAfter`, `RecordAfter`). Of a directory being
scanned (`ScanAt`): the entries among the first `q` records are in the table in
their order (`Lists`), and `skip` says whether a long name has begun. Of the
entries being tried (`TryInv`): none before the `i`-th has the name, and the
reading of the `i`-th (`ReadingOf`) is at a piece of its name or at its own record,
which is why it never meets a deleted record or the end of the chain. `Lookup` is
a recursive function; that there is one, and what its steps are (`LookupSteps`), is
derived from the least-number principle, since the library's induction takes an
operator. `RecsPerSec > 1` (it is 16) makes every location greater than 2, which
`fatOpenDir` takes for the root (`src/fat.c:511`).

`BootProofs` proves, for every size of ROM space, test, fill and file, and any
number of restarts and blocks from the host:

* `RegistersAnswer`, `ClosedWhenStarted`, `LoadedWhenStarted`, `ErrorsNamed`:
  `[]RegistersUsable`, `[]StreamClosed`, `[]StartsLoaded`, `[]MessageFits`.
* `FlagsKept`: `Spec => KeepsFlags`, where `MayClear` names for each step the flags
  it is there to clear.

The invariant has a part for each. `FpgaInv`: from the tests on, the FPGA is
loaded and unlocked, and if it is not, the tests have already failed.
`CardInv`: where `disk_mode` must be NOP, and that it says so when the card is
sending. `RomInv`: what has been loaded and filled, kept until the start.
`CfgInv`: from `BiBootCfgGet` on the copy has every flag the register has, which
is why writing it back loses none.

`RenderProofs` proves, for rings and commands of any length `RdpAssumption` allows:

* `BufferOwned`, `RefusalsJustified`: `[]HeldAlone`, `[]RefusedOnlyWhenFull`.
* `RingNotOvertaken`, `FramesWhole`: `NoOtherSync => (Spec => []...)` of
  `ReadsWhatWasQueued` and `WholeFrames`.

The display needs `Screen`, `Owners` and `Search`: what the critical section
keeps still while the search compares. The ring needs to know where the RDP's
unread units lie: at most two runs, the later behind the earlier or at the
ring's beginning, with the processor's own units elsewhere. `WholeFrames` needs in
addition that the last of the RDP's commands is the synchronisation the client
waits for, which is where `NoOtherSync` comes in: a client that calls
`rdp_sync(SYNC_FULL)` breaks it, which is finding 2.

`PartsProofs` proves, for rings of any size, any finite number of timers, and
blocks and commands of any length:

* `ImplementsQueue`: `Spec => QueueSpec`.
* `BlocksMoved`: `Spec => []BlocksInOrder`.
* `AlarmSet`: `Spec => []AlwaysArmed`, for intervals of at least one tick.
* `EarlyOnlyByTheCounter`: `Spec => EarlyByTheCounter`.

`Parts` runs one of the three, and so `Inv` has an implication for each. Of the
ring (`Ring`), in a session that is not astray: the full buffers are the ones behind the one that plays, up to the
one written last; the queue of the refinement is read off it. Of the link
(`UsbBlocks`, `UsbSent`): at each control point, which block is coming in and which
units of it are in the FPGA's buffer. Of the timers: no timer's time, seen from
the start of the walk, is behind the alarm (`Alarm`), and what a timer has left is
no less than it owes, up to what the counter showed (`Owing`); `TimersTypeOK`
bounds the count by `Far + 2 * Latency`, a call and the handler behind it. That
finitely many timers have a smallest rests on the least-number principle, which
is derived from the library's well-founded sets (`LeastNumber`, `Least`).

Every assumption above is an `ASSUME` that TLC evaluates on the instances of the
runs. The inductive invariants hold on those instances too: TLC checks them,
except that the one of `PartsProofs` quantifies over `Nat` in `UsbSent`, for which
`0 .. 20` was put, and has a type of `moved` (numbers and blocks) that TLC does
not compare; and `MempakInv` quantifies over all cards and all lists, for which
the cards that `StoppedAt` allows and the lists of at most three blocks were put.

Model-checked only: every liveness property (`EveryCallReturns`, `InitReturns`,
`SearchEnds`, `BootEnds`, `CallsReturn`, `EveryChunkIsSent`, `EveryTimerFires`),
which the prover does not reach. Every safety property of a passing run is proved.

## Plan

Order: what carries the boot first, then what a user or a host can disturb, then
the concurrent code of libdragon.

1. done: `SdStream`, `SectorDevice`; `SdInit`; `FatFile`, `FileReader`; `FatDir`
   with the mount; `Boot`; `Interrupts`; `Display`, `Rdp` and `Render`; `Audio`,
   `Timers`, `UsbLink`; `Mempak`; `DragonFs`, `Newlib` and `Files`.
2. Proofs, done: those above, for every safety property of the runs.

## Not modelled

* `crc7`, `sdCrc16` and the framing of commands: pure functions of bytes. A
  command is one step with what may become of it on the wires.
* `sys.c`, `gfx.c`, `str.c`, `graphics.c`, `console.c`: copies, glyphs, pixels and
  wording, with waits for a device that the modules above have where it matters.
* I2C, the clock chip and the loading of FPGAs (`bios.c`): each call is complete
  in itself, and what it promises lies in the devices' timing. The result of
  loading is in `Boot`.
* `controller.c`: one exchange with the SI per call and two copies of its result.
* The copies of `REG_SYS_CFG` and `REG_SD_CFG`: each store writes both copy and
  register, and nothing but the next store reads the copy.
* Within modelled parts, what each section above names as left out.

Not planned: the bits on the SD and I2C wires, the pixel and glyph code, the
assembly of `boot_simulator` and the startup files: they are straight-line code
or timing below the model's grain.
