# sdloader in TLA+

`sdloader` is the program a modchip puts in the place of the first-stage boot
loader of a Nintendo Switch. It runs alone on the boot processor (BPMP), with no
operating system, one thread and no interrupts that matter here. It looks for
`payload.bin` on the SD card and on three areas of the eMMC, loads it and jumps to
it. When there is none, or a volume button is held, it shows a menu: try again, a
toolbox that talks to the modchip through the eMMC boot partition BOOT0, a USB
mass storage mode that exports the storages to a PC, the stock firmware, reboot,
power off.

This directory models the parts of it whose correctness depends on a long
sequence of steps: block access with its retries and reinitialisations, the orders
and images left for the modchip, the menus that guard them, the search for and the
launch of a payload, the USB mass storage mode from its menu over its transfers down
to the rings of the device controller. TLC
checks the models on small instances; TLAPS proves the central invariants for every
size.

- [1. The system](#1-the-system): components, state, operations, interactions
- [2. The modules](#2-the-modules): what models what, and the abstractions made
- [3. The runs](#3-the-runs): what each shows, bounds, fairness, seeded faults
- [4. Where the code disagrees with its comments](#4-where-the-code-disagrees-with-its-comments)
- [5. The proofs](#5-the-proofs)
- [6. Not modelled](#6-not-modelled)
- [7. Plan](#7-plan)

## 1. The system

### Components

| Component | Source | State it keeps | Operations |
|---|---|---|---|
| Block access to the eMMC | `sdloader/storage/diskio.c`, `bdk/storage/emmc.c`, `bdk/storage/sdmmc.c` | `emmc_mode`, `emmc_storage` (`initialized`, `partition`), the partition the card has selected | `disk_initialize`, `disk_read`, `disk_write`, `emmc_initialize`, `emmc_set_partition`, `emmc_end` |
| SD card | `bdk/storage/sd.c` | `sd_mode`, `sd_storage.initialized`, `sd_init_done`, `insertion_event` | `sd_initialize`, `sd_init_retry`, `sd_end`, transfers |
| Modchip interface | `sdloader/modchip.c` | none of its own; sectors of BOOT0, `SDMMC_UPPER_BUFFER` | reset, rollback, firmware / boot loader / IPL update, read and write settings, read descriptor |
| Toolbox | `sdloader/modchip_toolbox.c` | `command_pending`, `disabled` flags of entries, `temp_cfg` | the entries of four menus |
| Program and menu | `sdloader/main.c` | `sdloader_cfg`, `payload_ctx` | `get_cfg`, buttons, `load_payload`, `read_payload`, `launch_payload`, `deinit`, the menu's callbacks |
| Files | `sdloader/files.c` | `cur_drive`, `fs` | `mount_drive`, `unmount_drive`, `open_file_on`, `open_file_on_any` |
| FatFs | `bdk/libs/fatfs/ff.c` (vendored) | `FatFs[]`, `fs.fs_type`, the sector window | `f_mount`, `f_open`, `f_read` |
| USB mass storage menu | `sdloader/ums.c` | volumes, partition tables, selections | `init_ums_cfg`, reload, start, the selector of numbers |
| USB mass storage gadget | `bdk/usb/usb_gadget_ums.c` | the SCSI state machine, two buffers, exceptions | one command block after the other, until ejected |
| USB device controllers | `bdk/usb/xusbd.c` (`usbd.c` is not used) | `usbd_xotg`: a ring of requests (TRBs) for each endpoint and one of events, their pointers and cycle bits, `device_state`, `tx_count`, `wait_for_event_trb`, `ctrl_seq_num` | enumerate, answer requests on endpoint 0, post and wait for transfers |
| Text menus, buttons | `sdloader/gfx/tui.c`, `bdk/utils/btn.c` | selection, time-out | `menu_start`, `btn_wait_*` |
| Relocator, loader | `sdloader/loader.c`, `sdloader/startup.c`, `loader/main.c` | - | copy and decrypt, once |

### How they interact

Everything is a synchronous call on one thread. The interactions that make it hard
go through shared state rather than through calls:

- **The card has a selected partition, the driver has a record of it.**
  `ensure_partition` skips the switch when the record matches. A failed switch, a
  failed status check after a switch, and a reinitialisation each change one
  without the other, or both.
- **A transfer may reinitialise the card beneath itself.** After the retries are
  used up, `_sdmmc_storage_readwrite` ends the storage, brings it up (at a
  lower speed the second time) and starts the request again. That resets the
  partition to the user area, and reads `ext_csd` into `SDMMC_UPPER_BUFFER`, the
  very memory in which `modchip.c` keeps images and `main.c` a payload.
- **Two speed ladders** (`emmc_mode`, `sd_mode`) outlive the calls that walk down
  them. They are unsigned, 0 means "used up", and several callers decrement them.
- **BOOT0 is a mailbox.** A command shares its sector with boot data, the settings
  share theirs with the modchip's descriptor, and images lie between. The modchip
  reads them at the next power-up; power may go at any moment.
- **`command_pending`** is a flag in memory that stands for an order on the card.
- **`cur_drive` and FatFs both believe in a mount** that a USB session, a swapped
  card or `sd_end` do not tell them about.
- **The settings of a USB volume outlive its partition table.** The table is read at
  each visit of the volume's menu and dropped on leaving; mode, partition index,
  offset and size stay, and meet the table of another card on the next visit.
- **The driver of the controller has no thread of its own.** Events of endpoint 0 and of
  the bulk endpoints come in on one ring and are handled by whichever wait happens to
  run (`_xusb_ep_operation`): a transfer of the gadget answers a SETUP, an answer on
  endpoint 0 ends the wait for a transfer. Who owns an entry of a ring is told by one
  bit, whose meaning turns over each time around.
- **The gadget, the controller and the host run side by side.** The controller moves
  data while the storage fills the other buffer; a transfer whose wait timed out
  stays on its ring, and its late completion is counted for the next transfer; the
  host may stop, reset or unplug between any two steps.

### What makes each part correct

| Part | Must hold | Where |
|---|---|---|
| Block access | a call with no fault moves exactly the sectors of the drive asked for; a call that reports success has moved all; driver and card agree on the partition unless something failed; ladder not below 0; calls return | `EmmcDisk`, `DiskContract` |
| SD card | ladder not below 0; success means a card that is up; `sd_end` revives a used-up ladder; calls return | `SdCard` |
| Modchip interface | boot data kept; success reported only when the order is on the card; operations end | `Modchip` |
| Toolbox | no order on the card without its image; an order locks what could overwrite it; images fit; settings in use are those stored | `Toolbox` |
| Program, files | the mount cache is sound; only a whole file that fits is launched, from the drive chosen or the first in the order of drives; searches end | `Boot` |
| USB menu | the exported range is within the volume, a partition is exported as the table has it; a start without volumes is not offered; the number selector ends; the menu stands on an enabled entry | `UmsMenu` |
| USB controller | each request posted is carried out once and in order, each event handled once, around any ring; what the host asks is answered; success means the transfer is over; the session starts with a host that knows the volumes | `TrbRing`, `Xusbd` |
| USB gadget | an answer tells the host what was moved; nothing is stored but what was sent for that place; a reset is not lost; every command is answered; the session ends | `UmsGadget` |

Every hazard known to us is listed in `PROJECT.json`, with its line and the properties
that cover it, or the part of it that no property covers and why.

## 2. The modules

```
DiskTypes ---- DiskContract <--- implements --- EmmcDisk --- EmmcDiskProofs
    |               |                               |
    |               | INSTANCE                  MCEmmcDisk
    |               |
    +----------- Modchip --- ModchipProofs          SdCard --- SdCardProofs
                  |   |            |
          MCModchip  Toolbox -- ToolboxProofs       Boot --- BootProofs
                      |                              |
                  MCToolbox                        MCBoot

UmsMenu --- UmsMenuProofs         UmsGadget --- UmsGadgetProofs
    |                                 |
MCUmsMenu                         MCUmsGadget

TrbRing --- Xusbd --- XusbdProofs
              |
           MCXusbd
```

### DiskTypes

Drives, partitions, sectors, memory cells, the requests a client can make, and the
assumptions on their sizes. A sector's content is an element of `Data`; memory is a
row of sector-sized cells starting at `SDMMC_UPPER_BUFFER`, and cell 0 is where an
initialisation reads `ext_csd`. `BootShift` is the offset of `BOOT1_1MB`.

### DiskContract, the abstract specification

What a client of `diskio.c` may assume, each call one atomic step `Finish(r, ok,
clean)`. `clean` is a history value: no fault of the card touched the call. Clean
successes are exact. Without `clean`, a successful call may have worked on
another partition, or have restarted in the user area with cell 0 damaged; a failed
one may have moved a part. What it never allows, with any fault: a success that
moved fewer sectors than asked, a change outside the request's sectors (of some
partition) or cells (other than cell 0), a successful write to a drive other than
BOOT0.

### EmmcDisk

| Definition | Code |
|---|---|
| `Call`, `Entry`, `FromTop` | entry of `disk_*` and `emmc_initialize` (which takes back a used-up ladder) |
| `EnsurePartition`, `NeedsSwitch`, `SwitchPartition` | `ensure_partition`, `emmc_set_partition`, `sdmmc_storage_set_mmc_partition` |
| `CheckRequest` | the early returns of `disk_write` and `_sdmmc_storage_readwrite` |
| `AttemptOk`, `AttemptFail` | one pass of the retry loop; after a failure any prefix of the chunk may have moved |
| `Reinit`, `StorageEnd` | the two branches after the last retry, `sdmmc_storage_end` |
| `InitOk`, `InitFail`, `InitExhausted` | `sdmmc_storage_init_mmc` within `emmc_init_retry`, from the ladder of `emmc_initialize` or alone |
| `SetPartition` | second half of `disk_initialize` |
| `EmmcEnd` | `emmc_end` |

The program counter `pc` is where the call is, `req` its arguments, `pos`,
`retries` and `first` its locals. The card is the environment: every command may
fail. One initialisation is one step: its inside (dozens of commands, tuning) shows
to the caller only by its result, the zeroed storage and the scribbled cell.
`media0`, `cells0`, `clean` and `last` are history: the client's view, which changes
only when a call returns, and with which `ImplementsContract` instantiates
`DiskContract`.

### SdCard

The SD ladder with a card that the user inserts and removes between any two steps.
A round of attempts at a transfer is one step here (`EmmcDisk` has them singly).
`Laddered` tells the loop of `sd_initialize` from a bare `sd_init_retry`.

### Modchip

Every operation of `modchip.c` as the sequence of its calls, with the memory it
prepares in between; each call is a `Disk!Finish` step of the contract. Composing
with the contract rather than the engine is what keeps it within TLC's reach, and
`ImplementsContract` is what licenses it. A sector is two halves, as the command and
the descriptor are at offset 0 and the settings at 0x100. `Chunked`, `Piece`,
`Count` and `Sectors` keep the code's arithmetic in bytes. `Reboot` is a loss of
power at any point, a write in progress being torn at any sector, followed by the
modchip acting on what it finds (`Applied`; external, from the comments of
`modchip.h` and from what the code expects).

`Half` is what half a sector can hold: settings, a descriptor, a command with its two
operands, a piece of an image, the rest of the boot data, or nothing of interest.
`SectorAssumption` says that a sector is two of them, which only fixes the vocabulary, as
`Half` has a value for whatever else is there. `PowerOnAssumption` is a card on which
the modchip has carried out and cleared any command: sdloader itself only runs after
the modchip has, and nothing the code does relies on an order left from before it.

### Toolbox

The menus over `Modchip`: `locked` and `used` are the `disabled` flags that the
callbacks set and `toolbox()` rebuilds from `command_pending` (`FreshLock`).
`BootRead` and `BootCfg` are `get_cfg` at start-up, since the settings menu edits
what it read. A menu's selectable entries may be chosen in any order.

### Boot

From reset to launch: buttons, the search (`mount`, `open`, `read` for each drive),
the menu with its callbacks, the toolbox as far as it opens files, the USB mode as
far as it rewrites drives and ends storages, card swaps. `disk[d]` is the file
system of a drive and the version of its `payload.bin`; `fs.dir` is the directory
sector in FatFs' window, which a later open may use without asking the device, and
`fs.drv` the drive that window belongs to, from which every read goes: `cur_drive` only
decides whether `mount_drive` mounts (`Mounted`), which is what `SelectedDrive` is about.
`Mixed` marks a file read through an old directory entry from new contents.

`touched` is history: the drives that were rewritten, ended or swapped since they were
last mounted. It is what the promises about files have to leave out, because
`mount_drive` trusts `cur_drive`. `AutomaticOrder` leaves out such a drive even if it has
a payload now: its old directory entry is looked at, has none, and the search passes
over it. That takes a search that ends on the drive, a session that brings the payload
and a second search, four visits of the menu.

### UmsMenu

| Definition | Code |
|---|---|
| `Fresh`, `Open`, `Reload` | `init_ums_cfg`: all cleared, both storages tried; the reload entry |
| `Visit` | `config_volume_cb`: `volume_load_part_table` and the updates after it |
| `SizeUpdate`, `PartUpdate`, `ModeUpdate`, `Greyed`, `VolumeUpdate` | the chain `config_mount_mode_update` ... `config_size_update`, `config_volume_update` |
| `CycleMount`, `ToggleMode`, `NextPart` | `config_mount_mode_cb`, `config_mode_cb`, `config_part_cb` |
| `Select`, `Turn`, `Higher`, `Lower`, `Accept` | `config_offset_cb`, `config_size_cb`, the number selector |
| `First`, `Steps`, `Navigate` | the walk of `tui.c` over entries that may be disabled |
| `Start`, `SessionEnds` | the session, as far as the menu sees it |

A `u32` is a word of `Digits` digits in base `Base`; subtraction wraps, and the
selector works on those digits. `Lower` is the code's loop as the first of the values
it passes that fits; when none fits the menu is "hung". `seen` is the partition table
read last, which the code frees on leaving the menu: the model keeps it to say which
table the settings came from. `settled` is history: since the menu was loaded every
reading of the volume succeeded and found the same disk. `Swap` changes the card at
any time. The parts of a table beyond its last entry read as zero, and `n_parts` is
the number of entries of a GPT but the index of the last entry of an MBR, as in the
code: an MBR with one partition has none to choose.

### UmsGadget

| Definition | Code |
|---|---|
| `PostOut`, `PostIn`, `Handled`, `EpOperation`, `HandleEvent`, `TimeOut` | `xusb_device_ep1_*`, `_xusb_ep_operation`, `_xusb_handle_transfer_event` |
| `HandleException`, `Raised`, `Ep0` | `_handle_exception`, `raise_exception`, `_handle_ep0_ctrl` |
| `GetCommand`, `NoneReceived`, `Received`, `Switched` | `_get_next_command`, `_received_cbw`, `_scsi_command` and its checks |
| `ReadPastEnd`, `ReadAccess`, `ReadSent` | `_scsi_read`, with its two buffers |
| `WriteAsk`, `Filled`, `WritePastEnd`, `WriteStuck` | `_scsi_write` |
| `FinishNothing` ... `FinishDiscard`, `Pad`, `Replied` | `_finish_reply`, `_pad_with_zeros`, `_throw_away_data` |
| `Answer`, `StatusOver` | `_send_status` |
| `SendCommand`, `SendData`, `TakeData`, `TakeStatus`, `StopEarly`, `BulkReset`, `Sleep` | the host (external) |

`pc` is the statement that waits or comes next; a wait is over when `tx_count` is 0 or
an event was an error. `outq` and `inq` are the rings, in order, and `events` what the
controller has reported. The two 32K buffers are four sectors, each with what it
holds: sector `i` of a volume, data of a command, a command block, a status, zeros. A
sector counts 2, so that what is shorter than a packet (a command block, a status, a
short reply) counts 1. The host is an ordinary mass storage driver: one command at a
time, its data, its status, a reset when lost. `host.good` and `host.astray` record
what reached it, and the disk, rightly and wrongly.

Four places where the code can go where nothing was meant to go are ends of the model.
The first three are no ends of a session: `SessionEnds` names them, with what leads there,
as ways out of it (`Looping`, `Overrun`, `NoVolume`).

- "hung": `_scsi_write` (`usb_gadget_ums.c:614`) loops for ever when the last transfer
  of a write crosses the end of the volume: all was asked for, less was stored, and
  the next pass finds nothing to ask for and nothing past the end.
- "overrun": a refused write of more than 32K is discarded with one transfer of up to
  64K into the 32K OUT buffer, and a reply is padded past the IN buffer likewise.
- "astray": an exception before the first command uses the volume index 16, past the
  volumes.
- "lost" (of the host): the device sent what the host cannot take for an answer.

Also seen in it: the padding of a read past the end zeroes a buffer that may still be
in flight; the wait between the two buffers of a read has no time-out; the results
of `set_mmc_partition` and of transfers to the host are not looked at; the command
after a reset is dropped.

Two things of the endpoints are left to `Xusbd`. The host takes a transfer whole, so that
the error of a transfer to the host with a rest, which `HandleEvent` has, does not come up.
And `PostIn` posts one transfer: the empty one that follows a write of exactly one packet
without a wait (`xusbd.c:2127`) could follow only a piece of a read that the end of the
volume cuts to one packet, and the properties speak of commands inside their volume
(`Inside`), as far as they speak of reads.

### TrbRing and Xusbd

`TrbRing` is a ring of requests as a data structure: the cycle bits in memory, the
driver's `enq`, `pcs` (producer cycle) and `deq`, and the controller's `at` and `ccs`.
The link in the last slot gets its cycle when the driver passes it, and turns over the
cycle of both. `Agrees(r, posted, done)` says what the bits mean: the controller has
the next `posted` requests and no other, the driver is `done` behind.

`Xusbd` has one such ring for endpoint 0 and for each bulk endpoint, and the ring of
events, which is two segments one after the other with no link.

| Definition | Code |
|---|---|
| `Init` | `xusb_device_init`, `_xusb_ep_init_context` |
| `Queued`, `Posted`, `Start` | `_xusb_queue_trb`, `xusb_device_ep1_*` |
| `IssueData`, `IssueStatus` | `_xusb_issue_data_trb`, `_xusb_issue_status_trb`, which post nothing while another request waits for its event |
| `Poll`, `Handled`, `Advance`, `Acknowledge`, `TimeOut` | `_xusb_ep_operation`: the interrupt, the loop up to the `event_enqueue_ptr` read before it, ERDP |
| `HandlePort`, `HandleControl`, `HandleBulk`, `Completed`, `HandleSetup` | the handlers it calls, with the completion codes (`Codes`) by what is done about them; one action for each kind of SETUP by what is done about it |
| `Enumerated`, `Waiting`, `EnumerationFailed`, `LunAsked` | `xusb_device_enumerate`, `xusb_device_class_send_max_lun` |
| `Transfer`, `StartWrite`, `Finish`, `TransferReturns`, `TakeReset`, `End` | the calls of the gadget in a session |
| `Report`, `Carry*`, `Ask*`, `Enumerate`, `SeeStall`, `Abandon`, `PortReset` | controller and host (external) |

`asked` and `events` are ghosts: what was posted, in order, and not carried out, and
what was reported and not handled. The driver never looks at them except for what an
event says; whether there is one it decides by the cycle bit, as the code does.
`gaveUp` and `upsets` are history.

Assumed of the controller, from what the code relies on: it carries out a request
whose cycle is its own, and passes a link likewise; it reports each with an event and
waits while the ring is full up to ERDP; it signals when an event arrives and the
handler is not busy (EHB), and again after ERDP is written while events are left; it
reports a request of an older SETUP as an error of its sequence number; endpoint 0
works on after the configuration is removed. Of the host: it asks one thing at a time,
waits for data and status or the stall, enumerates in order, and uses the bulk
endpoints when configured. `Upsets` names what may go wrong: it gives up a request,
resets the port, removes the configuration, resets mass storage; and a transfer fails
(`Failures`): the host sends too much ("babble", which halts the endpoint until the halt
is cleared), a transfer to it leaves a "residue" (counted down, and an error), or there is
any other "error" (neither counted nor halted). On endpoint 0 the only failure is that of
an older SETUP. A port event may end in the error of its configuration ("port").

`UmsGadget` stands on its own abstraction of the bulk endpoints (requests in order, and
their events), which is what `ControlRingSound`, `BulkRingsSound` and `EventsAgree`
say the rings amount to.

### Seeded faults

A definition named `X_Y` placed before `X` (for instance `NeedsSwitch_DefaultOnly`
before `NeedsSwitch`) is the same step with a plausible bug. No action uses it.
Replacing `X` by it must make a named property fail: `PROJECT.json` lists the pair
for each property, which shows that the property is able to fail.

## 3. The runs

| Run | Instance | Distinct states | Shows |
|---|---|---|---|
| `emmc` | 2 sectors, 2 cells, chunks of 1, 2 attempts then 1, ladder of 2, 3 calls | 207,787 | types, `AddressedPartition`, `ReinitKeepsTrack`, `ImplementsContract`, `CallsReturn` |
| `emmc_boot0_only` | same, 2 calls | - | counterexample to `OnlyBoot0Written` |
| `modchip` | 4 sectors of 2 "bytes", 2 cells, 2 operations, 1 fault | 547,657 | `BootDataKept`, `ReportedSent`, `OperationsEnd` |
| `modchip_reset` | 5 sectors | - | counterexample to `ResetIssued` |
| `toolbox` | 4 sectors, 4 operations, no fault | 909,752 | `ImageUnderOrder`, `OrderLocks`, `ImageFits`, `SettingsCoherent` |
| `toolbox_sent` | same | - | counterexample to `SentImageWhole` |
| `boot` | 2 sets of drives, 4 visits to menu entries | 2,109,474 | `MountCacheSound`, `LaunchWhole`, `AutomaticOrder`, `SelectedDrive`, `SearchEnds` |
| `sd` | the real ladder of 4, 5 calls, 4 insertions or removals | 12,028 | types, `SuccessIsUp`, `EndRevives`, `CallsReturn` |
| `ums_menu` | words of 2 digits in base 3, 2 volumes, 2 cards, 1 change of the card | 1,327,448 | types, `ExportFits`, `PartExported`, `PartsToStep`, `StartHasVolume`, `SelectorBounded`, `CursorLive` |
| `ums_gadget` | 2 volumes, 11 commands, 1 upset of three kinds | 841,526 | `AnswersTrue`, `NothingAstray`, `ResetKept`, `Answered`, `SessionEnds` |
| `xusbd` | IN endpoint, rings of 4 slots, events in 2 + 2, 3 sequence numbers, writes of one and two requests, 2 upsets of six kinds | 3,788,067 | `ControlRingSound`, `BulkRingsSound`, `EventsAgree`, `LunTold`, `OkMeansDone` |
| `xusbd_live` | OUT endpoint, rings of 3 slots, events in 2 + 2, 2 sequence numbers, any requests, one transfer at a time, which may babble | 408,476 | `Answered`, `Started` |

Every module has a `TypeOK`. The runs of `Modchip`, `Toolbox`, `Boot`, `UmsGadget` and
`Xusbd` leave it out to save their time for the rest, as they do `LadderNeverWraps` and
`ModeNeverWraps`, which follow from the ranges of the types; adding the line `INVARIANT
TypeOK` to their `.cfg` checks it.

To repeat one: `tlc -config MCEmmcDisk.cfg MCEmmcDisk`.

### The bounds, and why they are enough

- `MaxCalls`, `MaxOps`, `MaxVisits`, `MaxMoves` bound how often a client, the user
  or the environment acts. Three block calls are enough to set up a wrong partition
  record, use it and see the effect; two modchip operations are an operation and one
  that meets what it left; four toolbox operations fit "read the settings, order,
  leave, come back, save or order again"; five SD calls fit "use up, end, start".
- A card of 2 sectors with chunks of 1 has transfers of one chunk, of two, and
  ranges that do not start at 0. With `BootShift = 1` the shifted drive differs from
  the unshifted one. Two attempts, then one, are the least that keep "retry",
  "last retry" and "fewer after a reinitialisation" apart; a ladder of 2 has a top,
  a step down and the end. The proofs remove these bounds for the invariants.
- `Modchip` needs 4 sectors for command, image start, IPL start and settings in
  their order, and a buffer of 2 so that images smaller than, equal to and larger
  than the buffer exist (up to 6 bytes against 4). `modchip_reset`
  has one sector more. The proofs of `Modchip` and `Toolbox` are for any sizes, any
  number of operations and any faults.
- `toolbox` excludes faults (`MaxFaults = 0`): its properties speak of a sound
  card. Refusals and short files, which are not faults, still happen. What faults do
  to one operation is in `modchip`.
- `boot` starts from a payload on the last drive behind empty file systems, and from one
  that is too large in front of one that fits; what the host writes and the cards that
  are swapped in bring drives without a file system, without a payload and with another
  version. Four visits are the fewest in which an old directory entry hides a payload
  from a search (see `AutomaticOrder`). The proofs remove these bounds.
- `ums_menu`: nine words are enough for a value that wraps, for two digits of which
  the higher bounds the lower, and for a digit that is not at its end. A GPT card of 7
  sectors with two partitions, an MBR card of 2 sectors whose partitions overlap, a
  user area without a table and a boot partition are disks of all kinds; one change of
  the card makes settings of one meet the table of the other, or none. The proofs
  remove all these bounds.
- `ums_gadget`: the commands read and write over two buffers, in one, and past the
  end by a buffer and by a sector; the second volume is read-only and in another
  partition; a reply, `prevent` and two ejections. `Patience` is 4 where the code
  has 20: a command block counts 4 once all is ejected, so that one is still carried out
  after the last ejection and the next ends the session (in the code five, and the sixth).
  `Upsets` says what may go wrong (a storage fault, a host that stops
  early, a reset), and one of them happens in a behaviour. A port that sleeps and the
  buttons are not counted.

- `xusbd`: a ring of four slots has three for requests, an event ring of four is as
  long as the rings together can fill in a few steps, so that pointers pass the end
  of every ring, at different times, with requests outstanding and the producer, the
  link and the controller in either cycle; `xusbd_live` has the shortest rings there
  can be. Each run has one of the two bulk endpoints: writes to the host, which come in twos
  and have a finish, and reads from it, which can babble. `Seqs` is one more than the SETUPs that can be on the way at once (the code
  has 2^16). `Requests` and `Upsets` are split between the runs: what changes
  endpoints, with two things that go wrong; what is only answered, with a babble. Two
  guards are bounds: a transfer is started only when its ring has room, as the code
  never checks it and the gadget never has more than a few requests on 15 slots; and a
  wait for a transfer does not time out while its ring is full. The proofs remove the
  sizes of the rings, the number of sequence numbers and of upsets, and the choice of
  endpoints and requests.

All passing configurations have `CHECK_DEADLOCK FALSE`: clients and users stop at
their bounds, and a launched or powered-off program takes no step.

### Fairness

`FairSpec` adds weak fairness of `Work`, the steps of the processor: a call in
progress goes on as long as the program runs. That is all the code gives. Which of
its outcomes a step has is never under fairness (the card may fail for ever), and
neither a client, the user, the card slot nor the power owes a step. `CallsReturn`,
`OperationsEnd` and `SearchEnds` therefore rest on the retry and ladder counts in
the code and on nothing else.

`UmsGadget` has weak fairness of `Device`, the processor and the controller, and of
`Transport`, a host that goes on with a command it has sent: with a host that does
not, `Answered` is not the device's to give. Nobody owes a new command, a reset, a
button or a cable. A time-out while the host would serve the transfer is an upset
("pause"), so a wait ends by its event unless the host or the cable is gone.

`Xusbd` has weak fairness of `Driver`, the processor, whose waits are polls with a time
limit (all but that of a finish), and of `Control`, a host and a controller that go on
with what the host has asked. `Enumerate`, the next thing a host has to ask, is under
strong fairness: in between the host may ask other things any number of times, each of
which disables it for a while. No bulk transfer, no end of the session and no upset is
owed.

## 4. Where the code disagrees with its comments

The first three are counterexamples of runs:

1. **`OnlyBoot0Written`**: `diskio.c:144` says only BOOT0 is ever written. A write
   to BOOT0 whose retries are used up goes on after the reinitialisation
   (`sdmmc.c:315`) without selecting its partition, so it lands in the user area.
2. **`ResetIssued`**: `modchip.c:123` says a reset command is issued so that the
   modchip rewrites sdloader. `modchip_write_rst_cmd` (line 210) tests `DRESULT` the
   wrong way round: when the sector can be read it gives up with no command.
3. **`SentImageWhole`**: `modchip_toolbox.c:231` says the update was sent, reboot.
   The settings entry stays enabled, and Save (line 388) writes the last sector of
   a full-size image that has not been taken yet.

The next four are stated in the modules, but no run checks them; to see one, add it to the
configuration named:

4. **`LaunchCurrent`** (`INVARIANT` in `MCBoot.cfg`): `README.md:19` says the payload is
   loaded from `payload.bin` on the drive. `mount_drive` (`files.c:32`) keeps the mount
   after a USB session or a card swap, so an old directory sector can be used.
5. **`ThrownAway`** (`INVARIANT` in `MCUmsGadget.cfg`, with `Upsets = {"pause"}`):
   `usb_gadget_ums.c:1540` says excess data is thrown away. When the host pauses longer
   than the time-out, the transfer that discards it stays posted (`xusbd.c` has no flush,
   and line 1463 does not look at the result); its late completion counts for the next
   transfer, the discarded data is taken for the next command block, and a later write
   stores the wrong data.
6. **`BulkInitialized`** (`INVARIANT` in `MCXusbd.cfg`): `xusbd.c:1652` says the second
   SET_CONFIGURATION, after the configuration was removed or the port reset, initialises
   the bulk endpoints. `_xusb_ep_init_context` (line 696) puts the pointers and the cycle
   back, but leaves the ring as it is: entries posted before have the cycle the controller
   expects after it, and it carries them out again. This is why `BulkRingsSound` speaks of
   one configuration.
7. **`ControlCompleted`** (`PROPERTY` in `MCXusbdLive.cfg`): `xusbd.c:2024` says control
   requests are handled by the normal operation of the endpoints. `wait_for_event_trb` is
   one variable for all of them, and a transfer sets it to "normal" (line 1177): when the
   event of the data of a request comes after that, its status is never posted and the
   host waits in vain. `Answered` leaves that case out.

Noticed while reading, without a run: for a chunked update `modchip.c:169` computes
`size + (0x200 - 1) / 0x200` sectors, that is, one per byte, where `modchip.h:12`
gives the image area; the first reinitialisation of a transfer uses
the speed that has just failed (`sdmmc.c:277`, `:300`); `sd.c:105` is commented
"Reset to max." where nothing is reset; `disk_status` always answers 0, while
`mount_volume` (`ff.c:3430`) relies on it to notice a storage that is down; a read that the
end of the volume cuts to exactly one packet is followed by an empty packet
(`xusbd.c:2127`), which the host may take for the end of the data.

## 5. The proofs

Every theorem is for all values of the constants that satisfy the named assumptions of the
module, which hold of the code's own constants; none bounds a number of calls, operations,
visits, faults or moves of a card. A theorem that states
a property of a run has its name with `Holds`; for types it is `TypeCorrect` or `TypesHold`,
for `ImplementsContract` it is `ContractImplemented`.

| Module | Proved | Assuming |
|---|---|---|
| `EmmcDiskProofs` | `TypeOK`, `AddressedPartition`, `ReinitKeepsTrack`, `LadderNeverWraps`; `ImplementsContract` | `SizeAssumption`, `ContentAssumption`, `EngineAssumption` |
| `SdCardProofs` | `TypeOK`, `ModeNeverWraps`, `SuccessIsUp`, `EndRevives` | `SdAssumption` |
| `ModchipProofs` | types and `Position`, `BootDataKept`, `ReportedSent`, `Written` | those of `DiskTypes`, `LayoutAssumption`, `SectorAssumption`, `PowerOnAssumption` |
| `ToolboxProofs` | `ImageUnderOrder`, `OrderLocks`, `ImageFits`, `SettingsCoherent` | those of `Modchip` |
| `BootProofs` | `TypeOK`, `MountCacheSound`, `LaunchWhole`, `AutomaticOrder`, `SelectedDrive` | `BootAssumption` |
| `UmsMenuProofs` | every property of the run `ums_menu` | `UmsAssumption`, `PowerAssumption` |
| `XusbdProofs` | `TypeOK` and every property of the run `xusbd` | `SlotsAssumption`, `XusbdAssumption` |
| `UmsGadgetProofs` | `TypeOK` and every safety property of the run `ums_gadget`: `ResetKept`, `AnswersTrue`, `NothingAstray` | `GadgetAssumption` |

### Block access

The inductive invariant of the first four theorems is `IInv == ControlOK /\ DataOK /\ Flow`.
None of the properties is inductive: `AddressedPartition` speaks of "xfer" alone, and its reason
is earlier, in what `ensure_partition` compared and in `clean` recording that
nothing has failed since. `Tracking` carries that through the points before, and
says that a transfer that was reinitialised is no longer clean. `Locals` says which
requests can be at which point and that `pos < req.n` and `retries > 0` while
transferring, which the types need (a chunk stays within the request, `retries - 1`
within its range). `LadderNeverWraps` depends on `Locals` too: only a transfer
reaches "reinit". There is one lemma per action (`CallStep`, `InitOkStep`, ...), over
lemmas about the building blocks (`ChunkBound`, `MoveType`, `SwitchType`, ...).

`ContractImplemented == Spec => ImplementsContract` is the refinement of `DiskContract`: a
`Call` is its `Begin`, a step that returns is its `Finish` with the outcome the step
reports, and any other step changes nothing the contract sees. What has to be known for
the second is how far the call has come, which is `Effect`:

- `WriteEffect`: before the first reinitialisation the selected partition has the first
  `k` sectors of the request, with `k` no smaller than `pos` (a failed attempt may have
  stored more than is counted), and the buffer is as the client gave it. Afterwards cell 0
  may be scribbled, the rest goes to the user area, and what was stored before stays
  stored, in the partition it went to.
- `ReadEffect`: no sector is changed; each cell of the buffer holds what it held, a sector
  of the request from some partition, or the scribble; those before `pos` are exact; those
  outside the buffer are untouched, except cell 0 after a reinitialisation.
- `ControlEffect`, `Between`: other calls touch cell 0 at most; between calls nothing is
  pending.

`PutMore` is the lemma that makes `WriteEffect` inductive: storing sectors from a place
that was reached already only moves the end on.

### SD card

`SdCardProofs` does the same for the SD card, for any ladder and any number of
calls and card moves: `TypeCorrect`, `ModeNeverWrapsHolds`, `SuccessIsUpHolds`,
`EndRevivesHolds`. `Progress` says what the call in progress knows (a successful
`sd_init_retry` implies a speed and a card that is up, a transfer that is not at its
first reinitialisation has a speed). `Aftermath` says what the last call left: after
`sd_end` there is a speed, so the `sd_initialize` that follows has tried the card
before it can return.

### Modchip interface and toolbox

`ModchipProofs` stands on the contract: each call is a `Disk!Finish`, and lemmas such as
`SectorWrite` say what one does to the sector in question as long as no fault touched
a call. It has three layers.

- `Position`, with the types: an image is at a whole number of sectors, only a chunked
  update gets past its first piece, and what is not chunked fits the buffer. The lemmas
  about rounding (`SectorsBound`, `SectorsShift`, `PieceFacts`) show that no piece leaves its
  area or the buffer, for any sizes.
- `CommandInv`, for `BootDataKept` and `ReportedSent`: which command can be at which point
  (`Linked`: an update's own, unless its image failed; then a reset), that the buffer
  is ready for the sector that is written next (`Staged`), and that the sector has a
  command of this code or none (`KnownCommand`). `Staged` has the reason why the boot
  data survives: with a card that works, the buffer was read before it is patched, and the
  reset comes to its zeroed sector only after a read that was refused. Power may be lost
  anywhere, also inside a write; one of a single sector is torn before or after.
- `Written`: as much of the image as is counted is on the card, and the buffer holds the
  next piece; a command follows the whole image. `ImageBeforeCommand` states it as a theorem
  of its own, as it is the lemma that the toolbox rests on.

`ToolboxProofs` EXTENDS it. Every step of a menu is a step of `Modchip` or its
initialisation of the card (`ModchipSteps`), so the three layers carry over; on top,
`Screening` says which operation a screen waits for, `Locking` on which screens an order on
the card is known and its entries locked (not inductive without the screens
`OrderLocks` leaves out: the order gets there while the callback runs, and is known when
it returns), and `Saving` that the settings in use, or those about to be, are on the
card. `ImageUnderOrder` is inductive with these: after the order is out, only the settings
are written.

### Program and files

`MountCacheSound` is inductive with the types. The other three properties need what a
search knows:

- `AtMounted`, `AtFound`: what is opened was mounted, what is read is the entry in the
  window;
- `WindowCurrent`: the directory in the window is the one on the drive, unless the drive
  was touched since it was mounted (a mount reads it anew, an open may not);
- `AllTouched`: while the USB mode runs every drive counts as touched;
- `Passed`: a search for a payload on all drives, with no failure so far, has left
  behind only untouched drives without one. It is what `AutomaticOrder` becomes when the
  search succeeds;
- `AtSelected`: a search for the payload with a drive chosen looks at no other drive
  (`SearchSelected`, `LoadSelected`), and what is read comes from the drive that was
  mounted for it (`AtFound`, `MountCacheSound`), which gives `SelectedDrive`.

### USB mass storage menu

`UmsMenuProofs` proves every property of the run `ums_menu`, for words of any number
of digits in any base, any disks and any number of changes of the card:

| Theorem | Statement |
|---|---|
| `MenuInvariant` | `Spec => []IInv` |
| `TypesHold` | `Spec => []TypeOK` |
| `ExportFitsHolds`, `PartExportedHolds`, `PartsToStepHolds` | what a session is given |
| `StartHasVolumeHolds`, `CursorLiveHolds` | what the menus offer |
| `SelectorBoundedHolds` | the number selector stays in bounds and ends |

They rest on `UmsAssumption` (the sizes, and disks whose partitions lie inside them)
and `PowerAssumption` (a power of the base is positive, and `Word` is a digit's place
times the base times the places above; facts of arithmetic, which TLC evaluates and
which would otherwise need induction on the exponent). The invariant is

- `Tables`: the table of a volume is one of a disk of the size that is shown, and
  only a volume with partitions is given by partition. That is why
  `config_part_cb` never divides by zero, although the mode may come from another card.
- `Partitions` and `Settled`: what was chosen fits; by partition, always, as the table
  is read again at each visit; by offset, while the disk is the same. `Settled` for a
  volume that was never read says that its settings are still blank: the first visit
  is what makes it fit.
- `Offered` and `Standing`: what is disabled is a function of the settings, and the
  entry a callback ran from stays enabled.
- `Selecting`: the selector is open on a mounted volume given by offset, its maximum
  comes from the volume as it is now, and the value was below it to begin with.

Under it are the lemmas about the updates (`SizeUpdateFacts`, `PartUpdateFacts`,
`ModeUpdateFacts`), which say what each makes true from any settings, and about digits
(`Parts`, `DigitFacts`, `HigherFacts`, `LowerFacts`). `LowerFacts` is the reason the
subtraction of the selector ends: below its maximum, a digit that is not zero goes
down by one at once, and a zero digit starts over at the highest and passes only
through words that differ from the old one in this digit, the last of which is the
old one itself. `LeastNumber` (from the well-foundedness of `<`) gives the first of
those that fits. `EditOK` is the step common to all changes of settings.

### USB device controller

The first part of `XusbdProofs` is about one ring, of any number of slots. `RingInv(r, n, u)`
says that with `n` requests posted and not carried out and `u` carried out and not
followed, `n + u` less than the slots, the bits below `enq` are of this round and the rest of
the last, and the controller is in this round or still has the link before it.
`InitializedInv`, `QueuedInv`, `FetchedInv` and `DequeuedInv` show that it is kept by what the
driver and the controller do; `InvAgrees` that it is what `Agrees` says, and `FreeEmpty`
that `enq = deq` means an empty ring.

The rest builds on it, for rings and segments of any length, any number of sequence
numbers, any requests and any number of upsets.

- `ControlRingSound`: the invariant `Ctl` is `RingInv` with at most one request on the
  ring, posted or with its event unhandled. That bound is what the check `enq = deq` before a
  request is posted buys, together with the data event going on to the status only after it
  was passed; without it the ring could fill. `Count`, the number of events of an endpoint,
  is followed through every report and every handling.
- `EventsAgree`: `Turned` and `Counted` are the same facts without a link, and `Told` says
  that what is unhandled and what is handled but not told the controller (ERDP) fit on
  the ring together, which is why the controller never overwrites an event. `Signals` says
  that an interrupt is pending only while the driver is not at the events and only when
  there are some: so the poll after it finds one, and `_xusb_ep_operation` never ends with
  the "cycle" error.
- `BulkRingsSound`: `BulkInv` says, as long as a configuration is chosen once, that the
  rings keep `RingInv`, that before the first session nothing was ever posted on them
  (`Fresh`), and that once the driver knows of a configuration no request for one is
  left among the events (`Chosen`, `LunLast`): so when the endpoints are initialised
  their rings are blank, and they are not initialised again. `HostInv` has what the host
  waits for.
- `LunTold`: the driver learns that the host was told by the status of whichever request
  it awaits. `LunInv` follows the enumeration in lockstep, as one of five phases
  (`Resting`, `Unheard`, `Answering`, `HasData`, `Unanswered`) of what the host asks, what is
  on the ring and what the driver waits for, through polls that time out in any of them;
  `LunState` ties the two states of the driver to them.
- `OkMeansDone` (an action property): `CountInv`, what a transfer still awaits is no less
  than what is on its ring and in its events, until one was given up; with `FinishInv`.

### USB mass storage gadget

`ResetKeptHolds == Spec => ResetKept` (an action property): a bulk reset that was heard is
carried out before anything else. The invariants are `Shape`, the types of what a reset
goes through (exceptions, the volume in use, the units, the command blocks in memory), and
`InOrder`, that the events are a sequence. `ResetCarriedOut` goes through the steps.

`_xusb_ep_operation` handles all events there are, so one step of the model hands on a
sequence of any length: `Handled[n]` is what the first `n` events leave. That it hands a
reset on is a fact for every `n`, by induction. The induction theorems of the library
cannot be used here; `Smallest` takes the least number with a property from the
well-foundedness of `<`, `LeadsExists` and `HandledSteps` show that the recursive function
satisfies its equation, and `HandedOn` is the induction.

`AnswersTrueHolds == Spec => []AnswersTrue`: an answer to a read or a write is true, for all
volumes, commands and lengths, whatever accesses fail and however often they are
reinitialised, as long as the host neither pauses, nor stops early, nor resets (`Calm`).
`AnswersTrue` looks at one moment, when the host has taken the status; everything that makes
it true then happened before, in the buffers and on the rings. The inductive invariant is

    Agreed == Calm => Lost \/ InStep

`Lost` is final for a calm host, which has nothing to get out of it with. `InStep` says for
each of the gadget's points how the gadget, the two rings, the events not handled and the
host's account of the command fit together:

- `Ready`, between commands: the host is idle with a true answer (`Truth`), or waits for the
  status, or has sent the next command, which is in the OUT buffer or in an event.
- `Taken`, a command is carried out: `host.left` is `job.left` and what is on the way. For
  data from the host (`Outs`) a transfer is posted, or done and in an event, or handled
  (`Coming`), and the sectors of the buffer are then those the host sent (`Arrived`). For
  data to the host (`Ins`) `Due` lists the transfers on the ring with what is still to come
  after them, and `Correct` says that the buffer of each, of the one being filled and of the
  reply holds the sectors the host expects next: the double buffering of `_scsi_read` is
  right because the buffer filled is never the one on the ring.
- `AtStatus`: the status is on its way, alone or behind the end of the data.

Two things the invariant has to allow for make it longer than one would expect. A read past
the end leaves the transfer it did not wait for on the ring (`Loose`, `Lag`), so that one
more event than usual may come; and a wait may be over by the completion of an earlier
transfer. `CommandIs`, `DueShape`, `HalfwayIs` and `WholeSum` are the arithmetic of lengths;
there is one lemma for each action of the gadget and the host (`FilledInStep`,
`ReadSentInStep`, ...), put together in `StepAgreed`.

The theorem assumes of the host that what it reads, writes and sends is whole sectors
(`GadgetAssumption`). A transfer length that disagrees with the command block is allowed, and
the two directions may disagree. The only command with data of less than a sector from the
host, `MODE SELECT`, is refused by the code and not among the commands of the model.

`NothingAstrayHolds == Spec => []NothingAstray`: what is stored is what the host sent for
that sector of that volume, in a volume it may write, for all volumes, commands and lengths,
also when the host ends its data early and when it resets the device in the middle of a
command; as long as no access fails and no wait is given up that the host would have ended
(`Tame`; with a pause it does not hold: `ThrownAway` in section 4). The difficulty
is what a reset leaves behind: the device goes on with a command the host has forgotten,
transfers stay posted that nobody wants any more, and the host's next command block goes
into the oldest of them, wherever in its own loop the device is. The inductive invariant is

    Guarded == Tame => Kept
    Kept    == Sane /\ Places

`Sane` holds everywhere: kinds of values (`Sorts`), nothing astray so far, the volume in use
is the partition the eMMC addresses, and before the first reset (`Fresh`) nothing of a reset
is to be seen. `Places` lists the situations the device, the rings and the host can be in:

- `Asks`, `Heard`: a transfer for a command block is posted, or its block has come: that of
  the host's last command, which it may have forgotten since.
- `Deaf`: the host sent data into a transfer for a command block; it failed, and nothing will
  come for it again.
- `Parted`: the command wants nothing from the host, or nothing more; no transfer from the
  host is posted.
- `Accepts`: a write, or data that is thrown away. A transfer is posted, on its way or come;
  what it brings is for `job.lba` (`Fills`, `Loaded`) and the host has `job.left` more
  (`Sends`), unless it has forgotten the command (`Gone`).
- `Stale`: after a reset a transfer for data is still posted, and no status on the ring has
  an old tag.
- `Doomed`: the next command block went into it. It leaves bytes of the transfer missing, so
  that the device does not take it for a command block, nor a full sector of data; the host
  waits for the status of a command the device never saw, and every status it is sent has
  the wrong tag. Only another reset, which a behaviour has at most once, would get it out.
- `Ended`: the session is over, or the loop of `_scsi_write` does not end.

To show that a wrong status is never taken for the right one `Stale` and `Doomed` say which
tags the statuses on the ring have (`Signed`, `Unsigned`). Before a reset the host must not
meet data where it expects a status, which is what `Takes(p)` and `Closes` say: the
transfers on the ring (`Chain`) carry what the host has left, short at the end only, with
`p` still to come, or with the status behind them.

`TypeOKHolds == Spec => []TypeOK` needs no tame host. Its hard part is that the counters of a
command are naturals: in the code they are unsigned and counted down, by what an access
stored or a transfer brought, so that this is what says they never wrap. `JobKnown` has the
reasons: what is left to move (`job.todo`) is never more than the residue, and while a
write goes on it covers what was not asked for yet together with the transfer under way
(`From(cmd) - Asked + job.posted <= job.todo`). `RingsKnown`, `HostKnown`, `Statuses` and
`FlagsKnown` are the rest; all of them with `Shape` are `Known`. The assumption that there
is a volume (`Luns # <<>>` in `GadgetAssumption`) is `StartHasVolume` of `UmsMenu`: start is
not offered without one.

### Only model-checked

- Liveness: `CallsReturn`, `OperationsEnd`, `SearchEnds`, `Answered`, `Started` and
  `SessionEnds`, which is out of the prover's reach.
- The three properties the code does not have (section 4).

## 6. Not modelled

- **USB gadget**: the contents of replies (inquiry, capacities, mode and log sense are
  one command with a short reply), `verify`, which compares nothing, and what comes
  before the loop: the volumes' setup (enumeration is in `Xusbd`). What a session does
  to the rest of the program (storages ended, drives rewritten) is in `Boot`.
- **USB device controllers**: completion codes on endpoint 0 other than success and that of
  an older SETUP; in `UmsGadget` a transfer to the host with a rest and the empty transfer
  after a single packet; the registers, clocks, PHY and the lanes; setting a halt
  at the host's request; what a suspend does; the HID gadgets, which this program does
  not use. `usbd.c` is for a controller that `usb_device_gadget_ums` does not take.
- **Text menus and buttons**: `UmsMenu` has the walk over entries. `Toolbox` and `Boot`
  offer the selectable entries in any order, a superset of what navigation allows;
  the time-out of the main menu is a `Leave` step. Debouncing is left out.
- **Card initialisation** beyond its result: the commands, tuning and clocks.
- **FatFs**: as far as `files.c` depends on it.
- **Graphics, heap, clocks, display, power, security engine**: no control of
  interest to a property here, or register-level drivers of the board.
- **`nx_sd.c`, `nx_emmc.c`**: not in the object list of `sdloader/Makefile`.
- **Build tools**: straight-line host programs.
- **Contents of memory past the buffer**: the padding of an image of exactly the
  buffer's size clears the frame buffer (`modchip.c:195`); nothing reads it back.

## 7. Plan

Done, in this order:

1. `DiskTypes`, `DiskContract`, `EmmcDisk` with its refinement, types and safety
   proved: everything else stands on block access.
2. `Modchip` over the contract, `Toolbox` over `Modchip`.
3. `Boot`: the program, the search and the mount cache.
4. `SdCard` and its proofs.
5. `UmsMenu` and its proofs.
6. `UmsGadget` with the host and the bulk endpoints.
7. `TrbRing` and `Xusbd`: the rings with link and cycle beneath `UmsGadget`, endpoint 0 and
   the enumeration.
8. Proofs: the refinement of `DiskContract` by `EmmcDisk`; every invariant of the runs
   `modchip`, `toolbox`, `boot` and `xusbd`; types, `ResetKept`, `AnswersTrue` and
   `NothingAstray` of `UmsGadget`.

Left:

9. The relocator and the encrypting loader (`loader/main.c`), whose copy loops
    overlap in memory.
10. `UmsGadget` over `Xusbd`, with its abstraction of the bulk endpoints as a refinement.
