# Formal models of hamburger-os-bsp

TLA+ models of the first-party code of this board support package (RT-Thread on
STM32), the TLC configurations that check them on small boards, and theorems
that TLAPS proves for every board. Most of the 5766 files of the repository are
vendored (vendor HALs, CMSIS, TRDP, LVGL, file systems, MicroPython ...); the
RT-Thread kernel and its FAL are not in the repository at all. What carries the
program's own logic is small, and the part whose failure is hardest to repair in
the field comes first: replacing the firmware.

## 1. Inventory

| Component | State it keeps | Operations | What is hard |
|---|---|---|---|
| Flash partitions: `board/ports/fal_cfg.c`, `drv_nor_flash.c`, `HAL_Drivers/drv_flash/` | contents of `app`, `download`, `factory` | erase by sector, program, read | power loss in the middle; failures that are not reported, of reads too |
| Bootloader: `packages/qboot/src/qboot.c` | `fw_info` in RAM; tail header and release sign in flash | check, release, verify, sign, resume, jump | everything across a reset is deduced from flash |
| Update thread: `packages/ota_from_file/ota_from_file.c` | device and update state, open file, sizes | poll, check, erase, copy, read back, reset | stick pulled, file still growing, power loss |
| Link-layer Ethernet: `board/ports/ksz8851/`, `drv_link_layer_list.c` | a bounded list of frames, a counter, a mutex | receive, read, write, open, close | receive thread against reader, opener and closer |
| Thread watchdog: `packages/syswatch` | `sw_data`: the step, its seconds, the thread it suspects, the threads to resume | scheduler hook, one-second state machine, reset, kill, resume | the hook runs at every switch, between any two seconds |
| HDLC 7C7E and FFFE framing: `packages/Hdlc7c7eFrame`, `packages/fffeFrame` | a counter of calls, a receive buffer | command, acknowledge, accept | escapes, lengths at the limits, finding the next frame after damage |
| UART v2: `HAL_Drivers/drv_usart_v2.c` | DMA position, ring buffers, RS485 direction | ISR, DMA half and full transfer, configure | interrupts against threads |
| LED blinker: `packages/quick_led` | list of LEDs | add, set blink, tick | - |
| Register-level drivers (CAN, MCP2517, MVB, eMMC, sensors, audio ...) | device registers | read, write, control | in the devices |
| Vendored packages and network services | - | - | not this project's logic |

Bootloader and update thread never run at the same time. They talk through the
flash only: the update thread leaves a package in `download` or `factory` and
resets; the bootloader unpacks it into `app`, writes its header into the last
bytes of `app` (the *tail*), and marks it with a word of zeros behind the package
(the *release sign*) so that it is not unpacked at every boot.

What makes them correct:

* a signed package is the one that runs, never an unsigned one that was skipped;
* an interrupted release is repeated and never run;
* the bootloader never destroys the package it would need to repair the board;
* what is stored is what was in the file;
* the board always gets back to a whole application, and installs what was
  downloaded.

The Ethernet port is used by three threads. The chip's interrupt pin mails the
receive thread (RT-Thread's, `erx`), which calls `fmc_eth_rx`: it handles the
chip's interrupts, passes what it received to lwIP, and keeps a copy of what is
not IP in a list for the application, which may read it in the callback or
later. The application and lwIP's transmit thread (`etx`) send. One recursive
mutex, `eth_mux`, guards all of that except open and close. Correct means: no
frame is forgotten in the chip, the list keeps the newest frames in order, its
counter counts it, and nobody waits for ever.

Syswatch is a thread of the highest priority that wakes up every second, and a
hook that the scheduler calls at every switch. The hook clears the seconds when
idle gets to run, and while a suspicion is being confirmed it notes the least
urgent thread that was switched to; the thread counts the seconds, and in the
end resets the board, deletes the thread, or deletes it and starts it again
later. Correct means: who hangs is found and stopped, nobody more urgent is
hurt, nobody who was killed is forgotten.

The two framing packages have no thread. A caller sends under `tx_mutex`; another
one passes what its device has received, in whatever pieces it came, to `accept`
under `rx_mutex`, which calls back with every message it finds. Correct means:
nothing is passed on that was not sent, and what was not damaged is passed on.

## 2. Modules

| Module | Models | Extends |
|---|---|---|
| `FalPartition` | partitions as arrays of cells; erase, program, their failures; what "holds a package" means | |
| `Qboot` | `qbt_thread_entry` and all it calls | `FalPartition` |
| `OtaFromFile` | `ota_thread_entry`, the stick, the TFTP server | `FalPartition` |
| `FirmwareUpgrade` | both on one flash, resets, losses of power; the safety properties | `Qboot`, `OtaFromFile` |
| `UpgradeService` | abstract specification: image, offer, running | |
| `UpgradeProgress` | fairness, liveness and the safety behind it, the refinement mapping to `UpgradeService` | `FirmwareUpgrade` |
| `MCUpgrade` | boards for TLC | `UpgradeProgress` |
| `Ksz8851` | the chip's queue and interrupt bits, the interrupt line, the receive thread's mailbox | |
| `LinkLayer` | `drv_fmc_eth.c`, `ks_irq` and sending of `ksz8851.c`, `drv_link_layer_list.c` | `Ksz8851` |
| `MCLinkLayer` | the bound of the counter for TLC | `LinkLayer` |
| `RtThreads` | priorities, states and choice of threads of RT-Thread, as `syswatch.c` supposes them (external) | |
| `SysWatch` | `syswatch.c` over that scheduler, and an application whose threads wake, block, end, yield and hang | `RtThreads` |
| `MCSysWatch` | four threads for TLC | `SysWatch` |
| `FrameCodec` | both frame formats as functions from messages to bytes and back | |
| `FrameLink` | the two packages at the ends of a line that loses, damages and cuts | `FrameCodec` |
| `MCFrameLink` | payloads for TLC | `FrameLink` |
| `FirmwareUpgrade_proofs` | types, what is stored, what the bootloader keeps | `FirmwareUpgrade` |
| `ReleaseSign_proofs`, `ReleaseOutcome_proofs` | what a sign means, how a release ends | `FirmwareUpgrade_proofs`, each other |
| `UpgradeService_proofs` | the refinement, how a boot ends | `UpgradeProgress`, `ReleaseOutcome_proofs` |
| `LinkLayer_proofs` | theorems | `LinkLayer` |
| `SysWatch_proofs` | theorems | `SysWatch` |
| `FrameCodec_proofs` | induction and recursion as lemmas on sets; the round trips of both formats | `FrameCodec` |
| `FrameLink_proofs` | theorems | `FrameLink`, `FrameCodec_proofs` |

### Data abstraction

A flash *cell* is one programming unit. It holds nothing, zeros, the header of a
package `f`, cell `i` of the body of `f`, cell `i` of the code `f` unpacks to, or
junk. CRC32 is taken to be collision free, so `qbt_fw_crc_check` over a region is
"the cells are those of that package". The header takes one cell, hence
`SignCell(f) = f.pkg_size + 1`: the rounding to 32 bytes of `qboot.c:200` and
the sign itself are within one cell. `fw_info_t` keeps what the code branches on:
`part_name`, whether `algo` is supported, `algo2`, whether `raw_crc` is right, and
the two sizes. Decryption and decompression are the relation "the cells of `f`'s
body give the cells of `f`'s code"; from a damaged package they give junk.

### Correspondence

`Qboot`: `bpc` is the program counter of `qbt_thread_entry`, `stage` which of its
(up to four) attempts it is in, `at` the loop position inside `qbt_fw_release`.

| Action | Code |
|---|---|
| `Start` | thread start, `qbt_factory_key_check` |
| `CheckPasses`, `CheckFails` | `qbt_release_from_part` and `qbt_app_resume_from` up to `qbt_fw_update`, with `qbt_fw_check` and `qbt_release_sign_check` |
| `StartRelease` | `qbt_fw_update`, algorithm and partition checks |
| `EraseApp`, `EraseTail`, `CopyCell`, `WriteInfo` | `qbt_fw_release`, one sector or cell a step |
| `CheckMisled`, `CopyMisled`, `SignUnread` | the same reads when NOR flash returns nothing and says so to nobody |
| `VerifyPasses`, `VerifyFails` | `qbt_dest_part_verify`, which overwrites `fw_info` |
| `WriteSign` | `qbt_release_sign_write`, result ignored |
| `Jump` | `qbt_jump_to_app` |

`OtaFromFile`: `Poll` is the head of the loop, `OpenFile`, `Begin`, `EraseDest`,
`Data`, `End` one pass over a path; USB download, USB factory and TFTP passes
share them through `mode`. `Plug`, `Unplug`, `TftpCreate`, `TftpWrite` are the
world. `FirmwareUpgrade` adds `Reboot` (the reset the thread asks for) and
`PowerLoss`, after which the cells in flight are as before or junk. The variables
`writer`, `released`, `releases` and `cuts` are history: no action reads them.
`cuts` counts only the losses of power while the bootloader runs, so that
`ReleasedOnce` says that a board switched off and on in the application does not
unpack anything again.

A read from a stick that is not there any more (`ReadError`) is the one failing
`read()` of the model. What the code does then depends on the flash below it.
The on-chip driver modelled is that of the F4, which the F7's resembles: it
programs zeros at the position and what follows `file_buf` in memory behind them,
through the end of `download` and into `factory`, which comes next in
`fal_cfg.c:142-145`, until a word reads back different (`Overrun`). How far it
gets and what the memory holds is left open, the zeros are not. The H7's driver
computes an end that lies before the start and does nothing. The driver of NOR
flash counts in an `int32_t`, programs nothing, and returns either an error
or, in the default build, success, after which the read back overruns the
memory. The board may also hang in all of this: `opc = "reboot"` stands for that
too. `spilled` is history and says that `download` was written to in this way
since it was erased.

The application runs only if it is whole (`Intact` in `App`): a half-written one
does nothing the model knows.

`LinkLayer`: `pc` is where each thread is, `holder` who holds `eth_mux`.

| Action | Code |
|---|---|
| `GetMail`, `ClearNotice` | `eth_rx_thread_entry` of RT-Thread |
| `EnterRx` .. `LeaveRx` | `fmc_eth_rx`; the loop over it ends when it returns NULL |
| `ReadStatus`, `Ack` | `ks_irq` up to the acknowledgement |
| `Rcv`, `LinkStatus` | `ks_rcv`, `ks_update_link_status` |
| `StopRx`, `FlushRx`, `StartRx`, `ClearPsi` | `ks_clean_rx_queue`, one register access a step |
| `Store`, `Indicate` | the list part of `fmc_eth_rx`, `rx_indicate` |
| `Open`, `Close`, `ClearFree`, `ClearLoad`, `ClearStore` | `fmc_eth_open`, `fmc_eth_close`, `lep_eth_if_clear` |
| `Read`, `StartSend`, `EnterTx`, `Transmit` | `fmc_eth_read`, `fmc_eth_write`, `fmc_eth_tx` |

Chip and interrupt may come between any two of them. What `erx` does to the list
under the mutex is one step, because the application's thread has a lower
priority than the Ethernet threads (19 in `linklayer_test.c`) and all other users
take the mutex. The steps of `lep_eth_if_clear`, called by the application
without it, are interrupted anywhere, the decrement included. `broken` is set
where the code would free an entry twice, damage the list or use a detached
mutex; nothing is modelled after it. `overlapped`, `stored` and `got` are history.

`SysWatch`: one step of the thread is one second of `syswatch_thread_entry`,
since it has the highest priority and waits nowhere else.

| Action | Code |
|---|---|
| `SwitchHook`, `ToIdle`, `LowestThread` | `syswatch_thread_switch_hook`, part of every action in which the processor changes hands |
| `Tick`, `Suspect` | `syswatch_fsm`: a second in which nothing is due; the exception timeout |
| `ResolveReset`, `ResolveKill` | `syswatch_thread_except_resolve` in its three modes, with a failing `rt_malloc` |
| `ResumeAll` | `syswatch_thread_except_resolve_resume_all`, with `rt_thread_create` failing for any of the threads |
| `Wake`, `Block`, `Exit`, `Slice`, `Hang` | the application, external |

`ResumeAll` calls `rt_thread_create` for each thread, or `rt_thread_init` if the
control block of the thread deleted before says that it was a static one. Idle has
freed that block in the meantime, so the answer is right only as long as the memory
is not in use again. Nothing in the code excludes that; `Misread` then sets
`damaged`, and the model goes no further.

`mode` is a variable that never changes, so that one run has all three builds.

`FrameLink`: a frame is the bytes on the line, markers, escapes, length, sum and
CRC32 as they are in the source, because what is hard about the packages is
which byte is taken for what.

| Action | Code |
|---|---|
| `Cmd` | `Hdlc7c7eFrame_type`, `fffeFrame_cmd`: build, code, write |
| `Ack` | the two `_ack` |
| `Accept` | the two `_accept`; a size beyond `maxlen` is taken in blocks, which is what several calls do |
| `Noise` | the line, external: a byte changes or is lost |

`sent` remembers the calls, whether they succeeded and whether noise hit their
bytes; `delivered` the calls of `rx_indicate`, and from which call the end marker
came. For the properties to be able to say so, a byte on the line and in the
buffer carries its call and its place (`pos`) in what that call wrote; nothing of
the code reads them.

## 3. Runs

| Run | Instance | Shows |
|---|---|---|
| `safety` | two releasable packages of one size, one that unpacks to the wrong code, and garbage on sticks that are pulled at any time, factory key, NOR `download`, no `QBOOT_USING_APP_CHECK`, one loss of power | `TypeOK`, `SignedMeansReleased`, `TornReleaseNeverRuns`, `TornIsRecoverable` |
| `faults` | a short package from sticks into a NOR `factory`, a longer one by TFTP into an on-chip `download`, factory key, one flash fault of any kind | `StoredIsRead`, `BootKeepsPackages` |
| `service` | an on-chip `download`, one package on sticks that are pulled at any time, another in the board, two losses of power | `TornReleaseNeverRuns`, `TornIsRecoverable`, `ReleasedOnce`, `ImplementsService`, `BootComesToAnEnd`, `RunsWhatIsStored`, `EventuallyRuns`, `DownloadIsInstalled` |
| `stale_sign` | packages that end with a sector | violates `SignedMeansReleased` |
| `read_back` | one fault on NOR flash | violates `ReadBackSees` |
| `pulled_stick` | as `service`, no loss of power | violates `StoredIsInstalled` |
| `link` | a list of two, three frames, two references | `TypeOK`, `CountIsLength`, `NewestInOrder` |
| `link_live` | a chip with room for two frames, two frames, a change of the link, an open and a close, both senders | `FramesNoticed`, `MutexComesBack`, `FramesTaken`, `SendersProceed` |
| `deaf` | a chip with room for one frame, four frames | violates `QueueIsEmptied` |
| `syswatch` | four threads, two of one priority, of which two hang; memory is short once; the type of a freed thread may be misread; all three modes | `TypeOK`, `NoneForgotten`, `MoreUrgentSpared`, `LoneHogIsFound`, `HangRunsOut`, `ResumeRunsOut`, `HogIsStopped`, `KilledIsResumed` |
| `frames` | both formats, two calls, one damaged byte | `TypeOK`, `NothingInvented`, `IntactArrive` |
| `long_frame` | a payload of 125 bytes to escape | violates `IntactArrive` |

Bounds. The app partition has two sectors of two cells: code fits in one sector,
crosses into the second, or shares it with the tail header. `download` has room
for a package, its sign, and in `safety` a sector no package needs. Two releasable
packages of equal size and different code are enough for "old" and "new": every
property relates at most two packages. In `safety` both come on sticks, in any
order and again, so that `released` changes from one to the other and back; in
`service` the old one is in the board when it is made, and the new one comes. `MaxCrash = 2` (`service`) covers a loss during the recovery
from a loss; after a reset RAM is gone, so a third begins in a state a second
could have begun in. `safety` has one loss and pays for it with more packages.
`MaxFault = 1` is the bound up to which `BootKeepsPackages` holds; with two
(an erase of the tail that leaves the old header, and a header write that does
nothing) the sign is written where the older package would end. `releases` stops
counting at `MaxCrash + 2`. No symmetry is used: packages have sizes.

For the port: three frames fill a list of two and evict from it; a queue of two
glues frames, a queue of one overruns. A change of the link gives the one other
interrupt bit that can hide a frame's. The counter wraps at 8 (2^32 in the
code), which no list is long enough to reach: it wraps below zero only. `link`
has one sender, `link_live` both. `link` has one failure of
`pbuf_alloc`; `FramesTaken` and `FramesNoticed` exclude them, and hold short of an
overrun, after which `deaf` shows what happens. In `link_live` the application has
to open the port before it sends, which makes it the largest of the runs; two
frames and one change of the link are enough for a second bit to hide behind the
first, whichever is first. They do not overrun the queue: what `ks_irq` does then is
in `link` (the list), `deaf`, and in `MutexIsGivenBack` for every bound.

For syswatch: two seconds for each timeout are the least that lets something
happen between the first and the last. Two equal threads are needed for the
case of `LowestThread` that compares them, one above and one below for the
others; with two hanging, one may hide the other. A thread wakes once a second
(`"rest"`), which keeps the seconds from being filled for ever.

For the frames: two frames are what a frame can be confused with. `FirstIds` are
the last values before the counter wraps. 24 bytes bound the frames of `frames`:
the payloads hold each marker and escape byte, and pairs of 0xff closer and farther
apart than `MaxPair`, 3 here and 252 in the code. The chunks of 9 and 20 bytes cut
the frames at different places, and 20 bytes of buffer overflow where 48 do not.

Deadlock is checked for the upgrade, which never stops, and for syswatch, whose
seconds never end. The port's runs do not check it: when the bounds are used up
and every thread is back, or after `broken`, there is nothing left to do.
`SendersProceed` takes its place. The frames' runs end when the calls are used up.

Fairness (`UpgradeProgress`): `WF_vars(Boot)` only. The bootloader is a single
thread that waits for nothing but its own delays, so it takes its next step
unless the power fails first. Nothing is assumed of the stick, the uploader or
the application; losses of power are bounded by `MaxCrash`.

`LinkLayer`: weak fairness of the receive thread and of a sender that has the
mutex, since the Ethernet threads have the highest priority and wait for nothing
but the mutex and the chip, and the application runs on inside `fmc_eth_write`
whenever they wait; strong fairness of taking the mutex, since
`rt_mutex_release` hands it to a waiting thread instead of freeing it; weak
fairness of the chip's sending. Nothing is assumed of when the application calls, of
frames that arrive, or of the link.

`SysWatch`: weak fairness of `Second`, because the clock goes on and nothing is
more urgent than syswatch, and of `Block`, because a thread that does not hang is
done some time. One more thing is assumed, of the load (`slack`): in every second
whoever does not hang leaves time for idle, or for those that hang. Without it a
busy board looks exactly like a hanging one, to syswatch too.

## 4. What the code does not do

* **Stale sign** (`stale_sign`). The update thread erases the file's bytes and no
  more; the sign stands behind them. If the package ends within 32 bytes of a
  sector's end, the sign of an equally long predecessor survives and the new
  package is never installed.
* **Blind comparison** (`read_back`). On a bad status the NOR driver reads the
  flash back into the buffer it was to write; the comparison in `ota_on_data`
  then compares the flash with itself. The bootloader's CRC rejects the package,
  but the upload counts as done and a TFTP file is unlinked.
* **Pulled stick** (`pulled_stick`). `read()` returns -1 into an unsigned length
  when the stick is gone, and `ota_on_data` is to write 2^32 - 1 bytes. Behind
  offset 0 the sum of offset and length wraps and passes the bounds check of FAL
  and of the F4 and F7 drivers, which program the zeros of `file_buf` behind what
  was stored. If the stick is pulled between the last byte and the end of the
  file, that is the place of the release sign, and the size is right: the upload
  counts as a success, the board restarts, and the bootloader takes the package
  for released and runs the old code.
* **Deaf port** (`deaf`). The interrupt is acknowledged with the bits read before,
  and the receiver is restarted after that. A frame that comes in between raises
  its bit without an edge: the line stays low, the pin waits for a falling edge,
  and the receive thread is not called again.
* **Long frames** (`long_frame`). `Hdlc7c7eFrame_code` returns its length in a
  `uint8_t`. With enough bytes to escape a frame is longer than 255 bytes, is
  written up to the remainder modulo 256, and the call reports success.

Also seen while modelling, and stated in the hazard list:

* `&&` for `||` in `ota_from_file.c:279`: the check announced by the comment two
  lines above runs only for files that cannot pass it, and the comparison with
  the stored package reads an uninitialised header;
* "clear all" clears one: `drv_link_layer_list.c:85` compares the constant
  `E_ETH_IF_CLER_MODE_ONE` with 0 where line 66 promises two modes of the
  parameter, so that open and close, which ask for the whole list to be freed,
  free one entry and leave old frames for the next reader (`ClearFree`);
* `fal_nor_read` returns 0 when it fails and leaves the buffer as it was, and its
  callers look for negative results only. The bootloader may then take for read
  what it had in memory, and a sign that was not read for a sign that is there
  (`release_sign` is 0 before, and 0 is the sign);
* syswatch decides how to start a killed thread again by the object type in the
  control block of the thread it deleted `SYSWATCH_THREAD_RESUME_DLY` seconds
  before (`syswatch.c:152`), which idle has freed;
* an interrupted *resume* has no protection (the jump tests two words), and a
  package that fills its partition cannot be signed and is released at every boot;
* `ks_rcv` puts all waiting frames into one pbuf, and everybody above takes a pbuf
  for one frame;
* open and close decrement the list's counter without the mutex (a counter
  that is one too low wraps below zero, after which the list never holds more
  than the newest frame), and a close detaches mutex and interrupt, which no
  open attaches again;
* syswatch cannot tell a thread that hangs from one of the same priority that
  takes turns with it, and may kill the wrong one of the two;
* behind a damaged start marker, a chunk that ends between the two bytes of the
  next start marker costs `fffeFrame` the intact frame that follows.

## 5. Proofs

TLAPS proves, for every `Firmware`, `Images`, `PartLen`, `SectorCells`,
`NorParts`, `MaxFault`, `MaxCrash` and both build options:

| Theorem | Statement |
|---|---|
| `TypeCorrect` | `Spec => []TypeOK` |
| `StoredCorrect` | `Spec => []StoredIsRead` |
| `PackagesKept` | `Spec => BootKeepsPackages` |
| `SignIsHonest` | `SignErased` and `WholeFiles` give `Spec => []SignedMeansReleased`, which excepts what a failing read has written to (`spilled`) |
| `TornRecoverable` | `HeaderFits` gives `Spec => []TornIsRecoverable` |
| `TornNeverRuns` | `HeaderFits` gives `Spec => []TornReleaseNeverRuns` |
| `OnceReleased` | `HeaderFits` and `SignFits` give `Spec => []ReleasedOnce` |
| `BoardImplementsService` | `HeaderFits`, no factory key and `MaxFault = 0` give `Spec => ImplementsService` |
| `BootEnds` | `HeaderFits`, no factory key and `MaxFault = 0` give `Spec => BootComesToAnEnd` |
| `StoredIsRun` | those, `SignFits`, `SignErased` and `WholeFiles` give `Spec => RunsWhatIsStored`, with the same exception |

for every length of the list (`RxBufNum`) and of the chip's queue (`QmuFrames`),
every width of the counter that can tell a full list and one more from an empty
one (`NumMod`), every `PbufFrames`, `MaxFrames`, `MaxLinks`, `MaxOpens` and
`MaxNoPbuf`, and both sets of senders:

| Theorem | Statement |
|---|---|
| `PortTypeOK` | `Spec => []TypeOK` |
| `CounterIsRight` | `Spec => []CountIsLength` |
| `ListIsNewest` | `Spec => []NewestInOrder` |
| `NoWakeUpIsLost` | `Spec => []FramesNoticed` |
| `MutexIsGivenBack` | `Spec => MutexComesBack` |

for every set of `Threads`, every `Priority`, all timeouts and modes:

| Theorem | Statement |
|---|---|
| `SysWatchTypeOK` | `Spec => []TypeOK` |
| `KilledAreRemembered` | `Spec => []NoneForgotten` |
| `UrgentIsSpared` | `Spec => MoreUrgentSpared` |
| `LoneHogFound` | `Spec => LoneHogIsFound` |
| `HangIsTimed` | `Spec => HangRunsOut` |
| `ResumeIsTimed` | `Spec => ResumeRunsOut`, both up to a misread type (`damaged`) |

and, for every set of `Bodies`, all types, acks, ids and addresses, every size of the
buffer and of the blocks, every short write, any noise, and `MaxPair` up to 252:

| Theorem | Statement |
|---|---|
| `HdlcRoundTrip`, `FffeRoundTrip` | a frame written to its end decodes to its message and passes the checks |
| `TypeCorrect` | `Spec => []TypeOK` |
| `SparedCallsAreExact` | `Spec => [](Sound => Exact(sent, delivered))` |
| `NothingInventedWithoutNoise` | `Spec => [](noise = 0 => NothingInvented)` |
| `IntactCallsArrive` | `FramesFit` and, for `fffeFrame`, `1 \notin Cuts` give `Spec => []IntactArrive` |

The assumptions on constants (`GeometryAssumption`, `QbootAssumption`,
`OtaAssumption`, `CrashAssumption`, `TornAssumption`, `ChipAssumption`,
`LinkAssumption`, `ThreadsAssumption`, `SysWatchAssumption`,
`FrameCodecAssumption`, `FrameLinkAssumption`) only give them their types and
ranges. For the frames that includes that a type leaves the two bits of the acks
alone, that a frame's lengths fit 16 bits, and that the distance of a pair is no
second byte of a marker (`MaxPair <= 252`, the code's own number).

### The upgrade

* `TypeInv` adds to `TypeOK` the bounds that keep every access in its partition
  (`BootBounds`): `at` below the sector or cell count of the operation in hand,
  a package in `start` and later that has passed `Releasable`, and the update
  thread idle while the bootloader runs.
* `StoredInv` adds that nothing has been stored when the erase is done. The
  interesting step is `TftpWrite`: a growing file keeps its prefix.
* `KeepInv` says that from `start` to `sign` the source partition holds
  `fw_info`'s package while nothing has gone wrong, and no other package after one
  silent read (`Sole`: cells of one package and one that was not read never pass for
  another), and `Stale` what the tail can hold after how many faults:
  the header read back by `qbt_dest_part_verify` is `fw_info` again as long as no
  more than one operation has failed, so the sign is put behind that package.
* `SignInv` has five parts: what is signed was released (`HonestSign`), unless a failing read has written behind it (`spilled`); the open
  file is one of `Images` and `total` its length (`FilesInv`); the sectors of the
  file are erased ahead of the position (`ErasedInv`); the header written is the
  file's (`HeadInv`); and `sign` is reached only with `released = fw_info`
  (`SigningInv`). A package becomes whole by its last cell at the latest, and the
  sign's cell, being in an erased sector and behind it, is still erased then.
* `TornInv` has four: from the check to the verification the package of a release
  is whole and unsigned (`ReadyInv`), so a loss of power leaves something to start
  from again; `writer` is the stage that writes (`WriterInv`); what a release has
  not copied yet is erased and what it has is right (`CopyInv`), so the code is
  whole when the header is written, whether the verification passes or not; and
  the app is whole or the package can be released again, and whole wherever the
  jump or a resume comes next (`OutcomeInv`).
* `OnceInv` bounds the count: it is above the number of losses by one at most, and
  then a release is going on that nothing but a loss of power can keep from the
  sign (`ReleaseGoesOn`), or there is nothing to release in `download` (`Quiet`).
  The count starts again before the first cell of another package is stored
  (`StoringInv`).
* `BoardImplementsService` maps step by step (`StepImplements`). Cell 0 of the app
  names the only package it can hold, and cell 0 of `download` the only one on
  offer, so a step that changes neither to another header can only take away
  (`ImageChange`, `OfferGoes`). `ReleaseOnly` says that no resume is ever needed:
  the jump finds a whole app (`JumpsIntoWhole`).
* `BootEnds` takes `StepsLeft`, how many steps the bootloader is from the
  application at most, and shows for each place of `bpc` that a step leads to one
  that is nearer (`EachStepLeads`): the erase stops before `raw_size`, and what
  would lead away, a resume or a reboot, is excluded by `ReleaseOnly`. So at most
  `8 + 2 * PartLen["app"]` steps are between a reset and the application.
* `StoredIsRun` joins `SignInv` and `OnceInv` (`HandOverInv`): at the jump there is
  nothing to release in `download`, so a package that is accepted there is signed,
  hence the last one released, and the app holds the last one released
  (`LastIsWhole`).

The hypotheses are needed. Without `SignErased`, `SignIsHonest` is false
(`stale_sign`). Without `WholeFiles` a truncated file is completed by what an
older, longer package left behind in its last sectors, sign included, or a file
longer than its header says brings a sign along. Without `HeaderFits`
(`raw_size` is the whole app partition) the header overwrites the end of the code
(`qboot.c:754`), the verification fails, its result is ignored (`qboot.c:1220`),
and the jump, which looks at two words, starts the code all the same. Without
`SignFits` a package is never signed and is released at every boot. The packages
of `safety` and `service` satisfy all of them but `SignFits`, which those of
`service` satisfy too.

### The port

* `TypeInv` adds that an entry of the list holds at least one frame, and `OpenOK`
  that an open that is still clearing has a reference left to take.
* `CountOK`: an entry that is being cleared leaves the list first and the counter
  later, so the counter is one ahead in between, and the value
  `rx_lep_buf_num--` has loaded is still the counter's as long as the receive
  thread has not changed the list (`overlapped`).
* `OrderOK` relates the three places a frame passes. Chip, pbuf, list: what is
  further on arrived earlier (`ChipOrder`); and the list is the end of what was
  ever stored, all of it newer than what the reader got last (`EndOf`). That is
  inductive for appending, evicting the oldest, reading and clearing alike.
* `NoticeOK` says for each place of the receive thread what answers a bit that is
  set: a mail; the mail that the link change still to be handled will post
  (`Noticed`); frames read or still to be read, for which `fmc_eth_rx` is called
  once more. `FramesNoticed` alone, which speaks of the waiting thread, is not
  inductive: `RXI` may be left set without a frame (it arrived between the
  acknowledgement and the reading), and frames may come while another bit holds the
  line low. Both are harmless only because a mail, or another turn of the loop, is
  then certain (`Taking`, `Acking`, `Handling`, `Leaving`). With it `FramesTaken`
  only needs that the receive thread runs and gets the mutex.
* `MutexOK` says that whoever is between take and release holds the mutex, and
  nobody else. `StepsInside` counts the steps to the release: `ks_irq` handles each
  bit once, the queue's cleaning last (`CleansLast`), so that nothing that arrives
  meanwhile prolongs its stay. Each action is then a step of one thread that stays
  outside, takes, comes nearer or releases (`StepOf`).

### Syswatch

* `Inv` has four parts besides the types: the running thread is as urgent as any
  ready one and whoever hangs is ready (`SchedulerOK`); the thread noted as the
  lowest has not been killed and is no more urgent than the running one, nor,
  once every second has left time for idle, than one that hangs (`NotedOK`); the
  list is empty and non-empty in the steps that suppose so (`ListOK`); and it
  holds every killed thread, once (`Remembered`).
* `Lone` adds for `LoneHogFound` that the seconds start from nothing when the
  only thread that ever hung begins to, and that what has been noted since is not
  less urgent than it.
* `HangIsTimed` follows from `Inv` alone: idle cannot come next while a hung thread
  is ready, so no switch resets the seconds (`ClockOfSwitch`, `ClockOfDelay`), and
  while syswatch confirms there is a thread noted, so that no timeout passes in
  vain. The test for `RT_NULL` in `syswatch_thread_except_resolve` is never true.
* `ResumeIsTimed` follows from `Inv` too: while the list holds somebody syswatch
  confirms or waits (`WaitingFacts`), a kill only adds to the list, idle's next run
  ends the confirmation, and in the wait the hook touches nothing (`Outcome`).

### The frames

The codes are recursive functions over the places of a frame. The installed
provers cannot use the library's induction schemas, which take an operator, so
`FrameCodec_proofs` starts from well-foundedness of `<` on the naturals (a theorem
of the library) and states induction for sets: a set of naturals has a least
element (`Least`), what holds of 0 and of the successor fills `0 .. n` (`Climb`), and
a loop over `1 .. n` has exactly one table of its values (`Recursion`). With them:

* an escaped 7C7E frame has no marker inside, and unescaping what was written so
  far gives what was read so far;
* `fffeFrame` is harder, because a later byte overwrites an earlier one (the
  distance of a pair is known when its second 0xff comes, and that byte is then
  left out). What decodes is described for every prefix with its last, open 0xff,
  and a distance never reaches beyond the byte it stands for (`FffeUnpairs`).
* so a coded frame has its markers at its ends only, and decodes to itself.

`FrameLink_proofs` looks at `All`, what is in the buffer and behind it on the line.

* `Typed` gives types to everything, with the bounds on the length of a buffer.
* `Flow`: the bytes in `All` keep the order of the calls and of their places, and of
  a call that noise has spared they are the bytes it wrote, without a gap
  (`Tidy`). Between a start marker and the next end marker of a spared call there
  is then that call's frame and nothing else; the round trip says what
  `rx_indicate` gets. `Sound` is the case in which this can be said: every line
  for 7C7E, a line without noise for FFFE, whose markers are two bytes, so that a
  damaged byte can make one with the first byte of a spared frame.
* `Arrival`, for buffers with room (`Roomy`): of a successful, spared call to this
  end that has not been delivered (`Pending`), all of the frame is still to be
  searched, its last byte still on the line, and a 7C7E buffer that has been
  searched begins with it if it has any of it (`StillComes`). In FFFE what is on
  the way begins with the first byte of a call, every first byte is followed by
  its second (`Heads`), and the buffer holds no more than a frame. So the buffer is
  never given up with a spared frame in it, and a search finds that frame or
  keeps it.

These invariants were model-checked before they were proved. The hypotheses are
needed:

* without `FramesFit` a frame is cut at its length modulo 256 (`long_frame`); bodies
  of up to 120 bytes satisfy it whatever they contain (`ShortFramesFit`);
* `1 \notin Cuts`: a write that stops after the first byte of a start marker leaves
  0xff on the line. Thirteen of them in a row followed by the first byte of a
  frame are 14 bytes to be searched without a marker, `fffeFrame_accept` drops them
  all (`indexS == -1 && indexE == -1`), and the intact frame has lost its first byte;
* noise in FFFE: the same happens behind a damaged start marker.

Model-checked only: `NothingInvented` on a line with noise, which is true up to the
number of damaged bytes that can fool a sum of 8 bits or a CRC, so no theorem can
say it for all (`SparedCallsAreExact` is what can be said); and all liveness, which
is beyond this prover: `EventuallyRuns`, `DownloadIsInstalled`, `FramesTaken`,
`SendersProceed`, `HogIsStopped`, `KilledIsResumed`. Of each the part
that is a safety property is proved; what it leaves to fairness is that the next
step comes, and that the mutex is handed to who waits:

| Liveness, by TLC | Safety behind it, by TLAPS |
|---|---|
| `EventuallyRuns` | `BootComesToAnEnd`: each step of a boot leads nearer |
| `DownloadIsInstalled` | `RunsWhatIsStored`: where it ends |
| `FramesTaken` | `FramesNoticed`: something is due that takes the frame |
| `SendersProceed` | `MutexComesBack`: one holder, each of whose steps leads to its release |
| `HogIsStopped` | `HangRunsOut`: the seconds until a kill or a reset are bounded |
| `KilledIsResumed` | `ResumeRunsOut`: nobody is dropped, and the wait is bounded |

## 6. Not modelled

Upgrade: the interactive shell of the bootloader; the product code; packages whose
`part_name` is `download` or `factory`; bodies that do not unpack to `raw_size`;
sectors of unequal size (the on-chip flash of the F4 has them: `SectorCells` is
uniform); SPI flash, eMMC and EEPROM as back ends of FAL; failing `read()`s of an
eMMC file; a failing `fal_init`.

Port: initialisation, control, register access, lengths in bytes (a frame is short
or not: `PbufFrames`), what lwIP does with a pbuf, `ks_net_open` and `ks_net_stop`.

Syswatch: the hardware watchdog and its idle hook, the event hook of the
application, the 100 ms between the decision to reset and the reset, a start that
fails.

Frames: initialisation that fails, closing, payloads of 250 bytes and more except
the one of `long_frame`.

The other components of section 1 have their reasons in `PROJECT.json`. Most are
drivers whose logic is a sequence of register accesses, with one thread and one
interrupt between which RT-Thread's own primitives stand; others are code of other
projects (RT-Thread packages, vendor HAL and CMSIS headers, which are most of the
three million lines below `src/`). Nothing in them keeps state that is spread over
several actors the way it is in the components modelled, except
`drv_usart_v2.c`, see the plan.

## 7. Plan

1. (done) Flash, bootloader, update thread, composition, abstract service, and
   the theorems about all their safety properties, the refinement included.
2. (done) `LinkLayer` with the chip's receive queue, and its theorems.
3. (done) `FrameCodec`, `FrameLink`: HDLC 7C7E and FFFE over a line that loses,
   damages and cuts, and their theorems: round trips, nothing invented, every
   intact frame arrives.
4. (done) `SysWatch` over `RtThreads`, and its theorems.
5. Left: the DMA ring and the RS485 direction of `drv_usart_v2.c`; the
   bootloader's shell; sectors of unequal size; what `LinkLayer` still keeps
   after a clear that was overlapped.
