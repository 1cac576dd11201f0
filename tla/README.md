# Verification of the Cheshire boot software

Cheshire is a Linux-capable SoC around CVA6 cores. What this repository itself
contributes, besides the integration of IP, is the software that brings the
chip up: a boot ROM, the drivers it boots through, a zero-stage loader, a C
runtime, and the test bench that plays the host on the other side of JTAG, the
serial link and the UART. This directory models that software in TLA+, checks
it with TLC, and proves with TLAPS, for every value of the constants, every
safety property that the runs check but one.

Paths below are relative to the repository; `file:line` names the code.

## 1. Inventory

### What runs when

After reset every hart starts in the boot ROM (`hw/bootrom/cheshire_bootrom.S`).
All but one pause. The remaining one waits for the self test of the last-level
cache, turns the cache into scratchpad memory (SPM), and enters `main`
(`cheshire_bootrom.c`), which measures the core clock against the real-time
clock and dispatches on the boot mode: passive (a host loads a program over
JTAG, serial link or UART), SD card, SPI flash or I2C EEPROM. The last three
read a GPT partition, or the raw start of the disk, to SPM. Either way the hart
ends in `boot_next_stage`, wakes the others, and all jump to the program. From
a disk that program is the zero-stage loader, which reads the device tree and
the firmware with the read function that the ROM left in scratch registers.

The parts communicate by shared registers and wires, nearly never by calls:

| from | to | through |
| --- | --- | --- |
| boot hart | other harts | CLINT `msip`, `SCRATCH[4..5]` |
| host | boot hart | `SCRATCH[0..2]`, UART bytes, the debug module |
| boot hart | host | LLC `CFG_SPM_LOW`, `SCRATCH[2]`, UART bytes |
| boot ROM | zero-stage loader | `SCRATCH[0,1,3]`: read function, handle, gp |
| drivers | devices | SPI, I2C and UART controllers, polled |

### Components

* **SMP hand-over** (`sw/include/smp.h`, `cheshire_bootrom.S:88-109`).
  State: `msip` per hart, `mie` per hart, the address in two scratch registers,
  each hart's position. Operations: `smp_pause`, the stores of the address, the
  fence, the three loops of `smp_resume`, the jump. Hard: harts arrive and fall
  asleep at any time relative to the wake-ups; `wfi` may end for no reason;
  stores to different devices are not ordered; the next stage may already be
  running, and sending interrupts, on some harts. Right if no wake-up is lost,
  no hart enters before all are awake, and all enter the same, right address.
* **CLINT driver** (`sw/lib/dif/clint.c`). State: `mtime`, `mtimecmp`, the
  interrupt enables, the captures of the frequency measurement. Hard: 64-bit
  registers in two halves while one counts; phase of two clocks; an interrupt
  between two instructions. Right if a spin is never short, the measurement is
  right to a bound, the comparator is whole when it matters, a sleep sleeps and
  wakes.
* **SD card driver** (`sw/lib/hal/spi_sdcard.c`). State: chip select, clock,
  the card's own state, position in the block transfer, buffers. Hard: a card
  that answers late, never or wrongly, disturbed data, segments that fail,
  requests that begin and end inside blocks, check codes from tables. Right if
  success means the exact bytes in place, nothing else is ever written, the card
  is left listening, every call ends, and the check codes are the card's. What a
  read returns that follows a failed one is nothing to rely on.
* **Passive boot** (`cheshire_bootrom.S:59-78`, `cheshire_bootrom.c:24-35`,
  `sw/lib/hal/uart_debug.c`, `sw/lib/dif/uart.c`, `sw/lib/crt0.S:118-131`) and
  its **hosts** (`target/sim/src/vip_cheshire_soc.sv`). State: the LLC's
  configuration, scratch registers, bytes on two serial wires, memory, the
  positions of both sides. Hard: two programs written apart, in two languages,
  with no shared framing; one register that carries a launch signal one way
  and a result the other way; a debugger that interrupts anywhere. Right if the
  image is whole before it runs, the entry point is the host's, the result
  arrives and is the program's.
* **GPT boot** and **zero-stage loader** (`sw/lib/gpt.c`, `sw/boot/zsl.c`).
  State: the partition chosen so far, the scratch registers of the hand-over.
  Hard: failing reads, limits that are inclusive, entries that do not fit.
  Right if what is executed is the first matching partition that fits, all of
  it, or else the documented fallback.
* **I2C EEPROM**, **SPI flash** (`sw/lib/hal/i2c_24fc1025.c`,
  `spi_s25fs512s.c`). State: controller FIFOs, the devices' write state. Hard:
  a controller that runs beside the driver, FIFO limits, chunk boundaries,
  unbounded polls, write enable and stop conditions. Right if read data are
  exact, nothing is queued that does not fit, a busy device is only polled,
  writes stay in their pages, and every call returns.
* **C runtime** (`sw/lib/crt0.S`). State: sp, gp, ra, saved context, `.bss`.
  Right if the caller gets its registers back, `.bss` is zero to its last byte,
  and a trap leaves no trace in what it interrupts.
* **ELF loader** (`target/sim/src/elfloader.cpp`) and the preload loops of the
  host: sections cut into bursts and beats. Right if memory holds the section,
  all of it and nothing more.
* **Hardware written here**: address maps (`hw/cheshire_pkg.sv`),
  `hw/cheshire_soc.sv`, `hw/mmu_stub.sv`, `hw/future/axi_to_reg_v2.sv`,
  `target/xilinx/src/fan_ctrl.sv`. Not modelled, see section 7.
* Out of scope: vendored IP (AXI, LLC, CVA6, PLIC, DMA, serial link, the
  opentitan `dif` layer), generated code (`hw/regs`, `cheshire_bootrom.sv`),
  FPGA and ASIC targets, scripts, test programs, `util/gen_bootrom.py`. Where
  modelled code uses such a part, the model contains what the code relies on,
  and `PROJECT.json` marks it external.

`PROJECT.json` lists every hazard with its line, and the properties aimed at it.

## 2. Plan

| step | module | contents | status |
| --- | --- | --- | --- |
| 1 | `BootBarrier`, `SmpBoot`, `SmpBootProofs` | hand-over, its abstract barrier, proofs | done |
| 2 | `Clint` | timer, spin, measurement, sleep | done |
| 3 | `SdCard` | initialization and block reads | done |
| 4 | `PassiveBoot`, `MCPassiveBoot` | LLC, hosts, debug server, end of computation | done |
| 5 | `GptBoot`, `MCGptBoot` | GPT search, fallbacks, zero-stage loader over a disk whose reads may fail | done |
| 6 | `DiskRead`, `I2cEeprom`, `SpiFlash`, `BootDisks`, `MCBootDisks` | the two other drivers with their devices, and the abstract read that all three implement | done |
| 7 | `ElfLoad` | the ELF section list; sections to bursts to beats | done |
| 8 | `Crt0`, `ProgramStart`, `MCProgramStart` | context, `.bss`, trap wrapper; loading and start together | done |
| 9 | `Crc`, `MCSdCard` | the check codes of the SD card; a second read; segments that fail | done |
| 10 | `DiskProofs` | the reads of EEPROM and flash, for all sizes | done |
| 11 | `GptProofs`, `StartProofs` | the bounds of the disk boot's copies; the context the runtime gives back | done |
| 12 | `Quotients`, `ClintProofs` | division and products; the timer | done |
| 13 | `SdProofs`, `PassiveProofs` | the SD card's reads; hosts, boot ROM and debug server | done |
| 14 | `GptProofs`, `StartProofs`, `DiskProofs` | what a disk boot chooses; loading and the image that `main` finds; the I2C FIFO | done |
| 15 | `HostedRun`, `MCClint` | the abstract run that the passive boot implements; the SD card's reads as `DiskRead` | done |
| 16 | `PassiveProofs`, `SdProofs`, `GptProofs`, `DiskProofs` | both refinements; measures that bound the calls of the disk drivers and the disk boot | done |
| 17 | `DiskRead`, `SdCard`, `GptBoot`, `SpiFlash`, and their proofs | calls after calls that failed: what a disk that does not recover may return, and what of a boot is still right then | done |
| 18 | `PassiveBoot`, `I2cEeprom`, `Crt0`, and their proofs | every result of a program, odd and with the top bit; bytes taken for text; requests shorter than a chunk; trap handlers that change registers | done |

No module uses RECURSIVE operators; only `Crc`, which needs bitwise operators,
is out of the prover's reach. Each
component has one run for everything that holds of it. Runs that show a
disagreement stay only as long as they say more than the newer ones.

## 3. The models

### SmpBoot: the multi-hart hand-over

One step is one load or store, or one instruction that matters.

| code | model |
| --- | --- |
| `smp_pause` | `Pause`, then `Wfi`, `WfiSpurious`, `TestMip` (loop 2 is the same loop in the paused and in the boot hart) |
| stores to `SCRATCH[4]`, `[5]`; `fence` | `StoreAddress`, `Fence` |
| `smp_resume` loop 1 | `WakeNext` |
| loop 2, clearing the own flag | `Wfi`, `TestMip`, `ClearOwn` |
| loop 3 | `Scan` |
| loads of the address, `jalr`, `ret` | `LoadHi`, `LoadLo`, `Jump`, `Return` |

A store is *issued* by its hart and *lands* later (`LandScratch`, `LandWake`,
`LandClear`): stores of a hart to the same device land in order, to different
devices in any order. This is what makes the fence matter. `SendIpi` and
`HandleIpi` are the next stage: it may interrupt harts that run it, and clears
its interrupts before it returns to the ROM. That firmware does not interrupt
harts it has not started is an assumption on it, not on the ROM.

`BootBarrier` says what this is for, without flags or registers: an address is
published, harts are woken, and none enters before all have been woken; all
enter at the published address. `SmpBoot!BarrierSpec` is the refinement: the
address is published when both halves have landed, a hart is woken when it has
left loop 2.

The barrier holds for `NonSmpHart = 0`, the value in `smp.h`. Loop 3 starts at
hart 0's flag, which is cleared only after loop 1; with another boot hart, hart
0 can be through before the last flags are set. The address and the wake-ups
are right for every boot hart: this is proved; the runs have boot hart 0.

### Clint: the timer

Every step takes 1 to `MaxStall` cycles, and `mtime` is a function of the cycle
count and a phase. `clint_get_mtime` is two steps, in the order given by
`Orders`, because C does not order the operands of `|` (clint.c:15). The run has
`high_first`, source order, which compilers keep for volatile reads; with
`low_first` TLC finds a spin that ends half a range early. Calls are made one
after the other, with any argument in `Ticks`. The trap handler (`TimerTrap`,
external: clint.h:24 asks for one) silences the timer and returns.

### SdCard: card and driver

One step is an SPI segment: a command, one polled byte, one chunk of a block;
any of them may fail in the SPI host (`SegmentFails`).
The card is external and answers, stays silent or reports an error within the
protocol; the wire may disturb any chunk. CRC16 is taken to find what is
disturbed, as `Crc` supports. `BlockSize`, `FifoBytes` and the three timeouts are constants; the
runs use 4, 3 and 2 or 3, so that a block takes two chunks of unequal length, a
request touches up to four blocks, and each polling loop can end by an answer
as well as by its count. A byte of the card is its own address, so that a byte
out of place shows. `mask` is the value of an undefined shift, fixed per build.
The card is addressed in blocks, as high-capacity cards are: the driver discards
the capacity bit (spi_sdcard.c:179) and always sends block numbers (line 246), so
that it reads other cards at the wrong place.
A second read (`ReadAgain`) follows whatever became of the first, as in
`gpt_boot_part_else_raw`; after one that succeeded everything holds again, after
one that failed the card may still be sending, and only that nothing is written
elsewhere (`WritesInside`, part of `ReadsLikeADisk`) and `Ends` are claimed.

The boot code calls this driver through the same pointer as the other two, so it
is an implementation of `DiskRead` (`ReadsLikeADisk`). To its caller a read is
under way while the command is CMD17, CMD18 or the CMD12 that ends it, the memory
is the model's `mem`. A read of no bytes sends no command and is none. `sound`
of `DiskRead` is that no read has failed (`Sound`): the driver leaves a card that is
still sending, and a read after that may return 0 with the bytes of other blocks,
as `gpt.c` asks for at line 83 after a failure at line 18. A return of 0 counts as
one whenever it comes; what it means after a failure is for the caller to say, and
`GptBoot` does. A build without CRC never promises what it returns.

| code | model |
| --- | --- |
| `spi_sdcard_init`, `__spi_sdcard_activate` | `Configure`, `CheckResponse` (`Following`), `SpeedUp` |
| `__spi_sdcard_cmd`, `_cmd_check` | `SendCommand`, `PollResponse`, `PollBusy`, `ReadRest`, `Release`, `CheckResponse` |
| `__spi_sdcard_read`, `_read_blocks` | `Read`, `ReadAgain`, `PollToken`, `ReadChunk`, `Crc`, `Detach` |

### Crc: check codes

`Crc7` and `Crc16` are the lookup loops of spi_sdcard.c:29-88 with their
tables, shifts and byte order, `BuildCmd` the command of lines 226-236, all over
bytes as they go over the wire. `Remainder` is the definition they are compared
with: division by the generator polynomial, bit by bit. `MCSdCard` compares them
on every pair `<<d, 255 - d>>` and a longer block (which uses every entry of the
table), on the commands written out in the code, and with bits of a byte or
of two neighbouring bytes inverted.

### PassiveBoot: boot ROM and host

Hart 0 goes from the LLC's self test (`WaitBist` to `Commit`) over the polling
loop (`PollScratch`, `CheckUart`) to the launch (`ClearLaunch`, the two reads
of the entry point) or the debug server (`Greet`, the `Serve` actions), the
program (`Run`) and its end (`CrtExit`, `ServeReturn`, `RomExit`). The host is
of one kind per behaviour: `JtagHalt` and `JtagResume`; `SlinkEntryHigh`,
`SlinkEntryLow`, `SlinkLaunch`; or the UART tasks from `Challenge` to
`ReceiveCode`. Wires are queues of bytes; a 64-bit field is one element. The
image is three bursts, one of them empty: a section of a whole number of bursts ends
with such a one. The debug server takes it. Over the serial link, which cuts sections
at another length, it may not be there; if it is, the write task ends the simulation
(`SlinkZeroLength`), which `Ends` excepts.

The test bench reads the UART in a process of its own, which gives a byte to a host
that waits for one (`Scooping`, `Scoop`) and otherwise prints it, whatever it is
(`ReadText`). A host that came late to wait would lose its answer; it does not,
because it takes no simulation time between its last byte and the wait.

`HostPatient` stands for the times the host waits: that the LLC has been
committed by the time a poll of `CFG_SPM_LOW` returns and a halt takes effect,
and that the debug loop is running when the UART challenge is sent. The code
does not check the first: `CFG_SPM_LOW` is written three stores before
`CFG_COMMIT`, and with `HostPatient = FALSE` TLC finds a JTAG host that halts
the hart between them and preloads into a cache that is not yet SPM
(`RunsWholeImage`). A program started over JTAG returns to the `ra` of the code
that was halted (`Interrupted`); where that is depends on the build, and every
place it can be in the polling loop is allowed. There an odd result looks
like a launch signal: the ROM clears `scratch[2]` and jumps to `scratch[1:0]`,
which a debugger has not written (`lost`), and whether the debugger has seen the
result before is a race. `Misread` names that case. Programs return any value of
`Returns`, odd ones and ones with the top bit; `ExitWord` loses that bit, and
`Delivered` says so.
The output of a program is text: a byte 0x14 in it would be taken for the end of
computation by the UART host, which ends the session early; the run's program
prints none.

`HostedRun` says what all this is for, to whoever loads a program, in four
steps: load (a burst of the image at a time), enter, return, report. There is
no register in it, no wire, and no host in particular. `PassiveBoot!RunsHosted`
is the refinement: a burst is loaded when it is in memory as long as it should
be, the program runs from its entry at the host's address (a program entered
elsewhere does not count), has returned when `scratch[2]` says so or the ROM
has taken that for a launch signal, and is reported when the host has the code. A burst without bytes is no part of the
image, since no host can be asked to have loaded it.

### GptBoot: disk boot and zero-stage loader

| code | model |
| --- | --- |
| `boot_spi_sdcard`, `boot_spi_s25fs512s`, `boot_i2c_24fc1025` | `InitDevice` |
| `gpt_check_signature` | `CheckSignature` |
| `gpt_find_partition` | `ReadHeader`, `ReadEntry`, `MatchType`, `SearchEnds`, `ReadFails` |
| `gpt_boot_part_else_raw` | `BootCopy`, `CopyFails` |
| `main` and `load_part_or_spin` of the loader | `StartLoader`, `LoadPart`, `OnError`, `OnNone` |

Both programs call the same search, so there is one search, and `who` says for
whom. A step is one read of the disk with what the code does with its result;
it may fail, and a copy that fails has written any part of its sectors. LBAs
are numbers modulo `NumLbas`, so that a difference can wrap around; addresses and
lengths in bytes wrap earlier, at `AddrLbas` sectors (gpt.c:81). What the
code in SPM is, is decided by the sectors copied: it is the loader if they
begin with all of a loader partition (`HoldsLoader`). `failed` is a history
variable: some call of the driver has failed. What a read returns that follows
such a one depends on the disk: one that recovers returns what it holds, one that
does not (an SD card, see above) may report success with anything (`Reliable`,
`Right`), with entries of another table, too (`Misread`). The place that is copied
from and to is still computed by the code, and the properties speak of that then.
The loader launches what it has even if a copy has failed (zsl.c:44). A disk that is read as raw holds no loader.

The search is compared with a definition without a loop (`FirstOf`): the first
entry of the type whose extent is well formed and within the limit.

### DiskRead, I2cEeprom, SpiFlash, BootDisks: the other two disks

`DiskRead` is what `gpt_boot_part_else_raw` and the zero-stage loader rely on
when they call a read function: a call that returns 0 has copied exactly the
bytes asked for, a failing one promises nothing, and neither writes outside the
buffer, which is as long as the request. A call that fails may leave a disk
unsound, and then a 0 means nothing any more. All three drivers implement it, the
EEPROM's for the requests named below only. Its variables are those of
the two drivers here, which extend it, so that `ReadSpec` is a property of
`BootDisks` without a mapping; `SdCard` has a mapping of its own.

| code | model |
| --- | --- |
| `i2c_24fc1025_init` | `Setup` |
| `__i2c_24fc1025_access` | `Access`, `NextChunk` |
| `__i2c_24fc1025_access_chunk` | `IssueRead`, `IssueWrite`, `Collect` |
| I2C controller and EEPROM (external) | `SendAddress`, `ReceiveByte`, `SendData` |
| `spi_s25fs512s_init`, `_single_read` | `FlashSetup`, `SingleRead`, `ReadChunk`, `ReadEnds` |
| `_single_flash`, `_single_flash_page`, `_poll_wip` | `SingleFlash`, `WriteEnable`, `NextPage`, `Erase`, `Program`, `Poll` |
| a transaction that fails | `TransactionFails` |
| flash (external) | `Take`, `Done` |

The I2C controller is a process of its own: the driver queues the format bytes of
a chunk and polls FIFO levels, the controller sends and receives in between. An
unaligned read takes its first chunk up to the next FIFO boundary even where the
request ends before, and what lies behind the caller's buffer is written over.
`gpt.c` makes such requests: 16 bytes out of the middle of 64, into structures on
the stack (lines 32 and 44). `ReadSpec` holds for the requests of `OnMedium`, which
reach to the end of their first chunk; `eeprom_overrun` shows the others. The driver
takes empty FIFOs for an idle controller (`Vacant`), which may still be at its last
byte (`FinishByte`). The block select is modelled as
computed (`BlockSelect`): bit 16 of the address goes to bit 15 of what is sent as
a byte, hence nowhere. A write is modelled as the code makes it, with no stop
condition, so that the device programs nothing, and with the second half of a
chunk a whole chunk further on; nothing in the code says what a write leaves, so
no property does. The flash obeys an erase or program if it is enabled and not
busy; `keeps` leaves open whether it stays enabled. A transaction that fails ends
its call, and calls go on (`TransactionFails`); after a flashing that has failed the
device may still be busy, and a read return what an undriven line gives: `sound` is
false then. Reads of the flash check the
clock (`speed`), as its flashing does.

`BootDisks` puts one of the two media in use; calls follow one another in any
order, with any request.

### ElfLoad, Crt0, ProgramStart: from the file to main and back

| code | model |
| --- | --- |
| `read_elf`, `load_elf`, `write` | `ReadElf`, then `LoadHeader` for each program header (`Write`) |
| `get_section`, `read_section`, `get_entry` | `GetSection` |
| `jtag_elf_preload`, `slink_elf_preload`, `uart_debug_elf_preload` | `JtagWord`, `SlinkWrite`, `UartWrite`, `Written` |
| `_start` to `call main` | `Enter`, `SetUp`, `Vector`, `ZeroBss`, `ZeroByte`, `InitFp`, `CallMain` |
| `_trap_handler_wrap` | `Trap`, `Wrap`, `Unwrap` |
| `main`, `trap_vector` (external) | `Work`, `Leave`, `Handle` |
| `_exit` | `Restore`, `ShiftResult`, `LoadBase`, `StoreResult` |

A byte is its program header and its offset there, so that a byte out of place
shows. The loops over bursts go on while `i <= sec_len`: one word, burst or
command starts at the section's end if the step divides its length. Over JTAG
and the serial link what exceeds the section is written as zeros up to the end
of the word; over the serial link a burst without beats ends the simulation
(`fatal`). What a debug module does with an unaligned word is left open.

`Tidy` states for which files loading must be exact: sections ascend without
overlap; over JTAG they start aligned; over the serial link they start aligned or
end in the first burst, since the write mask of vip_cheshire_soc.sv:734 is applied
to the first beat of *every* burst. Without the last condition TLC finds bytes
missing at burst boundaries.

A file of the model carries what its linker decided (`program`): where `_start`
and `.bss` are, whether there is a stack and a global pointer, and its `trap_vector`:
one that never returns (`none`; that of zsl.c:91 spins), one that keeps the registers
a caller has to save (`keeps`), or one that changes them, as the calling convention
allows (`clobbers`; that of sw/tests/rvv_test.h:69 may). Interrupts may come in
`main`, which may switch them
on, and between the instructions of `_exit` that pass the result on. Of the
registers that the wrapper does not save the model has those that `_exit` uses; what
a `main` does when one of its own has changed is left open (`lost`). `ProgramStart` lets the runtime work on the memory that the
host has loaded; how the entry point gets to the hart is PassiveBoot's part, and
a hart sent anywhere else is `lost`.

## 4. The runs

Bounds are chosen so that the cases named are reached; wrong versions of single
definitions, kept in the modules next to the right ones, show for every property
of a passing run that it can fail.

| run | bounds | shows |
| --- | --- | --- |
| `smp_boot` | 4 harts, 2 words, 2 firmware interrupts | `NobodyLeftBehind`, `EntersBootAddress`, `WakeUpNotLost`, that every hart enters (`EveryHartEnters`), and that `SmpBoot` implements `BootBarrier` (`BarrierSpec`); four harts leave two between the first and the last of the scan |
| `clint` | halves of 8 values, starts at 0 and two ticks before a carry, 8 cycles a tick, every phase and stall; two calls or more in a row | `SpinNotEarly` across the carry, `FreqAccurate` where there is none, `ArmedForTarget` |
| `clint_sleep_early` | halves of 4 values, targets in the past and in the future | violated: a sleep to a future target returns at once (`SleepReachesTarget`) |
| `sdcard` | blocks of 4 in chunks of 3, addresses 4 to 7, lengths 0 to 9, then a second read of 3 or 6 at any address, all kinds of card | `ReadExact`, `Detached`, `Ends`, and that the driver implements `DiskRead` (`ReadsLikeADisk`), for every alignment over one to four blocks; `CodesAgree` for 257 blocks and the seven fixed commands |
| `passive_boot` | all three hosts, with and without LLC; results 0, 1, 2 and, with the top bit at 4, 7; bursts of 2, 0 and 1 | `RunsWholeImage`, `ExitCodeExact`, `EocMeansReturned`, `Ends`, `EocStays`, and that `PassiveBoot` implements `HostedRun` (`RunsHosted`) |
| `jtag_odd` | the same, over JTAG | violated: an odd result of a program that returns into the polling loop is cleared (`EocStaysAlways`) |
| `gpt_boot` | 38,900 starts: every table of up to three entries, each of any type, unused, ill-formed or up to one sector longer than the largest limit; limits of 2, 1 and 3; disks that recover from a failed read and disks that may answer with three other tables then | `BootsChosen`, `NothingBeyond`, `LaunchesRight`, `FailsForAReason`, `Ends` |
| `boot_disks` | FIFOs of 8 and 4 bytes, reads of 0 to 17 bytes on and off a boundary (none to three chunks), pages of two sectors of 2 bytes, jobs of none to two pages, devices that keep and that clear write enable, four clocks | `FormatFits`, `WaitsWhileBusy`, `ReadSpec`, `FlashesOwnPages`, `CallsReturn` |
| `eeprom_overrun` | FIFOs of 8 bytes, 2 bytes from the middle of 8 on | violated: `ReadsFieldsOnly` |
| `program_start` | words of 2, bursts of 4 and 3 bytes; single sections of every content and size up to 6 at an odd and an even address, pairs that touch in both orders, content right behind `.bss` (as `.bulk` is in spm.ld), every faulty file; `.bss` of 0, 3 and 7 bytes in turns of 4; two harts, up to two traps, three kinds of trap handler | `LoadedExact`, `MainSeesImage`, `ReturnsContext`, `Ends` |
| `trap_context` | the same | violated: a trap in `_exit` takes the result away (`TrapsHarmless`) |
| `caller_gp` | the same | violated: the caller gets the program's global pointer (`ContextRestored`) |

Every passing run also checks its module's `TypeOK`. `EveryHartEnters`,
`CallsReturn` and the `Ends` of the SD card, the passive boot, the disk boot and
the program are liveness properties; `BarrierSpec`, `ReadSpec`, `ReadsLikeADisk` and `RunsHosted` are
refinements; `EocStays` and `FlashesOwnPages` say what no step may do; the others
are invariants.

`FreqAccurate` is stated for measurements during which the high half of `mtime`
does not change. A carry between the two loads gives a time that is off by a
whole half, and the loop that waits for a tick then ends at once; on the chip
this can happen once in 2^32 ticks, and never right after reset.

`CHECK_DEADLOCK FALSE` stands in the runs of `SmpBoot`, where every hart may end
in the `ret` that jumps to itself; of `Clint`, whose behaviours stop at
`MaxCycle`; of `BootDisks`, where a flash driver that has been given a clock above
the core's is not called again; and of `ProgramStart`, where other harts are parked
for ever, a trap handler may not return, and a simulation may have ended.

### Fairness

* `SmpBoot`: weak fairness of every hart's own steps and of every store landing.
  A hart executes as long as it is not stopped in `wfi`, and the interconnect
  delivers. `WfiSpurious`, `SendIpi` and `Return` are not fair: nothing must
  happen by them. The boot hart's fairness includes finding a next stage.
* `SdCard`: weak fairness of the driver, and strong fairness of the card's
  leaving the idle state: ACMD41 is repeated without limit (spi_sdcard.c:174),
  so initialization against a card that never gets ready never ends. The card
  may stop answering anywhere else.
* `PassiveBoot`: weak fairness of hart 0 and of the host.
* `GptBoot`: weak fairness of the steps in which a read returns: every read of
  the drivers does, as `Ends` of the SD card and `CallsReturn` show.
* `BootDisks`: weak fairness of the driver's steps within a call, of the I2C
  controller, and of the flash's finishing what it works on. Calls are not fair,
  nor is a failing transaction.
* `ProgramStart`: weak fairness of the host, of the hart, and of `main`
  returning. Traps are not fair; their number is bounded by `MaxTraps`, since a
  hart that is interrupted for ever does not get on.

## 5. Proofs

Some theorems have a premise on the constants. Each premise is a definition of the
component's module (`Fitting` of `PassiveBoot`, `Addressable` of `GptBoot`, `Top`,
`Roomy` and `LinkedAbove` of `ProgramStart`, `NoWrap` of `Clint`, `OnMedium` of
`BootDisks`), and the MC module that gives a run its constants assumes it, so that
TLC evaluates it: the runs are instances of the theorems. The exception is
`eeprom_overrun`, a violation run whose request ends inside its first chunk on
purpose; `MCBootDisks` says so.

`SmpBootProofs` proves for every number of harts, every set of words and every
number of firmware interrupts:

* `TypeCorrect`: `Spec => []TypeOK`;
* `EntryCorrect`: `Spec => []EntersBootAddress`, for every boot hart;
* `WakeUpCorrect`: `Spec => []WakeUpNotLost`, for every boot hart;
* `BarrierCorrect`: `NonSmpHart = 0 => (Spec => []NobodyLeftBehind)`;
* `BarrierRefined`: `NonSmpHart = 0 => (Spec => Barrier!Spec)`.

Assumptions are those `SmpBoot` declares: at least one hart, the boot hart is one
of them, a word may be 0, the placeholder is not an address.

The argument has two layers. `HandOverInv` ties the boot hart's position to the
counts of stores: no wake-up is issued before both halves of the address have
landed, which is what the fence is for, and a flag that has been set for a hart
stays set until the hart clears it. From it follow the address (a hart is past
loop 2 only if a wake-up has landed, hence reads the published halves) and that
no wake-up is lost. Neither property is inductive: a state with the address
half-landed and a flag set satisfies both, and the next load breaks them.
`BarrierInv` adds, for boot hart 0, what a scan has established: a hart that has
passed index i of loop 3 has seen hart i's flag clear after loop 1, so hart i is
awake. Index 0 is the pivot: hart 0 clears its own flag only after it has issued
all wake-ups, and its store is ordered behind them. With another boot hart the
pivot is missing, hence the premise.

`DiskProofs` proves for every FIFO depth, block, sector and medium size, every
set of requests, jobs and clocks:

* `DisksTyped`: `OnMedium => (Spec => []TypeOK)`;
* `FlashPolled`: `OnMedium => (Spec => []WaitsWhileBusy)`;
* `DisksRead`: `OnMedium => (Spec => ReadSpec)`: both drivers implement the
  abstract read;
* `FlashedInside`: `OnMedium => (Spec => FlashesOwnPages)`;
* `FormatBounded`: `OnMedium /\ FifoDepth >= 7 => (Spec => []FormatFits)`: of a
  chunk the driver queues half a FIFO and four bytes besides (the FIFO has 64);
* `CallsBounded`: `OnMedium /\ FifoDepth >= 2 => (Spec => [](Counted /\
  NobodyWaits) /\ [][~Returned => Nearer \/ Returned']_vars)`: what of
  `CallsReturn` can be proved without ENABLED.

Assumptions are those the modules declare, and `OnMedium`: the requests lie on the
medium, for the EEPROM in its first block, and reach to the end of their first
chunk. The EEPROM's part of `DisksRead` is thus about reads that begin at a FIFO
boundary, as those of the signature, the payloads and the entries' types do, or go
beyond the next one, and not about the 16-byte reads of gpt.c:32 and gpt.c:44, for which it is false (`eeprom_overrun`); in
the upper block it is false, too.

The inductive invariant `DiskInv` says for the EEPROM where every byte of the
current chunk is: what the controller has been told and has not done, together
with what the receive FIFO holds, is always the chunk, in order, at the
addresses where it belongs, and all that lies before the chunk is in the buffer
(`EepromInv`). `ReadSpec` alone says nothing while a read is under way, so the
step that answers could not be shown to be exact; the FIFO's contents must be
tied to addresses to get through `Collect`. For the flash, what has been copied
is what lies before `offs`, and the device is busy only while the driver polls
(`FlashInv`), so that a read never finds it busy, until a flashing has failed and
`sound` is lost. Both parts are
needed together with the types of the shared variables, which is why they are
one invariant. `FlashedInside` adds that the page being erased or programmed is
one of the job's (`JobInv`), and the arithmetic of pages and sectors.
`CallsBounded` has three counters, in lexicographic order: what a call has not
begun yet, the parts left of its chunk or page, and what controller and device
still have to do. They are natural numbers (`Counted`), and every step within a
call lowers them (`Nearer`), so that a call can only go on for ever by waiting;
`NobodyWaits`, which spells out the guards of the driver's and the controller's
steps, says that for the EEPROM one of the two can always go on, and `WaitsWhileBusy`
that the flash's driver waits only for a device that works. It rests on `FifoInv`:
a chunk fits the FIFO, is taken out whole, and is delivered whole. With a FIFO of
one byte the rest of a written chunk would be as long as the chunk
(i2c_24fc1025.c:76), and the write would not end: hence the premise.

`ClintProofs` proves for every range of the register halves, every ratio of the
clocks, stall, start, argument and sequence of calls:

* `ComparatorWhole`: `Spec => []ArmedForTarget`;
* `MeasuresRight`: `Spec => []FreqAccurate`;
* `SpinsLongEnough`: `Orders = {"high_first"} => (Spec => []SpinNotEarly)`;
* `ClintTyped`: `NoWrap /\ Orders = {"high_first"} => (Spec => []TypeOK)`.

The premise on `Orders` is the build: with `low_first` the statement is false.
`NoWrap` says that no time of a run, with an argument added to it, passes the
64-bit range; it is what keeps `mtime` within its register, and nothing else
needs it. `SpinNotEarly` speaks of a spin that has ended; `SpinInv` says what it
rests on while two loads are under way: the high half that has been read and the
low half that is read now make a time that has been reached already, across a
carry too, because a quotient of a later time is not smaller. `FreqInv` follows
the measurement: which tick the capture of the cycles belongs to, and that it
lies at most a polling round behind it. The divisor of these quotients is a
constant without a value, so the facts about `\div` and `%` are lemmas of their
own (`Quotients`), which the other proofs use as well.

`SdProofs` proves for every block size, FIFO depth, timeout, address and length:

* `SdTyped`: `Spec => []TypeOK`;
* `ReadsExactly`: `Spec => []ReadExact`;
* `KeepsOutside`: `Spec => []WritesInside`;
* `LeavesDetached`: `Spec => []Detached`;
* `ReadsRefined`: `Spec => ReadsLikeADisk`: the driver implements the abstract
  read. `WritesInside` is a part of that, and no run checks it by itself;
* `OneOpenLoop`: `Spec => []Measured /\ [][pc \notin {"up", "done"} => Descends
  \/ AsksAgain]_vars`: the only loop without a bound is that of ACMD41.

Assumptions are those `SdCard` declares; a second read is of one byte at least:
`gpt.c` asks for whole LBAs, and an empty read would return before it sends a
command. `ReadsRefined` promises the bytes of a read that returns 0 if no read
before it has failed (`Sound`), and the place it writes to always: of the read that
gpt.c:83 makes after one that failed at gpt.c:18 no more can be said.
`ReadExact` speaks of the end of a read. `SdInv` ties the middle of it together:
which command is under way at which label (`DriverInv`), which block the driver
has come to (`BlockInv`), that the card sends, and is at just that block
(`CardInv`, `AtInv`), and that all before it has arrived, of the block itself
`offs` bytes, in the caller's buffer or in the swap buffer (`ContentInv`). The
arithmetic is that of the first and last block of an unaligned request. A card
that did not listen when the second read began may be ahead of the driver, but
by no more than one transfer (`Earlier`). For `ReadsRefined` the invariant is
enough: every step within a read writes inside the buffer only, and the step that
answers is exact by `ReadExact`. `OneOpenLoop` is a measure in four parts, in
lexicographic order: the commands still to be given, the parts of the command, the
blocks of the read, and the polls or chunks before the next part. Every step lowers
it, but one: a card that says that it is not ready gets CMD55 again
(spi_sdcard.c:174).

`PassiveProofs` proves for every image, program and output, all three hosts and
every interleaving of host and hart 0:

* `PassiveTyped`, `WholeImage`, `CodeExact`, `EocTrue`: `Fitting => (Spec => []P)`
  for `P` each of `TypeOK`, `RunsWholeImage`, `ExitCodeExact`,
  `EocMeansReturned`;
* `ResultStays`: `Fitting => (Spec => EocStays)`;
* `HostedRefined`: `Fitting => (Spec => RunsHosted)`: with each of the three hosts,
  boot ROM and debug server implement the abstract run. That the host reports at
  all is `Ends`, and no part of it.

`Fitting` collects what the code takes for granted: addresses and lengths fit
their fields, the program does not print the byte 0x14, and the host waits for LLC
and boot ROM. The run's constants satisfy it, and without each of the last two TLC
finds a counterexample. The results of a program are any words: `CodeExact` says that
the top one of their bits does not get through a scratch register, and `WholeImage`
and `ResultStays` except the odd ones of a debugger's program in the polling loop
(`Misread`), for which both are false.
The invariant has a part for each host. For JTAG and the serial link it says for
each place of the host which places of hart 0 are possible and what the scratch
registers then hold. For UART, the two sides are tied by what is on the wire:
`Request(k)` and `Reply(k)` are the k-th element that a command and its answer
consist of, and `CommandInv` says that the queues hold just those that have been sent
and not been taken, in order; the label at either side says how many that
is. `ExecInv` does the same for the program's output, the end of computation and the
result. `HostedRefined` needs in addition that host and ROM agree on the stage: a
host that loads, or a ROM that enters, finds no result in `scratch[2]` (`StageInv`),
that the host reports only after there is one (`Unreported`), and that no burst
is written again once the program has been entered. Of the actions only five are
steps of `HostedRun`; for each there is a lemma, and one for all the others.

`GptProofs` proves for every size of LBAs, every limit, every set of partition
tables and every read that may fail:

* `BootTyped`: `Spec => []TypeOK`;
* `CopiesBounded`: `Spec => []NothingBeyond`;
* `ExecutesChosen`, `LaunchesFound`, `FailsForCause`: `Addressable => (Spec =>
  []P)` for `P` each of `BootsChosen`, `LaunchesRight`, `FailsForAReason`;
* `BootBounded`: `Spec => [](StepsLeft \in 0 .. 3 * SearchLength) /\ [][StepsLeft' <
  StepsLeft]_vars`: a boot ends within three searches of the table, which is `Ends`
  but for the fairness of the reads.

Assumptions are those `GptBoot` declares: the limits are LBAs other than 0, and
the tables are sequences of entries. `NothingBeyond` speaks of copies that have
been made; its strengthening `GptInv` speaks of the range that is going to be
copied, which comes from one of three places: the entry found, which has been
compared with the limit (and must still be the entry compared when its type is
read), the first entry, which has been cut to the limit, or the definition of
the raw start. Cut and comparison are computed modulo `NumLbas`, so that each
case needs the arithmetic of a difference that wraps (`MinusFacts`): an entry
that ends before it begins passes the comparison only if the copy, which wraps
the same way, is short enough. The cut has no such luck, hence the exception for
an ill-formed first entry.

For what is chosen the wrap matters more: `Addressable` says that no entry begins
so close to the end of the 2^55 sectors whose addresses in bytes have 64 bits that
adding a limit to it passes that. Nothing in the code checks it; an entry that ends
before it begins, placed near the end of the sector numbers, passes for one that
fits, and the address of one behind 2^55 wraps to the start of the disk. Under it, `BootInv` adds that no entry the
search has passed was the one looked for (`SearchInv`), which range the boot ROM would
fall back to at that point (`FallbackInv`), that a range being copied is the entry
found or that fallback (`ChosenInv`), and what has been copied (`OutcomeInv`).
`FirstOf`, the least index of a set, is the reference that the search's loop is
compared with. All this is about places; whether the bytes are there is a part of
each statement of its own, with the premise that the code leaves it: `BootsChosen`
promises them if the disk recovers from failed reads or none has failed,
`LaunchesRight` only if none has, since zsl.c:44 ignores the result.

`StartProofs` proves for every file, host, width of the bus and length of bursts,
every layout of the memory, every program and any number of traps:

* `LoadsExactly`: `Spec => []LoadedExact`;
* `MainFindsImage`: `Roomy /\ LinkedAbove => (Spec => []MainSeesImage)`;
* `ContextReturned`: `Roomy => (Spec => []ReturnsContext)`;
* `ProgramTyped`: `Roomy => (Spec => []TypeOK)`.

Assumptions are those `ElfLoad` and `Crt0` declare, among them that a burst of the
serial link is a whole number of words. `Roomy` says that the stacks have room for
a frame of `_exit` and, below it, one of a trap; without it frames lie below
address 0 of the model. `LinkedAbove` says that `_start` is not 0: of a file with
truncated program headers the loader stores nothing and hands out entry 0.

`LoadedExact` speaks of the end of loading. `LoaderInv` ties the list of sections
and the map of contents to the program headers that `load_elf` has come to: if
these ascend, so do the sections, and no content is kept from the map by one of
the same address. `SectionInv` says that the buffer of the section being written
is that section's content, and, for the serial link, that an unaligned
section is through after its first burst: in a second one the write mask would
lose bytes. `CellsInv` is the memory meanwhile: sections handed out are there; of
the current one, all before the next burst; anything else is old, or a zero that fills up
a section's last word. `BurstCells` is the one argument that the three
hosts share: a burst writes the section's bytes in its range, none before it, and
ends within a word of the section. What is left for each host is to show that of its addresses;
for the serial link, that beats of words cut from an aligned address cover the burst
(`BeatFacts`).

`ImageInv` carries the image from there to `main`: `.bss` is zero up to the
address the clearing loops have come to, those stay within `.bss`, and no content
lies there; interrupts are off from the first instruction on. `ReturnsContext`
says nothing while the program runs. `StartInv` says where the caller's context
is meanwhile: until `SetUp` in the registers, then in the frame at the top of the
program's stack, under any frame of a trap, with `sp` back at it whenever code of
the program runs; at the end in the registers again (`ContextInv`). `ResultInv`
does the same for the result, which lives in `a0` from the end of `main` on, then
in `t0`, with the address it goes to in `t1`: a trap there keeps them only if its
handler does (`Harmless`). What the theorem leaves open is what the code leaves
open: `gp` comes back only to the caller of a program without one of its own, and
a `main` that has been interrupted by a handler that changes registers may do
anything; frames, `sp` and `ra` survive every handler that keeps to the calling
convention.

Only model-checked: all liveness (`EveryHartEnters`, `CallsReturn` and each
`Ends`), which is out of the prover's reach, and `CodesAgree`. For the three disk
drivers and the disk boot, `OneOpenLoop`, `CallsBounded` and `BootBounded` give the
part of liveness that is an argument about steps; that enabled steps are taken is
what the fairness of the runs says. `Crc` uses bitwise
operators, which the prover does not have, and what its folds compute for every
block would need induction over data; that CRC16 finds a disturbed block is
therefore assumed by `SdProofs` as it is by `SdCard`.

## 6. Findings

The violation runs show disagreements between the code and what it says of
itself; `PROJECT.json` quotes both sides.

* `clint_sleep_until` has its test the wrong way round (`clint_sleep_early`).
* An odd result of a program started over JTAG may be taken for a launch signal
  (`jtag_odd`).
* A short read of the EEPROM writes behind the caller's buffer (`eeprom_overrun`).
* The trap wrapper saves `ra` only, and a trap in `_exit` may take the result away
  (`trap_context`).
* The caller does not get its global pointer back (`caller_gp`).

Disagreements that the models contain without a run of their own:

* A response to CMD0 or CMD8 that differs from the expected one may be returned
  as 0, success, to the caller (spi_sdcard.c:160, `SdCard!Returned`): a CMD0
  answered with 0x00, or, where the shift of line 159 gives a mask of the low byte,
  a CMD8 without the echo.
* The check code of the read commands is shifted twice too often (spi_sdcard.c:52,
  `ReadCommandsDiffer`, a part of `CodesAgree`). Cards do not look at it unless told
  to.
* The upper block of the EEPROM is never selected (i2c_24fc1025.c:58, against its
  comment on line 57, `I2cEeprom!BlockSelect`).
* A page program receives where it should send (spi_s25fs512s.c:104, against its
  comment on line 97, `SpiFlash!Program`), over the caller's data.

Further behaviour of the code that the models contain, and that their properties
except or say in a comment:

* A timer interrupt between enabling it and `wfi` (clint.c:62) leaves the hart
  waiting; no call gets there with a target in the future, because of the test.
* A result in `SCRATCH[2]` loses its top bit (crt0.S:126).
* A read of the SD card after a failed one may return 0 with other bytes, and
  gpt.c:83 executes them.
* The zero-stage loader launches a firmware whose copy has failed (zsl.c:44).
* A write to the EEPROM ends without a stop condition, and its second half goes
  to the wrong place (i2c_24fc1025.c:72, :77).
* Over the serial link a section whose length is a multiple of the burst ends
  the simulation, and an unaligned one loses bytes at each burst
  (vip_cheshire_soc.sv:812, :734); a file with truncated program headers is
  reported as loaded (elfloader.cpp:224).

## 7. Not modelled

* The hardware written here. `mmu_stub.sv` is a test replacement whose user is
  vendored; a request in the cycle in which the one before is answered gets no
  answer (line 78), and whether it may come is up to that user. `fan_ctrl.sv` is a counter and a comparison;
  `axi_to_reg_v2.sv` and `cheshire_soc.sv` wire vendored modules, whose state and
  protocols are not in this repository; `cheshire_pkg.sv` computes constants
  from parameters at elaboration. None has state that the boot software's models
  miss.
* Vendored and generated code, except for what modelled code relies on.
* Of the modelled parts: the baud rate divisor and the UART's FIFO limit, the
  platform ROM, printing, the match by partition GUID (no caller asks for one),
  the symbol table of the ELF loader, clocks, reset and bus models of the test
  bench.
* Test programs, linker scripts, generators, FPGA and ASIC targets: no behaviour
  of their own, or users of what is modelled.
