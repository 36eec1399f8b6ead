# A TLA+ verification of the LAGO acquisition system

The repository holds the data acquisition of the LAGO cosmic-ray detectors on a
Red Pitaya (Zynq) board: VHDL cores in the FPGA find pulses in the ADC stream and
store them in memory, and a C program on the ARM core reads the memory once per
second and writes data files. This directory models that system in TLA+, checks
the models with TLC on small instances and proves the central properties with
TLAPS for every instance.

The data path is modelled from the newest release, `src/projects/lago_v1_5`, with the
cores its block design instantiates; the geometry of the read-out ring is a parameter,
because lago_v1_0 and lago_v1_5 differ in it. The sessions (command line, `main()`,
start-up, registers) are modelled for four releases: lago_v1_0, v1_2, v1_3 and v1_5.
Beside the acquisition itself, the kernel driver that loads the bitstream
(`patches/xilinx_devcfg.c`), the repository's DMA programs and modules, and the programs'
use of the pressure sensor and the GPS receiver are modelled.

## 1. The system

```
 ADC -> dc_removal -> axis_lago_trigger -> bcast_0 --> tlast_gen -> dwidth_converter
                        ^      ^                |            -> axis_ram_writer -> DDR ring
                   scalers    pps_gen           |                                     |
                  (registers)  | interrupt      +-> bcast_1 -> histogram 0, 1         |
                               v                                                      v
            /dev/uio0 -> wait_for_interrupt() -> position -> read_buffer() -> data file
```

| Part | State it keeps | Operations | Talks to |
|---|---|---|---|
| trigger core (`axis_lago_trigger_v1_3.vhd`) | shift register, scaler and rate counters, status/counter/metadata registers, record state machine | one per clock; reset by configuration bit 0 | PPS generator (input), stream (output, back-pressure) |
| memory writer (`axis_ram_writer.vhd`) | FIFO, burst handshake registers, address register (= status word) | one per clock; reset by bit 2 | stream (input), AXI port, status register |
| read-out (`lago.c`) | `position`, `current`, the loop of `read_buffer()`, `interrupted` | start, interrupt, timeout, read, signal, stop; a second thread shares interrupt and `position` | DDR ring, status register, UIO interrupt |
| decoder (`read_buffer()`, `new_file()`) | baseline, dead-time and clock accounts, the open file | one per kind of 32-bit word | words from the ring, the file system |
| sessions (`main()`, `parse_param()`, `zynq_io.c` of each release) | nothing; the FPGA's registers and the driver outlive them | one invocation per command line; two may overlap; each may be killed anywhere | configuration registers, interrupt controller, `/dev/cma` |
| memory driver (`patches/cma.c`) | its only buffer | allocate (frees the old one), release | the program |
| histogram core (`axis_histogram.vhd`) | state machine, sample counter, block memory | one per clock; reset by bits 5, 6 | stream, polling program |
| configuration driver (`patches/xilinx_devcfg.c`) | open flag, DMA completion and error flags, up to 3 residue bytes, the engine's registers | open, write, read, release, interrupt, attribute files | configuration engine, level shifters and resets of the PL |
| its clock files | exported flags, one device and its data per exported clock, prepare and enable counts | probe, remove, export, unexport, enable, rate | clock framework |
| DMA programs (`projects/dma_*`, `apps/dma`, `apps/sw`) | the engine's registers and descriptor rings, which outlive them | one program after the other | AXI DMA engine, its streams |
| PPS generator (`pps_gen.vhd`) | second counter, edge detector | one per clock | trigger, interrupt controller |
| pressure sensor (`bmp180.c`) | the sensor's command and output registers, shared by all processes; the coefficients, per process | `-t` once, `-f` every second: command, wait, read | i2c bus, data file |
| GPS (`gps_rp.c`, `nmea_rp.c`, `uart_rp.c`) | the port's queue, shared by all readers; line, kinds seen and coordinates, per process | `-g`: open and flush, read lines until one of each kind was seen | serial port |
| register cores, FIFOs, averagers, small stream cores, test projects | | | |

What makes the system hard:

* nothing flows back from the program to the writer: a word is safe only because the
  writer has not come round yet;
* the writer, two threads and the reading loop interleave, and `position` is a
  plain global that a thread fills some time after it has read the register;
* one address register is burst address, beat counter and the program's position;
* the trigger core overwrites the registers it sends from, and stalls restart its
  burst counter;
* the FPGA keeps its state while programs come, overlap, go and die, and a register bit
  is changed by a read and a write;
* the configuration driver mixes a mutex, a spin lock and nothing at all over the same
  registers; its time-out gives up on an engine that goes on;
* a DMA engine goes on with what a program that has ended told it to do;
* the operator rewrites a scaler while the core counts with it;
* sensor and serial port keep no account of who uses them: a conversion or a character
  goes to whoever comes;
* counters wrap, hours and days roll over, sentinels coincide with values.

The full list, each at its line with the properties that guard it, is under
`hazards` in `PROJECT.json`.

### What makes each part correct

* read-out: every word decoded once, in order, intact, finally, as long as no thread stores
  an old position late; no access outside the ring (`Implements`, `PendingIntact`,
  `NeverReadsAfterLimit`, `Delivered`);
* writer: no burst runs dry, bursts tile the ring, word *n* lies in slot *n* mod the
  ring size, a full FIFO drains (`NoUnderflow`, `BurstAligned`, `Implements`,
  `StreamResumes`);
* trigger: whole records, counters that grow, no record that never ends (`Framed`,
  `CounterGrows`, `ReturnsToIdle`), right rates (`RateUnlessClash`,
  `KeepsTriggering`);
* decoder: right baseline count, dead time, clock, file name
  (`BaselineOncePerPulse`, `DeadTime`, `ClockTracks`, `HourInFile`);
* sessions: writer and reader agree on the buffer, finished invocations leave the
  board quiet, later ones repair what killed ones left, settings survive and are
  reported as they were set (`ReaderSeesWriter`, `WriterInLiveBuffer`, `QuietBetween`,
  `Recovers`, `ClockSourceChosen`, `SettingsKept`);
* histogram: exact bins, a counter that is never behind the samples, an end of the polling
  (`BinsExact`, `SamplesCounted`, `Completes`);
* configuration driver: the engine gets the bitstream, in buffers that are allocated;
  success means the call's own transfer; the PL is connected after release; attributes
  keep their values; calls return (`StreamWhole`, `TransfersOwned`,
  `PlConnected`, `Readback`, `CallsReturn`); clocks are balanced and
  no stale pointer is followed (`Balanced`);
* DMA programs: only finished transfers are compared, nothing is left running, every
  program ends or waits for its key (`ReadsFinished`, `QuietAfterExit`, `Terminates`);
* sensors: what is reported was measured, for this process and in this call; a position is
  made of intact sentences that belong together, and `lago -g` ends (`ReportsMeasured`,
  `FixIntact`, `FixArrives`).

## 2. Modules

| Module | Models | Composition |
|---|---|---|
| `EventStream` | abstract: words are printed in the order they are produced | refined by `ReadoutRing` |
| `ReadoutRing` | writer, interrupt threads, `read_buffer()` loop over the ring | implements `EventStream`; its `WriteWord` is `RingStore!Store` |
| `RingStore` | abstract: word *n* goes to slot *n* mod ring size | refined by `RamWriter` |
| `RamWriter` | `axis_ram_writer`, one step per clock | implements `RingStore` |
| `LagoTrigger` | state machine and registers of the trigger core, one step per clock | its records are the input of `EventDecode` |
| `PulseRate` | scaler and rate counter of one channel | |
| `EventDecode` | `read_buffer()` per word, `new_file()` | reads the records of `LagoTrigger` |
| `LagoCommon` | vocabulary the releases share: steps, devices, registers | extended by the five below |
| `Lago_v1_0`, `Lago_v1_2`, `Lago_v1_3`, `Lago_v1_5` | per release: `parse_param()`, `main()` as its sequence of accesses, `init_system()`, voltage conversions, `rd_cfg_status()`, head of a data file | instantiated by `DaqSession` |
| `DaqSession` | overlapping invocations, registers, write address, interrupt enable, memory driver | composes the four releases with board and driver |
| `Histogram` | `axis_histogram` with its block memory, one step per clock | |
| `DevCfg` | configuration driver: device file, attributes, interrupt, engine | |
| `DevCfgFclk` | configuration driver: probe, remove, clock files | |
| `DmaPrograms` | thirteen DMA programs as sequences of accesses | run by `DmaTests` |
| `DmaTests` | the DMA engine and the execution of the programs | composes `DmaPrograms` with the engine |
| `Bmp180` | `bmp180.c` as functions: byte order, waits, compensation of the raw values | used by `Sensors` |
| `GpsLine` | `nmea_rp.c` as functions: checksum, kind and fields of a line | used by `Sensors` |
| `Sensors` | invocations of `-t`, `-f` and `-g` with bus, sensor, port and receiver | composes `Bmp180` and `GpsLine` |
| `ReadoutRing_proofs`, `RamWriter_proofs`, `LagoTrigger_proofs`, `EventDecode_proofs`, `Histogram_proofs`, `DaqSession_proofs`, `DevCfg_proofs`, `Sensors_proofs` | theorems and proofs about the module of that name | each extends its module; `LagoTrigger_proofs` also `PulseRate`, `DevCfg_proofs` also `DevCfgFclk` |
| `MC*` | instances for TLC | |

`PulseRate` and `DevCfgFclk` name their specification `RateSpec` and `FclkSpec` (and
`RateInit`, `FclkNext` and so on), so that one proof module can extend both halves of a
core or a driver.

The exact correspondence, definition by definition with source lines, is `map` in
`PROJECT.json`.

### How state and actions correspond to the code

**ReadoutRing.** `position`, `current`, `i`, `readend`, `interrupted` are the C
variables; `addr` is `int_addr_reg`; `mem` is the ring by byte offset and holds the
number of the 32-bit word stored there. `pc` is the place of the main loop. The
actions are the blocking points of the program: the interrupt seen by the main loop
(`MainIrq`) or by the thread (`ThreadIrq`), each of which reads the register into its
own `value` and stores it in `position` in a later step (`MainStore`, `ThreadStore`), the
time-out or lost race (`MainTimeout`), the call with its range computation (`ReadBuffer`),
each turn of the loop (`ReadWord`), its end. The writer steps between any two of them. A
thread may store after the main loop has used a newer position; a call that then finds a
position older than the last call's (`sampled < used`) is `ReadBufferAstray`: it decodes old
words, and the model follows the session no further than that until it is stopped. `D` bounds
the words written from the sample one call used to the sample the next call uses: it
stands for the data rate, which nothing in the code enforces. History variables count
words written, sampled and used.

**RamWriter.** Each VHDL signal is an operator of the same name and a rising edge is
`Clock(tvalid, awready, wready)`. External: the FIFO36E1 is a count with its flags;
with `ALMOST_EMPTY_OFFSET` 15 in first-word-fall-through mode the flag covers the 15
words of the array and the word in the output register, hence level 16, which is
also the least level for which the proof goes through. The port takes one address at
a time and a beat only of a burst whose address it has taken.

**LagoTrigger.** Words carry kind, place and the number of the trigger or PPS whose
registers they came from; overwriting shows as a wrong number. The scaler is a register
that `lago -s sc1` rewrites between any two clocks (`WriteScaler`) with any value of
`ScalerValues`, 0 included; its counter and the trigger counter keep their widths as
`ScalerWrap` and `CntWrap`. Levels and sample
values are reduced to: may this clock have a crossing (only on a fresh sample), does
it have a sub-trigger.

**PulseRate.** The counters keep their widths as `W` and `R`; the operator's
`lago -s sc1` is `SetScaler`, at any time and with any value, 0 too, which lets a trigger
through at every clock. The reset bit of the program is `aresetn`.

**EventDecode.** A `struct tm` is the number of seconds it stands for; a minute, an
hour and a day have `SPM`, `MPH`, `HPD` units. Records are whole; which triggers and
PPS pulses get no record is the environment's choice, up to `MaxGap` in a row. A time word
brings the three bytes of the GPS time register, which hold anything (`TimeBytes`):
no running part of the program writes them. With bytes that are no time of day `strayed`
is set; `GpsDate` takes them as the code does, the hour that is set a second time after
`new_file()` has carried it into the date included.

**DaqSession.** A command line is a sequence of words; `parse_param()` of the release
turns it into an outcome (what, register, value) and `main()` turns that into the
sequence of steps the invocation will make: `map` (the device initialisations),
`alloc`, `addr`, `first` (the first-access test, which prepends `init_system()` and
`enable_interrupt()`), `get`/`set`/`clear` (a read-modify-write is two steps), `write`,
`hget`/`hput`/`poll`, `handler`, `loop`, `show`, `end`. Each step names the devices it
needs; one that is not mapped is a segmentation fault. `Kill` may come between any two
steps. The configuration register is the set of bits that are set; voltages are
integers in units of 0.1 uV, with the code's calibration constants. History variables
record which bits nobody may have been able to put back (`left`), which invocations met
another (`alone`), whether an initialisation was disturbed or `-w` switched the
interrupt off (`cut`) and the settings asked for last (`want`).

**DevCfg.** `pc[t]` is the place of thread `t` in a call; buffers and engine commands
carry the number of the call that made them, and a byte of the bitstream is its position
in the file, so `StreamWhole` sees bytes that are lost, doubled or in the wrong order. The
interrupt handler, the engine (external: it ends queued commands in order, with or
without error flags) and `PCFG_INIT` (external: it follows `PROG_B`) are actions of
their own. A store to an attribute is two steps, because the code reads the register
before it takes the lock; so are the changes that open and release make to `CTRL` for
`PROG_B` and `PR` without the lock (`ReadCtrl`, `WriteCtrl`), and open looks at
`is_partial_bitstream` twice. `late`, `flipped`, `raced` and `whole` record the events the
properties make exceptions for; `raced` is any write to `CTRL` or `LOCK` of a value read before
somebody else's write.

**DevCfgFclk.** None of these calls takes a lock, so each is a sequence of steps. `oops` is
a NULL or freed pointer that is followed. The rate files take no step but the call of
the clock framework.

**DmaTests.** A program is a sequence of accesses; the engine (external) works on what is
queued in channels that run, may stop with an error, and keeps its state from one program to
the next. A reset takes its time: what is written until `ResetDone` is lost, and `early`
records that a program did not wait. The UIO device (external) masks its interrupt when it
fires, `read()` returns once for it, and `write()` enables it again; both bits outlive the
program. The program of `apps/dma/sw` never ends: after each frame it waits for a key, which
may never come. `Beyond` is memory that is printed and that no transfer wrote. `Orderly`
collects what the properties make exceptions for. `asked` numbers the packets asked for and
`dst` is the packet the destination holds (-1: a part of one).

**Sensors.** `pc` is the place of an invocation and `todo` the functions of `bmp180.c` it
has yet to call; `line`, `status` and `coord` are the variables of `gps_location()`. Every
i2c transfer is a step, because another process may come between. External: the sensor (one
conversion `conv`, one output register `out`, the durations of its data sheet), the bus, and
the receiver, which sends sentences as three chunks (text, checksum, newline), any of which
may be lost or damaged; Ctrl-C during a wait (`signal_handler`) ends it early, as `usleep()`
does, and the read that follows finds what the output register holds; a damaged text is
taken to have another checksum. `truth` and `why` are history: what the sensor measured for
a process since its last command (`NotMeasured` until then), and what disturbed it. What a
process reads that shares the port with another is not followed: it may go on, print
something or crash. A behaviour uses the bus or the port, because the two share nothing;
invocations that have ended are forgotten when the next one starts.

**Histogram.** As the VHDL, with the two clocks of the block memory's port A, on a stream
that offers a sample or none at every clock. `accepted` and `waited` are history: samples
taken, and clocks at which the core was ready and had none.

## 3. Runs

| Run | Shows | Instance |
|---|---|---|
| `readout_ring` | exact, intact, complete read-out | ring of 8 words, 3 per period, 17 words: two turns and a word more, two threads, and new sessions |
| `readout_v1_5` | *violation*: with the constants of lago_v1_5 the reader leaves its limit | ring of 8 words, limit of 2 (the ratio 32 MB : 8 MB) |
| `ram_writer` | bursts, ring, FIFO | ring of two bursts, FIFO of 18 with flag at 16, 36 words: more than one turn |
| `lago_trigger` | framing, counters, end of records | records of 5+2, 2 and 2 words, the scaler rewritten to 0 and 1 at any clock, counter of 3 values, 2 PPS, arbitrary stalls and resets |
| `event_decode` | accounts of the decoder | 3-hour days of 2x2-second hours, number of 2 bits, 7 triggers, 12 PPS: a day; three GPS times and one set of bytes that is none |
| `histogram` | bins, saturation, what is counted, end of the polling | 3 bins of 0..2, number 6, up to 8 samples or clocks counted (of 2^32), 2 resets; any stream |
| `pulse_rate` | rates, scaler changes, resets | counters of 6 and 3 values, scalers 0, 1, 2, 4, up to 4 triggers a second: both wrap |
| `daq_session` | sessions that overlap, fail and are killed | four releases, 13 command lines, 3 invocations of which 2 at once, 1 fault, 2 buffers |
| `devcfg` | loading a bitstream, attributes | 2 threads, all ten attributes, writes of 6 and 9 bytes (both leave a residue), sync word at byte 1 in swapped order, 3 calls |
| `devcfg_fclk` | probe, remove, clock files | 2 threads, 2 clocks, 8 calls, 2 failing kernel calls |
| `dma_tests` | programs on what others left | 13 programs, 2 rounds, rings of 3 descriptors, 3 starts, 2 faults |
| `sensors` | readings and positions, undisturbed and disturbed | 2 invocations at once, the coefficients of the data sheet's example, its raw temperature and another, its raw pressure (times 2, for the resolution used), 1 failing call or signal, 2 damaged chunks, seconds modulo 5 |

The violation is a disagreement between the code and its own comment; it is the `finding`
in `PROJECT.json`, with the quotation.

### Where the code does less than one would expect

The passing properties say exactly what holds, and their exceptions are the places where
the code falls short. A reader of the code should know them:

* A PPS that arrives while a record is being sent gets no record
  (`axis_lago_trigger_v1_3.vhd:418`); `EventDecode` lets PPS records be missing.
* The word 0xFFFFFFFF that ends a PPS record is logged as `E 3` every second
  (`lago_v1_5/src/lago.c:998`).
* `DeadTime` leaves out the pulses lost after the trigger with number 0 and where the
  30-bit number wraps: `lago.h:102` says that missing pulses are "the sum of the
  differences between consecutive pulses", and `lago.c:890` skips a difference whose
  first number is 0.
* `RateUnlessClash` leaves out a second that began with a trigger in the clock of its
  PPS: there the core adds one to the rate counter instead of restarting it
  (`axis_lago_trigger_v1_3.vhd:222`), and the word documented as "pulse rate at channel
  1" (`lago.c:745`) covers two seconds. The 24 bits of the rate wrap.
* The position is read from the register and stored in the global in two steps, by two
  threads (`lago_v1_5/src/lago.c:270`). A thread that is held up in between puts an old
  position back; if the loop has used a newer one, `read_buffer()` decodes old words of the
  rest of the ring. `Implements` and `Delivered` hold up to there (`ReadBufferAstray`).
* The scaler may be rewritten while a record is sent, and accepts 0
  (`lago_v1_5/src/lago.c:563-569`). Lowered to the count reached, or 0, it makes a trigger
  without a crossing, and the counter word of a record may be that of a later trigger than
  its status word. `Framed` allows just this for a scaler that is 0 or was rewritten since
  the record began. The 30 bits of the trigger counter wrap: `CounterGrows` says so.
* The histogram core counts the clocks at which it is ready, with a sample or without, and
  stops only if the count meets the number exactly while it looks
  (`axis_histogram.vhd:92-96`). In the only design with the core, its stream is the trigger's
  output (`lago_v1_5/block_design.tcl:258, 484`), which has words only within records, and
  `-m` leaves the trigger in reset (`lago.c:131-180`). So `-m` may print a histogram of fewer
  samples than asked for, or of none, and the core may go on counting. `SamplesCounted` and
  `Completes` say what holds on any stream: what is counted, and that the polling ends.
* `-m` ORs its count into what the register held (`lago.c:143, 145`), while the help text
  says "-m <nsamples> Specify number of samples in histograms" (`lago.c:378`): a second
  histogram with another number waits for the one and is configured for a mixture of both. No
  property promises the count.
* The register with the GPS time of the time word is written by nothing that runs: the thread
  that would (`thread_isr()`, `lago.c:282-306`) is not started (`lago.c:64-73`), and
  writes the decimal number hhmmss (`:294, 301`) where `read_buffer()` takes a byte each
  (`:918-929`). No property says that the time with GPS is right. `HourInFile` is about
  bytes that are a time of day; the second conjunct of `ClockTracks` is about the clock
  without GPS.
* A first access killed half way leaves the configuration incomplete: the next
  invocation sees a register that is no longer 0 and does not initialise
  (`lago_v1_5/src/lago.c:49`). `ClockSourceChosen` therefore promises only the
  clock-source bit after a kill, the first bit that `init_system()` sets.
* An invocation beside an acquisition takes the buffer away: buffer and write address are
  set before the command line's action is looked at (`lago_v1_5/src/lago.c:42-44`), also by
  `-a`, which only reads. Two read-modify-writes may undo each other. Every session property
  is therefore about invocations that met no other.
* `-w intc IER 0` switches the interrupt off, and later acquisitions do not switch it
  on again: only a first access, `-i` or another `-w` does. `ClockSourceChosen` makes an
  exception for it.
* With GPS days are noticed by the hour going back: a gap that ends in a later or the same
  hour of another day leaves the old date. The dead time is a difference modulo 2^30;
  `DeadTime` is about shorter gaps.
* `CounterGrows` and `Framed` rest on two relations between the core's constants that
  nothing in the VHDL states: the compared bin of the shift register is at least 3 (it is
  10), and the metadata of a PPS is sent before the next PPS.
* In lago_v1_0 `-a` shows voltages by another calibration than the one `-s` and the
  files use.
* Configuration driver: a transfer that times out frees its buffer while the engine
  works on it (`xilinx_devcfg.c:399`), and a later call may then take its completion for
  its own; an error is noticed only if all error flags are set at once (`:270`); a store
  writes back a register it read before it took the lock (`:754`), and open and release
  change `PROG_B` and `PR` by a read and a write without it (`:231-232`, `:238-240`,
  `:531-534`, `:539-542`), so that each can undo the other's bit; changing
  `is_partial_bitstream` on an open device leaves the PL disconnected (`:616`); a write
  that fails has already replaced the residue (`:353`); a sync word at the last position
  of a block is not found (`:333`); a failed export leaves the clock marked as exported
  (`:1778`); probe returns 0 without its class or device (`:2066`); clock references are
  never put.
* DMA programs: `dma_loopback/axidma.c:162` waits only for the transmitter; `zynq_dma` frees its
  buffers after a time-out while the engine may go on; `linux_dma_app` never sets the run
  bit; `dma_test/dma_test.c:106` maps 0x0f00000 where the engine is given 0x0f000000, and
  `counter_dma` prints 0x1E000000; `dma_lago` prints 4096 words of a transfer of 4096 bytes
  (`dma_test.c:92-97, 143, 159`), `apps/dma/dma_test` 32 words of 32 bytes;
  the polling loops never end once the engine has stopped with an error. The five programs on
  `/dev/mem` and `dma_passthrough_reset()` write the reset bit and go on
  (`dma_lago/dma_test.c:115-121`, `apps/dma/sw/dma_passthrough.c:111`): what they
  write before the engine is through is lost. A UIO program killed between its interrupt and
  the write that enables it again (`DMA_UIO_test.c:180`) leaves it masked, and the next one
  waits in `read()` (`:137`) for ever; its write to disable the interrupt passes no buffer and
  fails. `zynq_dma` and `axidma` reset nothing and go on from what they find.
* Sensor: when `bmp180_init()` fails, what it returned is followed (`lago.c:20`) before the
  test that says "NO BMP device" (`lago.c:103`); no result of a transfer is looked at; a
  second process, `-t` beside `-f`, takes the sensor in the middle of a reading; the handler
  for SIGINT is installed for every option (`lago.c:75`) and what `usleep()` returns is ignored
  (`bmp180.c:29, 69`), so Ctrl-C during a wait makes the program report an unfinished
  conversion.
* GPS: a line without `*` makes `strchr()` return NULL, which is followed
  (`nmea_rp.c:5`), so that opening the port in mid-sentence may end `-g`; a lost newline
  lets two sentences pass with the checksum of the first; the time may be of the second
  after the date, at midnight a day off; without the port `-g` reads descriptor -1 for ever.
  `FixArrives` says that `-g` ends, and a crash is an end too.

**Events that are exceptions.** Some hazards of `PROJECT.json` are events the code does nothing
about. The property listed with such a hazard does not show that it is harmless: it shows that
the event is the only way to the damage, and that everything else keeps its promise. These are:
an address left by a killed, overlapping or memoryless invocation (`WriterInLiveBuffer`, and
the overlap in `QuietBetween` and `ReaderSeesWriter`); a death inside `init_system()`
(`cut`, `ClockSourceChosen`); a reset of the writer within a burst (`BurstAligned`); a
time-out (`late`, `TransfersOwned`); a change of `is_partial_bitstream` on the open device
(`flipped`, `PlConnected`); a stale write to a register (`raced`, `Readback`,
`CallsReturn`); a failed export, or clock files used at once (`excused`, `Balanced`); an
engine in reset, or a masked interrupt, that a DMA program finds (`Orderly`), and `axidma`;
another process at the sensor, a failed transfer, a signal (`why`, `ReportsMeasured`); a late
store of the position (`Implements`, `Delivered`).

**Why the bounds are enough.** The rings are passed more than once, so that every slot is
overwritten and every wrap test fires; the FIFO's depth exceeds its flag by enough that
full, almost empty and between all occur; records are longer than the shift register's
distance to the compared bin, which is what decides whether a second trigger can overwrite
the status in mid-record, and the scaler may change at every clock of one; the calendar runs
over midnight with gaps; the counters of trigger, scaler and rate wrap. The count of a
histogram does not: `MaxAcc` is past the number configured and stands for less than the 2^32
clocks that a program which polls every 100 us does not miss. A session property needs at
most three invocations: one that leaves something behind, one that meets or follows it, and
one that has to cope; the fault is a kill, a failing device or allocation, or an overlap, at
any step. A failed write, a time-out or a stale store needs two calls of the configuration
driver and shows in the third. An export, enable, unexport and remove with one overlapping
call fit in eight calls. A DMA program finds the engine as one fault of its predecessor, or
two, left it. A position takes one sentence of each kind, which two damaged chunks can delay
by a second or, as one lost newline, join; a reading is disturbed by one failing transfer or
one other process. Where the argument has to hold for real sizes it is proved (section 4).
`CHECK_DEADLOCK FALSE` appears only where a bound of the model (the end of a bounded
session, or of the samples) stops it.

**Fairness.** `ReadoutRing`: weak for the program's steps, those of the thread that has an
interrupt to store included (a running Linux process), strong for the interrupt (the PPS
comes every second, generated if there is no GPS). `RamWriter`: the port takes what is
offered. `LagoTrigger`, `Histogram`: the clock runs, for the histogram on whatever stream;
the trigger's stream is ready now and then (what `StreamResumes` shows of the writer).
`PulseRate`: pulses and seconds keep coming, and the conclusion is about an operator who at
last leaves scaler and reset alone. `DevCfg`: strong for the threads' steps (a mutex that is
released again and again is obtained in the end, and a poll reads the register again), weak
for engine, interrupt and `PCFG_INIT`. `DmaTests`: weak for the program, for each channel of
the engine (the stream neither stops nor stalls), for the end of a reset and for the
interrupt; not for the key that the endless program waits for. `Sensors`: weak for the
receiver and for the process that has a character to read. Nothing is assumed of the
operator, the signals or the kills.

## 4. Proofs

All theorems are checked by TLAPS from the assumptions named in the modules.

**`ReadoutRing_proofs`** - for every ring size and data rate with

    ExactRegime == LIMIT = 8 * WRAP /\ 3 * D <= WRAP + 1

`ReadoutInvariant`, `ReadsInsideRing`, `NoTornRead` and `Refinement`
(`Spec => EventStream!Spec` under the mapping). That no pending word is overwritten
is not inductive: it needs what the ring holds (`MemInv`), how far samples may lag
(`SampleInv`: what a thread holds or has stored is at most one turn behind, or older than what
was used last, `Recent`), where the cursor can stand between two calls (`CursorInv`: everything
sampled is decoded, or the call stopped at the end of the ring and left at most
`D - 1` words), and the same inside the loop (`LoopInv`). The factor 3 is the price
of that stop at the end of the ring: one period being read, one left behind, one
being written. For lago_v1_0 (`WRAP` = 2^20) this allows about 350 000 words, 2.8 MB,
per period.

**`RamWriter_proofs`** - for every ring that is a multiple of 16, every FIFO and
every almost-empty level of at least 16: `BurstsAreFed`, `BurstsTileTheRing`,
`WriterImplementsRing`. The invariant adds to the two properties that at rest the
address is on a burst boundary, and ties the port's idea of the running burst to the
address register.

**`LagoTrigger_proofs`** - for all record lengths, counter widths, values the scaler is
rewritten to and PPS distances with

    BIN \in 3 .. NSAMP - 1  /\  NMETA <= PpsGap + 1

`TriggerInvariant`, `RecordsAreWhole` (`Framed`) and `CountersGrow` (`CounterGrows`), both
action properties. That a record is made of one trigger's words is not inductive: the
registers it is sent from are overwritten by the next trigger. `QuietInv` says what protects
them: while a record is sent without a stall, the samples the core still holds have passed
the compared bin before the status is sent, and the next PPS is not due before the metadata
has gone. A scaler that is 0 or was rewritten since the record began (`Loose`) takes this
protection from the counter word, and from nothing else. `TriggerInv` ties the held numbers
to the triggers and PPS counted, `FrameInv` ties the word in the output register to state
and burst counter (after a stall: to the first word of the array), and `CounterInv` bounds
the number last sent by the one held, with equality only where the word is being repeated
after a stall, until the counter has wrapped.

The same module proves about `PulseRate`, for all counter widths, scalers (0 too), resets and
orders of events: `RateInvariant` and `RateReported` (`RateUnlessClash`), from the agreement of
the counter, modulo its width, with the triggers of the current second (`RateInv`).

**`EventDecode_proofs`** - for every length of minute, hour and day, any bytes in the GPS time
register and every width `CNT` of the trigger number with `MaxGap <= CNT`:
`DecodeInvariant`, `BaselineIsRight`, `DeadTimeIsRight`, `FileNamesTheHour` and
`ClockIsRight`. The invariant enumerates what can be left of a record (`QueueShape`) and
says for each rest what the decoder remembers of the words it has read (`BinInv`,
`CounterInv`, `TimeInv`). The lemmas are about dividing a time into days, hours and
minutes (`DivUnique`, `Nested`, `FalseSameHour`, `GpsNames`) and about differences of numbers
that wrap (`MissingIsGap`).

**`Histogram_proofs`** - for every number of bins, capacity and configured number of samples:
`HistogramInvariant`, `BinsAreExact`, `SamplesAreCounted`. A sample takes four clocks
from being accepted to being written back, and the block memory answers two clocks late, so
the invariant says which bins are exact and which one is one behind (`OneBehind`),
what the memory's two registers hold in each state (`Pipeline`), how far the clearing
after a reset has come (`Clearing`), and that no sample is accepted in between
(`Handshake`); `Counting` relates the status register to the samples accepted and the clocks
waited, and the late comparison (`comp`) to the number, on any stream.

**`DevCfg_proofs`** - for any set of threads, any bitstream and any split of it into write
calls: `PlIsConnected`, `TransfersAreOwned`, `AttributesReadBack`, `StreamIsWhole`, each
from an invariant of its own. `MutexInv`: the thread between the two ends of `sem` is its
holder. `OwnInv`: until a transfer times out, the engine works only for the thread that
waits for it, and no completion of an earlier command is left for a wait that begins.
`PlInv`: while a release is half way, no other call on the file is under way and the PL is
connected. `ReadInv`: each bit is as it was stored, unless a store, open or release wrote
back a register that had changed since it was read; without such a race the unlocked steps
change `PROG_B` and `PR` alone (`Apart`). `StreamInv`: the bytes given to the engine, the
residue and the position in the file add up. Swapping the bytes of a word commutes with
cutting the stream into blocks only at multiples of four: `SwabCat`, `Cut`, `BlockIs`.

About `DevCfgFclk`, for any number of clocks and of threads writing to the clock files:
`ClocksAreBalanced` (`Balanced`). Its invariant `FclkInv` says how a clock stands (its
flag, its device and that device's data, the counts of `clk_prepare` and `clk_enable`) at
every place a call about it can have come to (`Phase`), and that the calls under way are
about different clocks and that one at most exports or unexports (`Alone`); other
interleavings are exceptions of `Balanced`. While none has been met every device of the class
has its data, so the walk over the class at removal ends without following a stale pointer.

**`DaqSession_proofs`** - for any number of processes at once, any command lines, any order of
their steps, any kills and faults, over all four releases: `SessionInvariant`,
`ReaderFollowsWriter` (`ReaderSeesWriter`), `WriterStaysInBuffer` (`WriterInLiveBuffer`),
`QuietAfterwards` (`QuietBetween`), `DataPathRecovers` (`Recovers`), `ClockInvariant`,
`ClockIsChosen` (`ClockSourceChosen`), `KeptInvariant` and `SettingsAreKept`
(`SettingsKept`). The only assumption on the command lines is that
numbers are numbers and that `-w cfg` names a setting, not a register the program itself
uses.

The proof has two layers. The first is about programs: `main()` is a sequence of steps put
together from blocks (`Block`: which bits a block clears, sets, and of what steps it is
made), for every outcome of `parse_param()` (`Command`). `Program` says what all rests of
such sequences have in common: each read of the configuration register is followed by its
write, the opening steps come in the order map, allocate, address, test, and every data path
bit that is set has its clear later. The second layer is the invariant:

* `ProgInv`: every process has the rest of a program of its release to do, and who has met
  no other is the only one;
* `LinkInv`: who is alone writes back what the register holds; its mapping, the driver's
  buffer and the writer's address agree as far as it has come;
* `BitInv`: a data path bit that is on was left by a killed or overlapping invocation,
  or a step that clears it is to come. Without the second half `QuietBetween` is not
  inductive, and the first half alone does not give `Recovers`, which is also about
  what was found on;
* `ClockInv`: `Solo` for who is alone (the register is 0 and the initial configuration is
  to come, `fgps` first, or `fgps` is set; unless something was cut, what is missing is still
  to come), `Mixed` for those who met (the configuration was complete when they met and
  none of them takes a bit of it back). It needs `IInv`, because a read-modify-write keeps
  bits only if what was read is what is there;
* `KeptInv`: a register holds what the operator last asked for. This is not inductive
  alone: the first access of an invocation runs `init_system()` when it finds the
  configuration register 0, and that would overwrite the settings. What prevents it is that
  a wish is only made once `fgps` is set, so no later first access finds a 0, and that who
  has writes of `init_system()` ahead without having been asked for them finds no wish.
  `Calibration145` and `Calibration32` carry this to what is
  displayed: a voltage of 8 to 2500 mV converted into DAC steps and back is off by 1 mV at
  most, in either calibration.

**`Sensors_proofs`** - for any number of overlapping invocations, any 16-bit coefficients
and raw values, any noise and any queue.

`SensorInvariant` and `ReportsAreMeasured` (`ReportsMeasured`). The invariant: a conversion
runs only for a process that waits for it, or was disturbed (`Owned`, `Loose`): Ctrl-C may
send a process on while its conversion runs. Until it is disturbed, a process finds in the
output register, and has read of it, the bytes of what was measured for it (`Reading`); a
report was computed from those (`Reported`). The lemmas on bytes say that a word read low
byte first, the three bytes of a pressure and the coefficients with their sign come out as
they went in. The compensation formulas are compared with the data sheet's worked example,
by an assumption of `Bmp180` that TLC evaluates, and with nothing else.

`GpsInvariant` and `FixIsIntact` (`FixIntact`). Between the chunks in the port's queue there are
points of the receiver's stream (`Track`): the first is where the program's line
and fields are, the last where the receiver is, and each chunk leads from one to the next,
or the sentence is marked as spoilt (`Moves`). A point counts the sentences spoilt so far,
never more than the noise; `Known` says that of the sentences between the one a field was
taken from and the point at most one (two for the date) was not lost. So when the second
kind of sentence arrives, the two seconds differ by what `FixIntact` allows (`KnownBoth`).
`Collected` says what a line holds at each point, from which the checksum
and the kind follow (`MessageType`). For who shares the port or has lost a newline
nothing is claimed, as in the property. The buffer is assumed to hold one sentence.

**Only model-checked.**

* All liveness properties (`Delivered`, `StreamResumes`, `ReturnsToIdle`, `Completes`,
  `KeepsTriggering`, `CallsReturn`, `Terminates`, `FixArrives`): fairness and `ENABLED` are out
  of the prover's reach.
* `ReadsFinished` and `QuietAfterExit` of `DmaTests`: the repeated parts of the programs are
  made by `FlattenSeq`, a recursion over data of which the prover knows nothing.

## 5. Plan

Done: the data path from trigger to file, part by part; the sessions of four releases with
overlaps, kills and failures; the configuration driver; the DMA programs; the sensors;
the theorems of section 4. Left, in this order:

1. `DataPath`: trigger, broadcasters, writer and histogram cores together. A
   broadcaster is ready only if all outputs are, and a histogram core in reset never
   is; a running one accepts one clock in four, and each stall restarts the trigger
   core's burst counter.
2. `PpsGen` and the interrupt path (edge detector, interrupt controller, UIO mask,
   two threads waiting), replacing the free choice of `MainIrq` and `ThreadIrq`.
3. Sample-level crossings of `LagoTrigger`, with the sub-trigger array; the trigger
   cores and read-out loops of lago_v1_2 and lago_v1_3.
4. Proofs about `DmaTests`, once the programs are put together without `FlattenSeq`.

## 6. Not modelled

* Formatting of lines, the altitude formula, the conversion of degrees (text and floating
  point); `thread_isr()`, which nothing starts: the thread of lago_v1_5 is
  `thread_isr_not_gps()`.
* PPS generator, broadcaster, configuration and status registers: the other modules
  take PPS pulses, stalls and register accesses as inputs that come at any time.
* Asynchronous FIFO: two clock domains, metastability.
* The contents of the sub-trigger array; the read-out loops of lago_v1_2 and v1_3 (in
  v1_3 a call goes on two words after the last one read and skips the word at the old
  `pos`; v1_2 maps 4 MB with a limit of 8 MB).
* `prog_done` and the emulation platform of the configuration driver.
* Averaging and small stream cores, recorders and test servers, `zynq_ocm.c`,
  `memalloc.c`, `blink.c`, `otro_dma.c`: no state beyond a counter or a register write, or
  not part of any program that is built. `dma_test_h.c` does not compile (its `AXIDMA_`
  names are not defined).
* Files that are copies of modelled ones: the GPS, sensor and support files of the earlier
  releases, the scatter-gather example in `dma_lago` and `dma_loopback`.
* Boot loader, device tree and build files.

`components` in `PROJECT.json` lists each part with its reason.

## 7. Running

    tlc -config ReadoutRing.cfg MCReadoutRing
    tlapm ReadoutRing_proofs.tla
