# Verification of hwtests

hwtests is a set of programs that run on a GameCube or Wii (or in the Dolphin
emulator) and record how the hardware behaves. This directory holds TLA+ models
of the parts of the code in which something concurrent, stateful or easily
miscounted happens, the TLC configurations that check them on small instances,
and TLAPS proofs of what matters most, for every value of the constants.

1. [The system](#1-the-system)
2. [The modules](#2-the-modules)
3. [The runs](#3-the-runs)
4. [The proofs](#4-the-proofs)
5. [What the models found](#5-what-the-models-found)
6. [What is not modelled](#6-what-is-not-modelled)
7. [Plan](#7-plan)

## 1. The system

### 1.1 Components

| Component | Source | State it keeps | Operations |
|---|---|---|---|
| Time base | `Common/timebase.s` | none; the hardware counter moves under it | `GetTimebase` |
| IPC doorbell protocol | `iostest/ipc.cpp` | `s_ipc_request` (in the data cache and in memory), PPCCTRL, PPCIRQFLAG, PPCMSG, ARMMSG, the installed interrupt handler and its mask, `Context` on the stack | `Init`, `Shutdown`, `SendRequest`, `SendRequestWithInterrupt` and its handler |
| IPC commands | `iostest/ipc.cpp`, `fs.cpp` | the caller's buffers, in cache and memory | `Open`, `Close`, `Read`, `Write`, `Seek`, `Ioctl`, `Ioctlv`, `CreateFile`, `DeleteFile`, `GetMetadata` |
| File system timing tests | `iostest/fs_timing.cpp` | descriptors open in IOS, two files in `/tmp`, ticks recorded | six kinds of test, `main` |
| IPC timing tests | `iostest/ipc_timing.cpp` | descriptors open in IOS, ticks recorded | three kinds of test, the statistics, `main` |
| CGX fence | `gxtest/cgx.cpp` | the write-gather pipe, `_cgxfinished`, the wait queue, the PE-finish interrupt | `CGX_Init`, `CGX_ForcePipelineFlush`, `CGX_WaitForGpuToFinish`, the interrupt handler |
| EFB copies and their read-back | `gxtest/cgx.cpp`, `util.cpp` | `test_buffer`, in cache and memory | `CGX_DoEfbCopyTex`, `CopyToTestBuffer`, `ReadTestBuffer` |
| TEV read-back | `gxtest/util.cpp`, `tev.cpp` | the TEV stages, the EFB | `GetTevOutput`, `TevCombinerExpectation` |
| Copy filter | `gxtest/copyfilter.cpp`, `intensity.cpp` | two filter registers, the EFB, the z-texture | `FillEFB`, `CheckEFB`, `SetCopyFilter`, `Predict`, `CopyFilterTest`, `IntensityTest` |
| Drawing helpers | `gxtest/cgx.cpp`, `util.cpp`, `cgx_defaults.h` | what libogc and the GPU were last told | `Init`, `Quad`, `CGX_SetViewport`, the defaults |
| Other GX tests | `gxtest/clipping.cpp`, `lighting.cpp`, `rasterization.cpp`, `tev.cpp`, `bitfield.cpp` | the GPU's registers, the EFB, `test_buffer` | the `...Test` functions, each `main` |
| Register layouts | `gxtest/BPMemory.h`, `CPMemory.h`, `XFMemory.h`, `cgx_defaults.h`, `Common/BitField.h` | words of 32 and 64 bits | field reads and writes, accessors, formatters |
| Common utilities | `Common/BitUtils.h`, `EnumMap.h`, `EnumFormatter.h`, `FormatUtil.h`, `TypeUtils.h` | none | bit arithmetic, counting the fields of a format string, names of enumerators |
| NaN and load tests | `cputest/nan.cpp`, `load.cpp` | registers the compiler picks, for the length of one asm statement | the `Test...` functions, the sixteen loads |
| CPU mode tests | `cputest/frsp.cpp`, `fctiw.cpp`, `ni.cpp`, `fprf.cpp`, `cr.cpp` | FPSCR, XER, the condition register, from one statement to the next | the loops over tables and modes |
| CPU reference functions | `cputest/rlw.cpp`, `srawix.cpp`, `fctiw.cpp`, `fctiwz.cpp`, `reciprocal.cpp` | none | `GetHelperMask`, `GetCarry`, `fctiw_expected`, `fres_expected`, `frsqrte_expected` |
| Special purpose registers | `cputest/mtspr.cpp` | XER and a GQR, which it leaves set | two writes of all ones |
| Harness | `Common/hwtests.cpp`, `hwtests.h` | test and subtest counters, two sockets | `START_TEST`, `DO_TEST`, `END_TEST`, `report_test_results`, `network_init`, `network_shutdown` |
| Result printer | `iostest/result_printer.h` | the results added | `Add`, `Print` |
| Running a test | `run.sh`, `CMakeLists.txt`, `Readme.md` | the loader on the console, the TCP connection | `wiiload`, `sleep`, `netcat` |
| fmt | `Externals/fmt` | the place of its parser and what it has written | vendored; `DO_TEST` uses `fmt::format` and the check of its format string at compile time |

### 1.2 How they interact

```
 fs_timing.cpp, ipc_timing.cpp                       clipping, tev, copyfilter, ...
     | Open, Read, Write, Ioctl ...                      | Quad, GetTevOutput, registers
 ipc.cpp commands  -- buffers through the cache      util.cpp -- test_buffer through the cache
     | SendRequest, SendRequestWithInterrupt             | CopyToTestBuffer, ReadTestBuffer
 ipc.cpp doorbell  -- registers, interrupt, cache    cgx.cpp  -- write-gather pipe, interrupt
     |                  | GetTimebase                    |
    IOS              timebase.s                         GPU

 all programs -- START_TEST, DO_TEST, END_TEST --> hwtests.cpp -- TCP --> run.sh's netcat
```

Nothing here runs on more than one thread of the program. What runs beside it is
the hardware: IOS on the other processor, the GPU, the time base, the data cache
(which writes back and fetches lines when it likes) and the interrupt handlers,
which preempt the program between any two statements. The programs of `cputest/` have
none of that, but an adversary all the same: the compiler, which chooses registers for
the operands of an asm statement and the place of every statement it is not told to keep.

### 1.3 What is hard, and what correct means

* **Time base.** Two 32-bit reads of a 64-bit counter that ticks in between. The
  value returned must be one the counter held, and successive values must not
  go backwards.
* **IPC doorbell.** Program, handler and IOS share one control register in which
  writing a 1 sets some bits, clears others and writing a 0 clears the enables;
  the interrupt is latched in a second register; the request and the reply share
  a cache line. A call must be executed once, return its own reply, lose no
  interrupt, leave nothing behind, and return.
* **IPC commands.** The buffers share cache lines with the caller's other
  variables; a flush or an invalidation too few or too many loses data.
* **Timing tests.** Every test has several early returns, and IOS's table of 24
  descriptors and the files in `/tmp` outlive them. A failure must not spoil
  what the tests after it measure, or it must be visible that it did.
* **Fence.** The GPU is only sent whole bursts of 32 bytes, and the flag, the
  interrupt and the thread queue are three places where a wakeup can get lost.
* **Read-back.** The GPU writes memory at some time after it was asked to, while
  the cache still holds lines of it that were just cleared. A test must read the
  copy it asked for, and nothing older.
* **Tiles, TEV, copy filter.** Arithmetic in which a rounding or a carry goes
  unnoticed: where a pixel is in a buffer of tiles; how 11 bits are recovered
  from an EFB of 8; how a sum is spread over 6-bit weights.
* **GX tests.** A program sends its commands ahead of the GPU and reads a buffer the GPU
  fills. Every round sets only some of the registers it depends on. A subtest must see
  its own drawing, and nothing that an earlier round, test or helper loaded may spoil it.
* **Register layouts.** Some fifty unions whose bit positions are written by hand. A field
  must read as what was assigned, other fields must keep theirs, and what is printed
  of a register must say what is in it.
* **CPU tests.** An asm statement says little about what it reads, writes and depends
  on. What it computes must not depend on the registers it is given, on where the
  compiler puts it, or on the modes that an earlier test left; and the expected
  value must be what the instruction is for.
* **Messages.** A message is formatted only when its subtest fails. A format string that the compiler lets pass
  must then be one that the formatter accepts.
* **Harness.** Counters compared at the end, a port bound in a loop, a client
  that is started by guesswork four seconds later. The verdict must agree with
  what was sent, and a client that got through must get all of it.
* **Statistics.** A sum of squares of unsigned differences that wrap.

`PROJECT.json` lists the hazards one by one, each at its line with the
properties that are about it.

## 2. The modules

Every module models whole functions, one action per statement or hardware
access where something may happen in between, and one action per call where not.
What is not in this repository (IOS, the GPU, the cache, libogc) is modelled as
the code relies on it and marked *(external)* in a comment. Mutants (`...Short`,
`...Forgotten`, and so on) stand beside the definition they replace: they are the bugs
the properties were tried against, and no action uses them.

| Module | Models | Builds on |
|---|---|---|
| `Timebase` | `timebase.s`, one action per instruction | |
| `IpcCall` | abstract: what `ipc.h` promises, a remote call | |
| `IpcMailbox` | the doorbell half of `ipc.cpp` | implements `IpcCall` |
| `IpcBuffers` | the commands of `ipc.cpp` with their buffers | assumes `IpcCall` |
| `IosFds` | IOS's descriptor table and `Open`, `Close` and other commands on it | |
| `FsTiming`, `IpcTiming` | the two timing programs | `IosFds` |
| `GpuFence` | abstract: a wait that ends when all commands are executed | |
| `CgxFence` | the pipe, the wait and the handler of `cgx.cpp` | implements `GpuFence` |
| `EfbReadback` | when the bytes of a copy are there to be read | `GpuFence` |
| `EfbTile` | which bytes they are | |
| `GxArithmetic` | the arithmetic the GX tests expect, shared by the next five | |
| `TevReadback` | `GetTevOutput` on `TevCombinerExpectation`, for every value | `GxArithmetic` |
| `CopyFilter` | `SetCopyFilter`, `Predict`, the intensity conversion, for every sum | `GxArithmetic` |
| `GxCommands` | the commands the GX tests send, and the GPU they send them to | `GxArithmetic` |
| `GxPrograms` | the `main`s of six GX programs, round by round | `GxCommands` |
| `BitFields` | `BitField.h`: fields and arrays of fields of a word | |
| `BitUtils`, `FormatUtil` | `BitUtils.h` on the same words; `FormatUtil.h`'s counts | `BitFields` |
| `FmtFormat` | fmt's parser, its check at compile time, and the formatter behind it | |
| `BPMemory`, `CPMemory` | every union of `BPMemory.h`, `CPMemory.h` and `XFMemory.h` with its accessors and formatters | `BitFields` |
| `GxRegisters` | `cgx_defaults.h`, `bitfield.cpp`, and any assignments to any register | `CPMemory` |
| `TevEquation` | the equations the combiners' formatters print | `GxRegisters` |
| `NanAsm` | the asm statements of `nan.cpp`, one action per instruction | |
| `CpuModes` | `frsp.cpp`, `fctiw.cpp`, `ni.cpp`, `fprf.cpp`, `cr.cpp`, `mtspr.cpp`, one action per statement | |
| `LoadAsm` | `load.cpp`, one action per iteration | |
| `CpuReferences` | what `rlw.cpp`, `srawix.cpp`, `fctiw.cpp`, `fctiwz.cpp`, `reciprocal.cpp` expect | |
| `HwTests` | `hwtests.cpp`, `result_printer.h`, and the `run.sh` at the other end | |
| `IpcStatistics` | the mean and the deviation of `ipc_timing.cpp` | |

`MC...` modules give TLC the constants that are more than numbers; where a run is about
several small components, its MC module chooses one at the start. The runs `readback`,
`ipc_buffers` and `nan_shared` need none: they run the module itself, and their bounds are in the
`.cfg`. `...Proofs` modules hold the theorems.

### 2.1 Timebase

The registers `r0`, `r4`, `r3`, the counter `tb` as a pair of words, `pc` at the
next instruction. `Tick` may come between any two. `entry` and `last` remember
the counter at the call and the previous result. `L`, the values of the lower
word, is 2^32 on the machine; nothing depends on it.

### 2.2 IpcMailbox and IpcCall

`ctrl` is the set of bits set in PPCCTRL, and `ipc_bell(w)` is what a store of
`w` does to it: X bits are set, Y bits are cleared, the enables are replaced.
`flag` is the latched interrupt; whether hardware latches edges or levels is left
open (`Latched`), so the code has to work with both. The program (`pc`) runs while
the handler (`irqpc`) does not and no unmasked interrupt is pending.
`s_ipc_request` is a line of the cache (`cache`, `cline`) and of memory
(`dram`), which the cache may fetch and evict at any time. IOS accepts a request,
executes it, replies, and, when its reply is released by X2, may go on to post
another message. `BeginPoll` and `BeginIrq` choose between the two functions for
each call, and `InitIpc` and `Shutdown` may come between calls. The time base is
one atomic read here, which `CpuTestsProofs` justifies.

`IpcCall` says what is left when all that is taken away: requests are issued,
executed in order, once each, and returned with their own answer. The refinement
maps `issued` to `calls` and `answer` to the reply in `result`.

### 2.3 IpcBuffers

Three lines: the one with the path or parameters (`in`), the one `GetMetadata`
fills (`out`), and the aligned buffer of the reads and writes (`page`). The first
two also hold other data of the caller. A command stores its input, flushes,
sends (`IpcCall`: executed once, then answered), invalidates and looks at the
output. Evictions and fetches come anywhere, and so do stores beside the two
buffers (`StoreBeside`): the caller's own between commands; and during one, the frames of the
functions it calls and the result that `SendRequest` builds in its caller's frame
(`ipc.cpp:151`). Which of them share a line with a buffer is the compiler's choice, so the
model lets any store go there at any time. Each has a number, `stored` is the last, and two history variables
say what the code cannot keep: `settled` is the last store that was not made between an
ioctl's flush of the line and its `dcbi` (`ToDiscard`), and `crossed` says that a store of
this command went to a line of the output that did not hold IOS's answer.

### 2.4 IosFds, FsTiming, IpcTiming

`Open(there, result)` and `Close(fd, ok)` are the commands with every outcome IOS
may give, a failure for a reason of its own included. That IOS hands out the
lowest free number is an external assumption, the one `ipc_timing.cpp` itself
makes when it closes what it opened by number. `FsTiming` goes through `main`'s
list of 45 tests: `k` is the test, `i` the iteration, `fd` and `file_fd` the
locals, `files` what is in `/tmp`, and each action is one command with the code
up to the next. `ticks` counts what was recorded. `IpcTiming` has the loop that
fills the table, the timed `Open`, the loop that empties it, and the tests with
descriptors that are not open.

### 2.5 CgxFence and GpuFence

The pipe holds `fill` bytes and the last bytes of `held` commands; a `Store` that
completes a burst sends them (`sent`). The padding is eight stores, one action
each. The interrupt is pending in `finish`, `finished` is `_cgxfinished`, `ints`
whether the running thread has interrupts enabled: `LWP_ThreadSleep` lets the idle
thread run with them on, and `Broadcast` takes the program up again with them
off. `Init` starts with any fill, since libogc has written before.

`GpuFence` has the commands written, the commands executed and whether a wait is
in progress; `waiting` maps to `pc # "run"`. `EfbReadback` uses its actions
directly.

### 2.6 EfbReadback and EfbTile

`EfbReadback` follows one copy from `memset` over the command, the line-by-line
invalidation, the fence and the reads, with `Evict` and the GPU's `Execute` at
any point. Contents are numbers of copies, `Zero` for the memset and `Garbage`
for what `memalign` left. `evicted` remembers whether a line was written back
between the command and the end of the invalidation: only then may zeros appear
where the copy should be.

`EfbTile` is about addresses: `Written` is where the GPU puts a channel of a pixel
given the stride of `CGX_DoEfbCopyTex`, `ValAddr` where `ReadTestBuffer` looks,
and `read.found` the set of pixels whose byte it finds there.

### 2.7 GxArithmetic, TevReadback and CopyFilter

`TevReadback` draws the caller's last stage twice with the extra stages of
`GetTevOutput`, evaluates them with `TevCombinerExpectation` as `tev.cpp` has it,
truncates to what the EFB keeps and recombines. One channel stands for all;
`pixel` says which and from which EFB format.

`GxArithmetic` is the arithmetic alone: a combiner stage, the six low and five high bits put
together, the six-bit channel, the filter's sum, BT.601. `CopyFilter` packs three sums into the weights of two registers, takes them
apart as the hardware does, and compares the filtered rows with `Predict`. 16-bit
intermediates and the narrowing to bytes are modelled with their width.

### 2.8 GxCommands and GxPrograms

The programs of `gxtest/` share one shape: set registers, draw, copy, wait, read, compare.
`GxPrograms` has each `main` with its loops as a list of rounds (`Loops`), and each round as
the list of its statements (`Program`); `round` and `next` say where the program is.
`SendCommands` appends to `fifo`, and the GPU takes commands from its other end
whenever it likes (`ExecuteLoad`, `ExecuteDraw`, `ExecuteCopy`), so the CPU may be a whole
round ahead until it waits. `Return` starts the next program on a GPU that libogc has set
up again. Where the fence and the cache come in is `GpuFence`'s and `EfbReadback`'s
matter and is not repeated: a wait here ends when `fifo` is empty.

A register is a name and the fields the tests depend on; a pixel of the EFB is its colour, its
depth, the format it was written in and the round that drew it; a pixel of `buffer` also the
round that copied it. The GPU *(external)* covers a pixel if its centre lies in one of the two
triangles of a quad, evaluates the TEV stages as `tev.cpp` expects them, keeps what the
pixel format keeps, and mixes rows as `copyfilter.cpp` predicts. `Garbage` is what it gives when the
vertex format, the texture or the pixel format is not what the draw or the copy needs;
it compares equal to nothing a test expects. A test thus passes only if all it depends on was
loaded, by itself or by somebody before it, and is still there.

Coordinates are tenths; a depth is inside, in front of or behind the clipping planes, or so near
that either may happen. What the tests are there to measure is left to the hardware:
the quads of `rasterization.cpp` may or may not cover their pixel.

### 2.9 BitFields, BitUtils, FormatUtil, FmtFormat, BPMemory, CPMemory, GxRegisters, TevEquation

A word is the set of its bits that are one; `Assign` and `Value` are `BitField`'s operators, with
the shifts of C++ on words of any width. Each union is a record (`Layout`) of its fields, of the
fields its formatter prints, and of the names of their values. In `GxRegisters` a register starts as
zero, as all ones, or as one of the words the code gives it (the defaults of `cgx_defaults.h`, the constants of
`bitfield.cpp`), and any fields are assigned in any order, with values
that are too wide or negative among them; `meant` remembers what the assignments meant.
Members that lie over others on purpose (`hex`, `FullAddress`, a range of bits with a name of
its own) are told from the rest by `Shares`. `TevEquation` keeps an equation as the parts that are
printed (a part that is not printed is `None`, a `Term` is its form and the names in it), and reads it as a
reader of a log would (`ReadValue`). Its constants are the arguments that are combined and what they may be worth: an
argument that is a constant of the hardware (0, 1/2, 1) is worth that, every other may be worth anything.

`BitUtils` has the operators of `BitUtils.h` on the words of `BitFields`. C++ computes in `int` what is
narrower, so `ExtractBits` has the width of `int` as a parameter: for `u8` and `u16` the shift to the left drops
nothing, the cast comes after both shifts, and the bits above `end` are returned as well (`NarrowKeepsAbove`). Nothing in the
repository calls it with such a type, or at all. `BitField::Value` does the same to a signed field: in a storage narrower than `int`
the bits above the field would stay. No field of the repository has such a storage (`LayoutsApart` says so), and the
theorems about fields are about the others. `FormatUtil` has the two loops over a format string as recursive functions;
`DO_TEST` counts with the first how many arguments it must have (`hwtests.h:18`). Both are checked as part of `AccessorsAgree`.

`FmtFormat` is the part of fmt that a `DO_TEST` runs. The parser is a record: its place, the counter of arguments, the
arguments used, the text written, the specifications of the field it is in, and whether `on_error` was called, after which nothing
matters. fmt has one parser with two handlers, so the module has one with a context: `check` is `format_string_checker`, which only looks
at the types of the arguments, `format` is `vformat_to`, which also looks at their values and writes. Strings of less than 32
characters are read by another loop than longer ones (`ReadShort`, `ReadLong`), and `{}` and a specification of one letter
have shortcuts of their own. An `int` ends at `IntMax`, which is 127 in the run: a number of two digits always fits, one of three may not.

### 2.10 HwTests and IpcStatistics

`HwTests` has three kinds of program: those that only run tests, those that also call
`report_test_results` (`copyfilter`, `intensity`), and those of `iostest`, which measure
first and listen then. `status` and `totals` are the harness's counters; `sent` are the lines,
without their text. `taken` says that the port is still in use, so `net_bind` is
repeated. `run.sh`'s client comes at any time after the program was sent: four seconds are a guess. If
nobody listens yet it is refused and does not come back; then somebody may start the
`telnet` of the Readme. `Run` sends the next program when the last has returned.

`IpcStatistics` records any sample of ticks (`RecordTicks`), and goes through the two loops of `PrintResults` one
turn a step (`AddTicks`, `Average`, `AddSquare`, `PrintDeviation`) in words of `Word` values; `exact` adds up beside it
the squares of the true distances.

### 2.11 NanAsm, LoadAsm, CpuModes, CpuReferences

`NanAsm` has the code of each asm statement as a sequence of instructions (`Template`, and
the three statements that follow none), the registers the compiler gave to its operands
(`alloc`), and executes it on pairs of values (`fpr`). Since no output is an early clobber,
an input may be given the register of any output; inputs of equal value may share one.
`ptr`, the general register of the pointer, may have the number of any other operand
where a statement writes it as a floating-point register. NaNs are told apart by sign,
payload and quiet bit, numbers by their value in quarters; the result of an operation
that is zero has no sign, which no expected value needs. `flaws` collects what a statement does that it did not declare:
reading an input it has written over, reading an output it has not written, writing
a register that is no output.

`LoadAsm` gives the operands of each load registers under the constraint "r" (`GeneralRegisters`), which includes
register 0, the number 0 when it is a base; and lets the compiler store a test's array (at the address `Array`)
late, because no statement says that it reads memory.

`CpuModes` keeps the order of the statements that are volatile or have no outputs, lets
the others move to any place before their result is used, and lets the compiler compare
something of its own in cr0 at any time. `off` marks the results computed in another
state than the program's order gives them. The programs run one after the other, and
after a loader that leaves any mode, so what one leaves is there for the next (`ModesSpec`). The two
precisions of `fprf.cpp` and its two tables are the same up to their names and are one here.

`CpuReferences` computes what the tests expect, `fctiw_expected` one turn of its loop at a
time, and compares it with definitions of its own: bit by bit for the rotations
(`RotatedAndMasked`), quotients for `srawi` and the conversion (`TowardsZeroQuotient`,
`Converted`), and the distance to the true reciprocal or root for the estimates
(`FresClose`, `FrsqrteClose`). A number that `reciprocal` tries is an exponent and a mantissa; those of `TriedExponents` and
`TriedMantissas` it tries, and of all others it is silent.

## 3. The runs

| Run | What it answers | Bounds, and why they are enough |
|---|---|---|
| `cputest` | no torn value of the time base; which allocations, moves and stale modes the tests of `cputest/` stand; whether the expected values are right | see below |
| `ipc` | refinement of `IpcCall`, no lost interrupt, nothing left behind, no abort, honest ticks, every call returns | 3 calls: each pair of successive versions, with Shutdown and Init between, and one after; 2 ticks order any three events of a call |
| `ipc_buffers` | input and output arrive, and what of the neighbours is kept | 3 commands of any kind: what one leaves in the cache, met by another, and by a third; 3 stores beside each buffer: one before, one in and one after a command, or three in one |
| `gpu` | refinement of `GpuFence`, no lost wakeup, every wait returns; the programs of `gxtest/` | fence: the real pipe of 32 bytes from each fill; sizes 5, 6 and 29; 5 commands: two waits with commands before, between and after; programs: see below |
| `readback` | never stale, exact unless lines were evicted during the issue, settled afterwards | 3 lines: copies of one, some or all of the buffer; 2 copies: what one leaves for the next |
| `gx_tests` | the calculations of the GX tests | see below |
| `registers` | whether fields, accessors, formatters and equations say what is in a register, and whether a message is formatted | every union, 2 assignments: any two fields in either order; four values a field, at its ends and beyond; messages as below |
| `iostest` | what failing commands leak, spoil or hide; the harness; the statistics | see below |
| `tile_tests` | the calls the tests make | the real EFB of 640 by 528 |
| `tev_dest` | a result in another register than PREV | a few values around zero |
| `nan_shared` | whether the tests named WithShared share | every test and every allocation |
| `clip` | whether a quad is shown where `clipping.cpp` expects it | all sixteen steps |

The last four are expected to be violated, see section 5.

`gx_tests` is three questions:

* tiles: each rectangle up to 9 by 6 (each remainder by 4, one to three tiles) at two corners of
  a 16 by 8 EFB, up to its edge;
* TEV: all 2048 values, the first and the last two stages permitted;
* copy filter: the sums next to those that fill a field, a byte or a weight (`BoundarySums`), in
  columns at the corners of the arithmetic. The theorems of section 4 have no such bounds.

The programs in `gpu` make every step of `ClipTest`, of `KonstTest` and of `CoordinatePrecisionTest` up to the step
size, and of the longer loops the rounds at the corners of their arithmetic: ambient and material
colours around 128, `c0` where a bit or the sign changes, ten stages of the random loop with every
scale, bias and operation, six sums with every combination of flags, each pixel format, four blues. A
button may end a loop where the code lets it. Two consecutive rounds with any lag of the GPU
are what a register or a buffer can go wrong between, and those are there for every pair of
loops that follow each other. `ReadsOwn` is proved for all their rounds (section 4).

The messages of `registers` are every string of up to five characters out of six, one for each thing the parser tells apart
(braces, a colon, a digit, an alignment, a letter), so that every field that is cut short or nested is among them, formatted with no argument,
with one, and with three; and every field with an alignment, a flag, a zero, a width, a precision and a type, or without any of
them, the width and the precision also as arguments, formatted with one argument of each type that a test passes. A nested width or
precision is given small integers, and each of what fmt refuses there (`Unfit`): a string, a boolean, a character, a negative number and one
above `INT_MAX`, which is 127 in this run.

`iostest` chooses one of four components:

* `fs_timing`: the real table of 24 and the real list of 45 tests, 2 iterations each (the first, and one
  that finds what another left), five failing `Close`s; `ipc_timing`: the same table, two failing `Close`s;
* the harness: 2 tests of up to 2 subtests, of which any fail: a test that passes after one that does
  not, and the reverse; then the next program;
* statistics: samples of up to 4 ticks in a word of 15 bits, with 181 the largest distance whose square
  fits, and 400 one that does not.

`cputest` chooses `GetTimebase` or one of the modules of section 2.11 at the start. Its bounds:

* time base: words of 3 values and four upper words, so that carries fall before,
  between and after any two reads, and twice in one call;
* `nan`, `load`, and the mode tests: every row of every table, every allocation, every order;
* masks and estimate tables: their real sizes. `srawi`: every word of 6 bits and every shift;
* `fctiw`: words of 6 bits and all doubles with 4 bits of mantissa and 5 of exponent, in all
  four modes: the largest word fits in a mantissa, and the smallest number is shifted
  out completely, as in the real format;
* `reciprocal`: the exponents around each condition of the code (`SomeExponents`), the ends and the middle of
  each piece of the tables, and each single bit as a mantissa (`SomeMantissas`), of all 2^32 numbers the
  program tries. `FloatsAreExpected` of section 4 is about all of them.

**Fairness.** Three runs use it. In `ipc`, the processor executes the program's
call and the handler, and IOS serves what it was sent; beginning a call, the
cache and the clock are not fair, so no property rests on an eviction or on a
next call. In `gpu`, the program under the fence runs a wait it has begun, the handler runs,
and the GPU executes what has *left the pipe*: if the padding were too
short, the GPU would have nothing to execute and the wait would not return. A
fair step of the program is only possible while no interrupt is taken, so a
handler that is entered again and again starves it, as on the machine. In `iostest`, the harness's
program goes on while it can, and netcat reads while there is something to read. That anybody
connects, that the port is ever released, or that a client stays is not assumed: `ReportArrives` is
about a client that did connect, and the program does wait for ever if none does, as the code says.

**Deadlock** is checked in every run but `registers`, which is over when no assignment is left. Where a behaviour may end (all calls made,
all tests run) the module says so with an action that stutters.

**The deeper properties**, in a sentence each:

* `IrqFlagExact`: outside the handler the latched flag is set exactly while an
  enabled Y bit is, across both versions of a call, `Shutdown` and `Init`. This is
  what the comment "must be done after clearing Y1" is about.
* `AtRest`: between calls IOS is idle, no request, acknowledgement or reply is
  pending, the last reply is released or about to be, and no modified line can
  overwrite `s_ipc_request`.
* `TicksCover`: the reported ticks cover the time from the doorbell to the
  acknowledgement and to the reply, in the interrupt version too.
* `OutputArrives`: the caller finds the output of its own command, with one exception: a store beside it, during the command, that
  makes a line without IOS's answer dirty. If that line is evicted before it is discarded, it is written over the answer.
* `NeighboursKept`: what lies beside a buffer is never older than the last store that was not made between an ioctl's flush
  and its `dcbi`. Only stores between the two may be lost, and no earlier one with them.
* `WakeupComing`: whenever the program sleeps, a draw-done that has left the pipe
  is to be executed, its interrupt is pending, or the handler has yet to broadcast.
* `OnlyReadsLeak`: only `TestReads` leaks descriptors, at most one a
  test, so with at most four failing `Close`s the table of 24 never fills.
* `OwnCloses`: no test closes a descriptor it did not open, though `TestWrites`
  ends with a `Close` of a number that may be long closed.
* `FailureExplained`: a test falls short only because one of its own commands
  failed or because of a file it found in `/tmp`.
* `TableHeals`, `TimedOpenRefused`: whatever the table holds when an iteration of
  `ipc_timing` begins, it is emptied, and the timed `Open` can only succeed if a
  command of the same iteration failed.
* `NanSound`: a subtest of `nan.cpp` fails only if its statement used a register it had
  no claim to; and the statements that name no general register never do, once inputs
  and outputs are kept apart: early clobbers are all that is missing there.
* `FailsOnlyOff`: a subtest of the mode tests fails only if the compiler moved what it looks
  at out of its mode, or used cr0; never because of a table, or of what was left before.
* `LoadsSound`: the loads fail only with a base in register 0, or with an array that was
  not stored yet.
* `IntegersExact`: what the tests of rotations and shifts expect is what the instructions are for: masks that
  wrap or are empty, and the carry of a shift.
* `FloatsExpected`: so is what the conversions expect, with sticky bits that round correctly however many
  turns the loop of `fctiw_expected` takes; and the estimates of `fres` and `frsqrte` are as close as they are documented to be.
* `SubtestsPass`: every subtest whose outcome the model settles passes, in every program, whatever order the
  rounds, tests and programs before it came in and however far the GPU lags behind. It is what says that
  no register left by a helper or an earlier test spoils a later one: `FillEFB` for depths, for example,
  passes only because it loads a copy filter of its own before it copies its texture.
* `ReadsOwn`: what a test reads was drawn and copied in its own round, or put there by its own fill.
* `KeepsMeaning`: a field reads as what was last assigned to it, cut to its width and with its sign, whatever
  was assigned to the fields around it since.
* `PrintsAll`: two words that a formatter prints alike have equal fields, and every value with a name is a value
  that is declared, with no gap between. The message of a test that fails is formatted: a format string passes the check at
  compile time exactly if formatting it does not fail, with one exception: of an argument nested in a specification as a width or
  precision the check only asks whether it exists, and formatting fails if it is named, no integer (a boolean and a character
  count as none), negative or above `INT_MAX` (no test nests one); what it uses of its arguments is what `FormatUtil` counts; the shortcuts of the parser
  read and write what the long way does; a width makes columns; and two different numbers never give the same
  text, unless they are shown as characters or padded with zeros behind.
* `AccessorsAgree`: what is computed from fields by hand (the rotated copy format, the three ways to the
  address of a texture unit, the scale of an indirect matrix, the light mask, the masks of fractional bits) agrees with the fields.
* `EquationExact`: the equation printed for a stage has the value of the one in the formatter's comment.
* `VerdictSound`: the report at the end counts what the lines before it said, and "All tests passed" is sent
  exactly if no subtest failed.
* `ReportArrives`: a client that is connected gets every line and then the end of the stream, unless it quits.
* `DeviationExact`: the sum of the squares of differences that wrap is the sum of the squares of the distances, as
  long as each square fits a word.

## 4. The proofs

Each theorem holds for every value of the constants that the module's named
assumptions allow; these only say that sizes are positive integers, that bounds
are numbers and that inputs are in range. The bounds (`MaxCalls`, `MaxStores`, `MaxTb`,
`MaxCmds`, `MaxCopies`, `MaxUpper`, the iterations, samples and failing `Close`s of `iostest`) are
arbitrary, so the theorems hold for behaviours of any length.

| Module | Proved | Inductive invariant |
|---|---|---|
| `CpuTestsProofs` | time base: `NotTorn`, `Monotonic`; loads: `LoadsSound`; mode tests: `FailsOnlyOff`; rotations and shifts: `IntegersExact`; conversions and estimates: `FloatsExpected` | the registers are ordered between the counter at the call and now; `LoadIInv`: the load is one of the sixteen; `ModesIInv`: the statements executed left the registers as the next need them; `RefIInv`: the operands asked are words, and shifts and masks of one; `ConversionsIInv`: the loop has shifted out what the three bits tell; `EstimatesIInv`: the estimate is that of a number tried |
| `IpcMailboxProofs` | `TypeOK`, `IrqFlagExact`, `NeverAborts`, `TicksCover`, `AtRest`, `ImplementsCall` | `Protocol`, `Memory`, `Clock` |
| `IpcBuffersProofs` | `InputArrives`, `OutputArrives`, `NeighboursKept` (and types) | `Beside`, `PageClean`, `Sent`, `Answered` |
| `GpuProofs` | fence: `TypeOK`, `WakeupComing`, `NothingLeft`, `ImplementsFence`, and `FenceComplete` on its own; programs of `gxtest/`: `ReadsOwn` | `Pipe`, `Fences`, `Notification`; `ProgramIInv`: `ViewportStands`, `Filling`, `ReadBack` |
| `EfbReadbackProofs` | `NeverStale`, `ReadExact`, `Settled` (and types) | `Waiting`, `Commands`, `Zeroed`, `Copied` |
| `GxTestProofs` | tiles: `ReadsPixel`, `InBuffer`; TEV: `ReadsAllBits`, `CompareReads`; copy filter: `FilterPredicted`, `IntensityInRange` (and types) | the stride is that of the rectangle; `Drawn1`, `Drawn2`, `Bytes`; the registers hold the fields of the sums |
| `IosTestsProofs` | `fs_timing`: `OnlyReadsLeak`, `OwnCloses`, `FailureExplained`, `MeasuresMode`; `ipc_timing`: `TableHeals`, `TimedOpenRefused`; harness: `VerdictSound`; statistics: `DeviationExact` (and types of all four) | `Control`, `Holds`, `OwnIInv`, `LeakIInv`, `FilesIInv`, `ExplainedIInv`; `Filled`, `Full`, `Emptied`; `Tallied`, `Unreported`; `StatisticsIInv` |
| `GxRegistersProofs` | `FieldReadsBack`, `OthersKeep`, `ElementsApart` for every field and word (signed ones no narrower than `int`); `ExtractBitsIsField`, `NarrowKeepsAbove`, `RotationsInverse` for every width; `KeepsMeaning`, `KeepsAddress`; `EquationExact` | `meant` is what the fields hold, and only of fields apart |

* **IPC.** None of the properties is inductive: that the flag is exact depends on
  which of the handler's writes have been made and how far IOS is. `Protocol`
  therefore has a case for each stretch of a call (`Polling`; `AwaitAck`,
  `AwaitReply`, `Releasing`, `Finished`) that ties together the Y bits, the enables,
  the flag and IOS's progress. On top of it `Memory` says which of cache and memory
  holds the request or the reply, and `Clock` orders the time stamps. Each
  part is preserved given the parts below it. The refinement then maps
  storing the request, IOS's execution and the return to the three actions of
  `IpcCall`, and every other step to a stutter.
* **Buffers.** `Beside` says that what a cached line holds beside its buffer is no older than the last store that counts (`settled`), and that the
  same is true of memory unless the line is dirty; and of memory even then, if the line is yet to be discarded. `PageClean` is that nothing dirties the page
  but a write's own input; `Sent` and `Answered` say where the input is until IOS reads it, and where the answer is from then on, unless `crossed`.
* **Fence.** `Pipe` bounds where the draw-done can be while the padding is being
  written: 5 bytes and 32 bytes of padding always complete its burst, whatever the
  sizes of the commands before. `Fences` numbers the draw-dones, and `Notification`
  says that from the draw-done on it has still to be executed, or its
  interrupt is pending, or the handler is running, or the flag is set.
* **Programs on a GPU that lags behind.** `ReadsOwn` says whose copy and whose drawing a statement reads, when all that came before
  it may still be in the fifo. The proof has two halves. The first looks at the texts alone (`TextSound`): a statement that reads
  comes right after a wait, that after a copy, that after the zeroing of the buffer; what it reads is inside the
  copied rectangle; and the round has drawn over it for certain, in a viewport it loaded or in one that stands, unless it
  only copies what a fill has put there. Each text of the six programs has a lemma of its own (`ClipSound` to
  `IntensitySound`), for every value of its loop's counter; `Covers` and `CoversWide` say which quads cover
  which pixels. The second half follows a pixel through the fifo. `Painted` is that the round's draw has been executed, or is in
  the fifo with the viewport it needs in force before it, and nothing of another round is left that could
  draw over it; `CopiedOwn` is that the copy has been made, or is in the fifo behind such a draw, and no other round's copy is left.
  A step of the GPU moves each of the two one place on (`StepKeepsPainted`, `StepKeepsCopied`), sending appends to it, and once the
  fifo is empty only their first halves are left. Two viewports outlive the round that loads them, which `ViewportStands`
  has to carry along: `Init`'s, in which all of `TevCombinerTest` draws, and that of the first pass of the
  last loop of `rasterization.cpp`. `Filling` says that a fill pokes only once the GPU is idle. Which round follows which comes from the
  loops of each `main` (`LoopsSound`): the copies that follow a fill are those of that fill. The
  theorem assumes `ProgramAssumption`: that the programs are the six, that coordinates are bytes and that the blues are
  a sequence of numbers. The colours, registers, random stages and sums of the loops are arbitrary. It is no
  theorem about the values that are read: those are `SubtestsPass`.
* **Read-back.** `Zeroed` says how far the memset has got, `Copied` what each line of
  the copy may hold in cache and memory from the command on, with `Commands`
  counting what the fence still has to wait for. `ReadExact` is conditional
  on `evicted` because the code invalidates after it has sent the command.
* **Tiles.** `ByteInjective` shows that no two channels of any two pixels of a copy
  share a byte, for any stride that is at least as wide as the copy.
  `RightPixel` assumes `WidthRepeated`: each call site passes the width of its copy.
  One does not, see section 5.
* **TEV.** `Recombine` is the arithmetic: six low bits from the product by four,
  five high bits with the sign from the value halved three times. `Drawn1` and
  `Drawn2` follow the register through the extra stages.
* **Registers.** `ValueBit` and `AssignBit` say which bit of the word is which bit of a field; from them
  `FieldReadsBack` (a field reads as what was assigned, cut and sign-extended) and `OthersKeep` (an assignment
  changes no field that lies apart) hold for every width and every value. `MeaningKept` then follows for any
  number of assignments in any order, from one fact about the layouts (`LayoutsApart`: the
  fields are legal, and lie apart unless they share). That is a statement about a table of several hundred
  constants and no proof: it is an `ASSUME` of `GxRegisters`, which TLC evaluates in the run `registers`.
* **Copy filter.** `Parts` (a sum is the sum of its parts), `Unpack` (fields of a packed
  word), `Weights` (both together) and `NominalRange` (the fixed-point conversion).

* **Timing tests.** What is open in IOS is a sum of debts: the descriptors of the test that runs, those that
  failing `Close`s left, and one for each `TestReads` before. The inductive invariant has a clause for each place in a
  test at which it may return, saying what it owns there and which files are in `/tmp`. `OwnCloses` and `MeasuresMode`
  hold for a table of any size; `OnlyReadsLeak` and `FailureExplained` assume at least 24 descriptors, since 18 `TestReads`, four
  failing `Close`s and the two a test has open itself need that many. The list of 45 tests is `main`'s.
  `ipc_timing` needs no such number: the loop that empties the table closes what the loop that filled it opened, by its number.
* **Harness.** `Count` is the number of lines sent with a given text, as the cardinality of a set of positions, so it needs no
  recursion: a line appended adds one to its text (`SentGrows`). `Tallied` says that the counters are those counts, with the
  test that runs counted from its start and its subtests from its end; `Unreported` that nothing says so before the program is through.
* **Statistics.** The difference of two unsigned words is the distance or its complement; a square of either is the same
  modulo the size of the word, by `(W + d)^2 = d^2 + W * (2d + W)`, and so is the true square itself if it
  fits (`SquaredDistance`).
* **Loads.** `WellFormed` says what the sixteen loads have in common: base and index, or base and displacement, add up to
  the address of the current element. From there the proof is about any such load, any set of registers and any place of the array.
* **Rotations and shifts.** A mask that wraps is the complement of one that does not, and bit `i` of a rotated word is bit
  `i - n`, below or above 32. For `srawi`, words have any width `N`: the carry is what rounding down lacks of rounding
  towards zero (`CarryRoundsTowardsZero`). `WordBits` is `N` positive, and the powers of two up to it positive numbers: a fact, of
  which the provers know nothing.
* **Mode tests.** What a statement gives depends on the registers that earlier ones left. `InOrder` says which statements have been
  executed when another has; `ModeSet`, `ClassLeft` and `ConditionLeft` what they left, whatever the loader, an earlier program or an earlier round
  left before; and `GivenAsExpected` that a statement which is not `off` gave what its `DO_TEST`s expect. `CodeSound` is about the shape
  of the code, `FrspRight` and its like about the rows of the tables.
* **Conversions.** The loop of `fctiw_expected` shifts the mantissa right, one bit a turn, and keeps the guard, the round and the sticky
  bit. Its invariant (`ShiftedOut`) is that the mantissa left is the quotient of the one it began with by the power of two
  of the turns made, and that the three bits say of the remainder whether it is zero, and whether it is less than, equal to or more than a half.
  Without the remainder nothing follows for the rounding of the last turn. Words have any width, mantissas any
  number of bits: `PowersOfTwo` says that `2^n` is one for zero and doubles from one number to the next, of which
  the provers know nothing; that powers multiply is proved from it, by the least number for which they would not.
* **Estimates.** `fres_expected` and `frsqrte_expected` look up a base and a decrement by the first bits of the mantissa. The proof
  splits a mantissa into its piece of the table and the rest; on each piece the error is bounded by
  arithmetic, from the numbers of that piece alone (`EstimatesAreClose`). A denormal is first shifted until it is normal (`NormalShift`), and
  for the root the parity of the exponent picks the half of the table. It holds of every exponent and every mantissa the program
  can try, not of the samples of the run (`TriedNumbers` only says that they are numbers of 11 and of 20 bits; `DoubleBits`
  that doubles have the bits they have).
* **Equations.** `NameReads` is that a name in a table stands for one number. It needs that the names differ, which holds of the tables
  as they are written, and that the arguments printed by their value (1, .5, 0) are worth that. Then every
  form of the term is worth `(1 - c) * a + c * b` (`ColorReads`, `AlphaReads`), and `AroundReads` adds what stands around it,
  for every sign, bias and scale.

Only model-checked:

* `CallsReturn`, `WaitReturns` and `ReportArrives`, which are liveness properties under fairness;
* `SubtestsPass`: the colour a round draws depends on every register that the rounds, tests and programs before it have left, on top of
  what `ReadsOwn` needs to know; an invariant would have to repeat the registers of every program, round by round;
* `NanSound`: a table of statements and rows, each with its own expected value. `NanAsm` has no constants, so that the run has
  visited every state there is and a theorem would say nothing more;
* `PrintsAll` and `AccessorsAgree`: facts about tables of several hundred constants and names, which TLC evaluates, and about
  fmt's parser, which is recursive over its string;
* the four findings, which are refuted.

`Monotonic`, `NothingLeft`, `KeepsAddress`, `InBuffer`, `CompareReads` and the types
of several modules are proved, and no run repeats them.

## 5. What the models found

* `rasterization.cpp:153` (run `tile_tests`): `CoordinatePrecisionTest` copies a
  rectangle 78 pixels wide and reads it with a width of 128, so it looks at another
  pixel than the one it means. `util.h:65` asks for the width of the previous copy.
* `util.cpp:414` (run `tev_dest`): the three halving stages all read the register the
  caller's last stage wrote to but write to PREV, so a result in another register is
  halved once, not three times, and is not recovered. `util.h:67` promises all 11 bits,
  and the code has a case for each destination. The tests only use PREV.
* `nan.cpp:695` (run `nan_shared`): `TestPsNmaddLowerWithSharedB` numbers its operands as
  if it had four outputs, but it has three. b is put into the output called `c_tmp`, c
  into the floating-point register that happens to have the number of the pointer, which
  no constraint mentions, and the result shares its register with none of them,
  although the message says `(b=d)`.
* `clipping.cpp:101` (run `clip`): steps 1 to 4 of `ClipTest` read a pixel that lies to the left of the quad they
  draw. The viewport is 50 pixels wide at x = 100, so a vertex at -1.8 is drawn at 80 and the pixel read is 75;
  the other three are 62.5 and 51, 87.5 and 80, 62.5 and 51. Each expects the quad's colour there. Clipping at the guard band
  can only take pixels away from a quad.

Worth knowing, although no document of the repository denies it: what `SendRequest` stores of its result is lost if it lies
in a line of an ioctl's buffer, since `Ioctl` discards the line afterwards without having written it back (`ipc.cpp:239`; in
`TestGetMetadata` both `result` and the unaligned `metadata` are on the stack, `fs_timing.cpp:165`), and whether it does is up to
the compiler's layout; zeros may be read
instead of the copy if an interrupt handler makes the cache evict a line between
the copy command and the end of `DCInvalidateRange` (`ReadExact` needs `evicted`);
the filter of `copyfilter.cpp` overflows nine bits from a `copy_filter_sum` of 43
on when all three rows are weighted (3 * 43 * 255 / 64 is 513), where the comment at
`copyfilter.cpp:389` says 128; and a `TestWrites` that fails leaves its file, which then fails all
sixteen tests of its kind, in this run of the program and in the next
(`FailureExplained` names that as its one inherited cause).

`fmt` checks at compile time only that a nested width or precision exists (`core.h:2192-2226`), and a name not even for that; what it
is worth is looked at when the message is formatted (`format.h:2243-2298`). `{:{}}` with a string or a negative number for its
second argument, and `{:{name}}`, compile and end the program when their test fails. No test has one.

The comment above the last loop of `rasterization.cpp` (line 125) speaks of the number below -2.0, but `nextafterf(-2.0f, -1.0f)` is the one
above it: line 155 expects the quad to be shown in both rounds, and the clipping that the comment describes is never tried.

In `gxtest/BPMemory.h` a comment at line 947 says that there is no `bi3` or `bc2`, and the formatter under it
prints both; `FloatValue` (lines 1449, 1508) is declared, used by two formatters and nowhere defined; `EnumMap.h:61` calls `key.value()`, which
compiles as long as nobody instantiates that overload. The comment at `tev.cpp:224` ("127+i is less than 127 iff i>0") is the wrong way round; the code is right. `run.sh`'s client is always too early for the programs that measure
before they listen: they then wait in `accept` for somebody to connect by hand.

In `cputest/` the models show on what the tests rest. No temporary of `nan.cpp` is an early
clobber, so inputs may be written over before they are read; `nan.cpp:796` loads a
floating-point register numbered like the pointer, so the other slot of its operand is
whatever was there, which the test does not look at; `load.cpp` has bases under "r", where
`nan.cpp` uses "b", which excludes register 0; the conversions of `frsp.cpp` and `fctiw.cpp`
and the arithmetic of `ni.cpp` may be moved across, or evaluated before, the `mtfsf` that
sets their mode; and no statement tells the compiler that cr0 is taken.

## 6. What is not modelled

* `Ioctlv`: nothing calls it. After the command it would invalidate by physical
  address.
* What the GPU does at its limits: the guard band and sub-pixel coverage, which is what `clipping.cpp` (six steps) and
  `rasterization.cpp` measure. Their rounds are modelled, their outcomes left open.
* Gamma in `Predict`, and `ClipTest`'s depths as numbers: floating point. The pixel formats behind `FULL_PIXEL_FORMATS`,
  which is not defined.
* In the GX programs: the projection, which is the identity in every test; registers no subtest depends on; the debug display
  (`ENABLE_DEBUG_DISPLAY`) and the wrappers that forward to libogc.
* `net_send`'s result, which the code ignores: a connection carries everything or is gone. A client that quits may also be
  noticed by nobody.
* The words of messages. What a formatter prints of a register is modelled by the values and names in it.
* `BitCast` and `TypeUtils.h`, which are about types.
* Of `fmt`: the digits of a floating-point number, named arguments, code points of several bytes, locales that group
  digits, output to files, and the headers no test includes.
* The button that ends `fctiw` and `reciprocal` early, and their
  reports of progress. `_rotr`, which nothing calls.

## 7. Plan

Done, in this order, the most important behaviour first: the doorbell protocol with
the time base under it, the fence, the read-back on top of the fence, tiles, TEV,
buffers, copy filter, timing tests, the programs of `cputest/`, the registers, the programs of
`gxtest/`, the harness and the statistics, and fmt's messages.

Proved since: everything the run `iostest` checks but liveness, the loads, the mode tests, the conversions and the estimates, the rotations
and shifts, the printed equations, and that the tests of `gxtest/` read their own copies.

What is left are proofs:

1. The registers a round of `gxtest/` leaves, towards `SubtestsPass`: which of them the next round loads before it draws.
2. The fields of `AccessorsAgree` that are one shift and one mask, for every word.
3. That a GPU fence under `EfbReadback` may be replaced by `CgxFence`.
