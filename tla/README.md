# The dio extension in TLA+

This directory is a verification development for PECL `dio` (direct I/O for
PHP): models of its components in TLA+, checked with TLC on small instances, and
theorems about them proved with TLAPS for every instance. Paths such as
`dio_posix.c:388` are files of `src/src/`. `PROJECT.json` maps every definition
that models code to its lines.

1. [The system](#the-system)
2. [The modules](#the-modules)
3. [The runs](#the-runs): what is checked, bounds, fairness
4. [The proofs](#the-proofs)
5. [Findings](#findings)
6. [What is not modelled](#what-is-not-modelled)
7. [Plan](#plan)

## The system

The extension has two interfaces. The **legacy functions** (`dio.c`) wrap POSIX
calls around a resource that holds a descriptor number. The **streams**
(`dio_stream_wrappers.c` over `dio_posix.c` or `dio_win32.c`, options in
`dio_common.c`) hold one in a `php_dio_*_stream_data`, are driven by PHP's streams
layer, and are opened as `dio.raw://` and `dio.serial://` or by `dio_raw()` and
`dio_serial()`.

| Component | State it keeps | Operations | What makes it correct |
|---|---|---|---|
| Legacy resources (`dio.c:67-179, 424-445, 656-670`) | a descriptor number per resource | `dio_open`, `dio_fdopen`, `dio_dup`, `dio_fcntl` with `F_DUPFD` and `F_DUPFD_CLOEXEC`, `dio_close`, destructor | a resource goes on meaning the file it was made for; nothing stays open that nobody can close |
| Legacy file operations (`dio.c:181-341, 438-444`) | none of their own: offset and flags are the kernel's | `dio_read`, `dio_write`, `dio_seek`, `dio_truncate`, `F_SETFL`, `dio_stat` | what duplicates share stays consistent, also under locks |
| Record locks (`dio.c:361-423`) | none of their own: the kernel's locks of the process | `dio_fcntl` with `F_SETLK`, `F_SETLKW`, `F_GETLK` | a lock that a script was given holds; none is left behind; the question is answered |
| Streams: open and close (`dio_stream_wrappers.c`) | a stream data structure, with a descriptor number | `dio_raw`, `dio_serial`, two wrappers, close | numbers as above |
| Streams: read, write, options (`dio_posix.c:240-470`) | blocking, timeout and end-of-file flags, `O_NONBLOCK` of the open file | `dio_common_read`, `dio_common_write`, `dio_common_set_option` | a call reports what the kernel moved; it ends when it should; options mean what they say |
| Timeout arithmetic (`dio_posix.c:268-300`) | none | `dio_timeval_subtract` | exact, and used so that a timeout is spent and not lost |
| Serial ports on POSIX (`dio_posix.c:514-655`) | the settings a stream found (`oldtio`); the port's output queue | `dio_serial_init`, `dio_serial_uninit`, `dio_serial_purge`, `dio_tcsetattr` | the port is given back as it was found; what is sent is sent with the settings it was written for |
| Serial ports on Windows (`dio_win32.c:419-757`) | saved `DCB` and `COMMTIMEOUTS`, the handle | open, options, close | the same, and no handle is left that nobody has |
| Canonical reads on Windows (`dio_win32.c:200-385`) | a ring buffer, the port's timeouts | `dio_canonical_read`, purge, options | the ring is a queue; a line is delivered whole, and once; the driver waits as the options say |
| Options and modes (`dio_common.c`, `dio_posix.c:26-74`, `dio_win32.c:510-569`) | none | parsing | a mode opens what it says |
| Conversions (`dio_posix.c:76-231, 556-585`, `dio_win32.c:97-201`, `dio.c:471-647`) | none | tables, `c_cflag`, `DCB` | options mean one line, everywhere |

**How they interact.** The components share the process's descriptor table. A
legacy resource and a stream only store a number, and `dio_fdopen` gives a
resource a number that something else owns. Streams call down: wrapper, platform
code, kernel. PHP calls up: it destroys resources and streams at any loss of the
last reference and, the last one first, when a request ends. Streams of several
processes share a device: its input, its settings.

**Which behaviours are hard.** There are no threads and no callbacks in one
process; a script makes one call at a time. What makes the code hard is outside:
the kernel reuses numbers; a call waits in `select()`, `read()` or `write()` while
bytes arrive, another reader takes them, a signal interrupts, the clock moves or
the line hangs up; other processes open, set and leave a port between two calls;
an allocation fails half way; long sequences of legal calls meet an option, a
number or a ring position that an earlier call left. `PROJECT.json` lists these
hazards with their lines and the properties that would catch each.

## The modules

```
DioTimeval ─> DioPosixStream             LineQueue     <── DioCanonBuffer
    └────────────────┐                   SettingsStack <── DioSerialPorts
DioOptions ─> DioOpenModes ─> DioPure          └────────── DioWin32Ports
    └─> DioTermios ──┘          │        (abstract)        (implement it)
                            DioPureMC
DioDescriptors                           DioFiles ─> DioLocks ─> DioLocksMC
```

### DioDescriptors: numbers, files and handles

A PHP worker that serves one request after another. `fdTable` is the kernel's
table, from number to open file; open files are numbered as they are opened, so
one number (`fd`) with two files (`file`) at different times can be told apart. A
handle is a resource or stream in the order of registration; `reach` are those the
script still has a reference to. Actions are the functions of `dio.c` under their
own names, `StreamOpened`, `StreamNotAllocated` and `fclose` for what streams do to
descriptors, and the engine's part (`Drop`, `BeginShutdown`, `ShutdownClose`,
`EndRequest`, `StartRequest`).

* A call that fails before it changed anything is a stuttering step.
* `dio_fdopen` takes the number modulo `IntModulus`, which is what the cast from
  `zend_long` to `int` does.
* `dio_fcntl(F_DUPFD)` wraps what `fcntl()` returned unchecked, -1 too, and its
  resource is registered but not returned.
* The default branch of `dio_fcntl` hands any other command to `fcntl()`.
  `dio_fcntl_default` is the one of these that opens a descriptor, `F_DUPFD_CLOEXEC`:
  the script gets a number, and no handle is made.
* In three places a descriptor is open that no handle has: that one, a legacy function
  whose `php_fd_t` cannot be allocated (`Wrap`), and a serial stream that PHP cannot
  allocate (`StreamNotAllocated`). `ownerless` remembers these numbers until
  `dio_fdopen` is given them. The properties exclude them by name and hold for
  everything else, also afterwards.

### DioTimeval, DioPosixStream: reading and writing on POSIX

`DioTimeval` has `dio_timeval_subtract` as an operator, and as `SubtractInPlace` its
second use, where the result goes into the structure it subtracts from: the
function clears the result first, and so its own operand. `DioPure` states what each
use gives.

`DioPosixStream` is one stream in front of a device. `pc` is where a call is, with
one step per system call: `dio_common_read` without a timeout is one `read()`
(`ReadReturns`, `ReadEnds`, `ReadFails`); with one it is a loop of `select()`
(`SelectReady`, `SelectTimesOut`, `SelectInterrupted`), `read()` (`TimedRead...`) and
what the loop does after it (`Adjust`). Results of system calls are held in a
`size_t`: `Error` is its largest value and `Account` adds modulo `SizeModulus`, so an
error counts as data exactly as in the code. The environment is `Arrive`, `HangUp`,
`Steal` (another reader), `Drain`, `Tick` and `ClockSetBack`; signals are part of the
calls they interrupt.

### LineQueue, DioCanonBuffer: canonical reads on Windows

`DioCanonBuffer` is the ring of `dio_win32.c` with its positions, one step per byte
in the read loop, the driver's timeouts (`waits`) with the two options that rewrite
them, and the purge, which may empty the ring and not the port. `LineQueue` is what it promises: a bounded queue of at most one
line, empty or being read. `Contents` is the refinement mapping, and `IsQueue` says
that the ring implements the queue. The *positions* do; the bytes that reach the
caller do not when the data wraps (see Findings), and that is a property of its
own, `DeliversOldest`. What does hold of them is `DeliversALine`: a read takes one line
at most, and stores it as it is unless it wraps.

`SetCommTimeouts()` may refuse what an option asks for: the option keeps its new
value, the driver its old timeouts (`refused`). The blocking option then does not ask
a second time, as its value does not change. `WaitsAsTold` speaks of the driver from
the next request that it accepts.

### SettingsStack, DioSerialPorts: the settings of a port

Serial streams of several processes on one port. Opening is four steps, between
which other processes act: open, `tcgetattr()` into `oldtio` (`SaveSettings`),
`tcgetattr()` again (`ReadSettings`), `tcsetattr()` (`SetSettings`); any may fail
(`InitFails`). Close restores `oldtio`. `dio_tcsetattr`, `Stty` (another program) and
`Die` (a process is killed; nothing is restored) interfere. The settings are
abstracted to the mode, the line parameters, and `VMIN`/`VTIME`, the fields of which
options set all, all, and some.

`SettingsStack` is the promise of the comment at `dio_stream_wrappers.c:248`: opening
pushes settings, closing brings back the ones below. No code of this kind can keep
it for users that are not nested, so `tangled` records, precisely, when they are
not: a stream was closed with a newer one open; the settings changed between
another stream's first `tcgetattr()` and its `tcsetattr()`; a process died with an
open stream; a restore failed; PHP could not allocate a stream that had set the
port. It is forgotten when the port is unused again. Up to then, and from then on,
the promise is checked, and proved. PHP destroys what a script left open in reverse
order, so a script that closes nothing itself is nested.

The port's output queue is a set: whose bytes wait in it (`unsent`). `wrote` is PHP's
flag for streams that it flushes at their close. A flush calls `dio_serial_purge`,
which discards the queue, of everyone, if the stream may write (`Purged`). The close
sets the old settings at once (`TCSANOW`), without waiting for the output; that no
byte is then sent with the wrong settings (`SentAsWritten`) is due to the discarding
flush, at the price of the bytes.

### DioWin32Ports: the same on Windows

One stream at a time, since `CreateFile()` is called without sharing. Opening is five
calls: `CreateFile`, `GetCommTimeouts()` and `SetCommTimeouts()` (`SetTimeouts`),
`GetCommState`, `SetCommState`; any of them may fail, and an option is refused after
the timeouts were set (`OpenFails`). Unlike on POSIX the settings are not changed but
replaced, and a close whose restore fails keeps the handle. A stream that failed
this way, or that PHP could not allocate, is `lost`: its handle is open until its
process ends. `Found` maps the state to `SettingsStack`, the same abstract
specification as for POSIX. `spoilt` has the role of `tangled`.

### DioFiles, DioLocks: one file, its offsets and its locks

`DioFiles` is what the legacy functions do with a regular file. The extension keeps
nothing; each resource refers to an open file description (`desc`), which `dio_dup`
and `pcntl_fork()` share, and which has the offset and `O_APPEND`; the length is the
file's. `DioLocks` extends it with record locks as POSIX has them: of a process on
bytes, replaced by a later lock of the same process and gone with *any* close of the
file by the process. `F_SETLKW` is two steps, and between them everyone else acts;
`dio_fcntl` passes on `EINTR`, and `EDEADLK` if the kernel looks for deadlocks, which
POSIX permits and the model does not ask of it. A lock may reach backwards from its
start (a negative length). Of the commands that the default branch of `dio_fcntl`
hands on, `SetFlags` (`F_SETFL`) is the one that changes an open file.

`claim` is what scripts believe: the bytes, with type, that a call said it locked
through a resource. The kernel's model is POSIX's; the properties are about what
reaches a script that uses it through this code: ranges that are told from an offset
others move, closes by destructors, waits.

### DioOptions, DioOpenModes, DioTermios, DioPure: functions

Modes, options and tables have no state. They are operators. `DioPure` states the
properties of these, and of the subtraction of times, of inputs that are the initial
states of a specification: any two times, any mode, any file and options, any
settings a port may be found with and options. Which values these have are
constants; `DioPureMC` gives them to TLC.

`DioOptions` has the defaults and what is kept of a script's numbers, which are 64 bits
wide: `AsInt` is the cast to `int`, at each place where the code has one. Sizes, stop
bits and parities go through it in streams and in `dio_tcsetattr`; the rate does in the
latter, and on Windows where a `long` is no wider; flow control does in the latter,
while a stream tests the whole number for zero. So 2^32 is flow control in a stream
and none in `dio_tcsetattr`, and `SameLine` says which numbers it speaks of.

`DioOpenModes` goes from a mode to flags and to what `open()` and `CreateFile()` then do
with a file, and compares that with a table of `fopen()` modes (`Fopen`): whether it
is opened, what is in it then, what the stream may do, and whether it writes at the
end. On Windows no stream appends, and `Win32OpensAsFopen` says so.

`DioTermios` goes from options to `c_cflag`, or a `DCB`, and compares the line that a
driver reads from it (`LineOf`) with the options: rate, size, stop bits, parity (mark
and space included, which `CMSPAR` makes of odd and even), handshake, whether the
modem's lines count and whether the receiver is on. No option names `CMSPAR`, `CREAD`
and `HUPCL`: a stream on POSIX leaves them as the port had them, and `LineAsTold` says
what that means for the line.

## The runs

All passing runs explore their whole state space with two workers.

| Run | States | What it shows |
|---|---|---|
| `descriptors` | 881 k | handles keep their files (`AliasContainment`), own their descriptors (`SoleOwner`), nothing is orphaned (`NoOrphan`), the worker's descriptors are kept (`InheritedKept`) and a request returns the table as it found it (`RequestIsolation`, `ShutdownReleases`), but for numbers given to `dio_fdopen` and descriptors that never had a handle |
| `locks` | 298 k | what a script was told that it locked is locked (`ClaimsHold`), never by two that conflict (`ClaimsExclude`), and not after its process closed the file (`NoLockLeftBehind`) |
| `posix_stream` | 278 k | a call returns the bytes the kernel moved (`CallAccounts`), the loop reads into the unread rest (`ReadsIntoTheRest`); non-blocking calls, and all writes, return (`CallsReturn`); a script that keeps reading sees the end of a line (`EndIsSeen`) |
| `canon_buffer` | 851 k | the ring implements `LineQueue` (`IsQueue`); a read takes one line at most and stores the oldest bytes unless they wrap (`DeliversALine`), leaves bytes in the ring only if it got all it asked for (`NothingHidden`), and ends once a line end came (`LineEnds`); the driver waits exactly if the options say so (`WaitsAsTold`) |
| `serial_ports` | 212 k | nested streams implement `SettingsStack` and give the port back; no byte is sent after the close of its stream changed the settings (`SentAsWritten`) |
| `win32_ports` | 460 | the same stack on Windows; settings are given back; every open handle is somebody's (`HeldForSomebody`) |
| `pure_functions` | 104 k | the subtraction is exact, or zero; modes open as `fopen()` does, but append on POSIX only; a flush discards the queues its stream can use; a stream's line is the one its options say (`LineAsTold`), and options mean the same line in all three places (`SameLine`), each but for what it names |
| `posix_stream_time`, `posix_stream_signal`, `canon_buffer_bytes`, `locks_getlk`, `win32_timeouts` | stop at a counterexample | the findings below |

`CHECK_DEADLOCK FALSE` where the system may stop: bounded numbers of files, handles
and descriptors without one run out in `DioDescriptors`, and scripts may do nothing more in
`DioSerialPorts`, `DioWin32Ports` and `DioLocks`.

### Bounds

* *Descriptors*: three numbers, one of them the worker's, three handles, three files
  opened in a behaviour, two descriptors without a handle at most (`MaxOwnerless`). A number can be closed, reused and closed again
  under a stale handle with two free numbers and three handles; the descriptor limit
  is met. `dio_fdopen` gets 0, the worker's own, and 5, which the cast (`IntModulus` 4)
  makes 1. No bound on requests: the state between two is one of the states.
* *Locks*: a process with two resources and another with one, two descriptions,
  two places in the file (the last stands for all that follow), locks of one byte or
  up to the end or one byte backwards, from every `whence`. A resource can be a
  duplicate of another of its process, of the other process, or neither.
  The two resources of the process, and the descriptions, are symmetric.
* *Streams*: a read asks for two bytes, the least of which some can be read;
  `SizeModulus` is 16, larger than any count, so that wrapping is visible. A tick is
  half a second and a timeout of three needs both fields of a timeval; the clock
  starts at one, so that it passes a whole second during a call (a borrow). One
  signal and one stolen byte are enough to hit each system call, as the call does
  not remember them.
* *Ring*: four cells, and reads of one byte, of two and of four, the latter more than
  the ring holds, as PHP's of 8192 bytes are. The full ring, the wrap, and reads of a
  part of the first block, of all of it, of a part of the second and of both occur. The
  line end that arrives is a carriage return, which is translated; the others differ
  from it in nothing but that, and the proofs hold for all of them.
* *Ports*: three streams of two processes, four settings, two of the streams for
  writing. Three levels of nesting need three different settings to be confused. On
  Windows four settings, as many `DCB`s of which two can be asked for, and two
  timeouts.
* *Functions*: in each option every value the tables distinguish and one they refuse
  (three rates: one accepted everywhere and one refused by each system), and numbers
  that an `int` cuts to one of these or to zero; 2^31 (`IntHalf`) is scaled down to 2^20,
  above every rate, as TLC's own integers have 32 bits; settings found with no bit,
  with bits alone, and with all; all `fopen()` modes; the fields of times
  around zero, a millisecond and a second.

### Fairness

* `DioDescriptors`: PHP's shutdown goes on once begun (`ShutdownClose`, `EndRequest`);
  a script need not end.
* `DioPosixStream`: a process that can go on does, time passes, a device that is not
  hung up sends what was written. *Not* assumed: that bytes arrive, that anyone
  calls, that signals come. `ReadingSpec` adds a script that keeps reading; it is
  strong fairness because the script's other calls disable a read for a while.
* `DioCanonBuffer`: the loop goes on while it has a byte or the driver an answer.
  `FillError` is left out of it: the driver need not fail.
* The ports and locks have no liveness properties: any process may die, or keep what
  it has for ever, at any step.

## The proofs

TLAPS proves these for every value of the constants that satisfies the `ASSUME`s of
the modules, which say only what the types of the C program say.

| Theorem | Statement |
|---|---|
| `DioDescriptorsProofs`: `TypeCorrect`, `HandlesKeepTheirFiles`, `DescriptorsHaveOneOwner`, `WorkerKeepsItsDescriptors`, `NothingIsOrphaned`, `RequestsAreIsolated` | `Spec => []...` for every invariant of the run `descriptors` |
| `DioDescriptorsProofs`: `ShutdownComesToItsEnd` | while a request ends there is a last handle to destroy or nothing is left to give back, and each step destroys one |
| `DioLocksProofs`: `TypeCorrect`, `ClaimsAreHeld`, `ClaimsExcludeEachOther`, `NothingStaysLocked` | `Spec => []...` for every invariant of `locks` |
| `DioPureProofs`: `SubtractionIsExact`, `PosixModesOpenAsFopen`, `Win32ModesOpenAsFopen`, `FlushPurgesWhatIsOpen`, `StreamLineIsAsTold`, `OptionsMeanOneLine` | `Spec => []...` for every invariant of `pure_functions`: all normalised times, all modes, all options and settings |
| `DioPosixStreamProofs`: `TypeCorrect`, `LoopReadsIntoTheRest`, `CallsAccount` | `Spec => ...` for the safety properties of `posix_stream` |
| `DioPosixStreamProofs`: `TimedReadMakesOnePass` | the finding `posix_stream_time` for every timeout, clock and device: the loop never goes round, and a read that got less than it asked for is always reported as timed out |
| `DioCanonBufferProofs`: `TypeCorrect`, `RingIsQueue`, `DriverWaitsAsTold`, `NothingStaysHidden`, `ReadsDeliverALine` | `Spec => LineQueue`, and the safety properties of `canon_buffer`, for rings, counts and bytes of any kind |
| `DioCanonBufferProofs`: `LoopComesToItsEnd` | each byte that does not end the loop of a read fills a place of the ring, and none in the port is lost |
| `DioSerialPortsProofs`: `ImplementsStack`, `PortIsGivenBack`, `SavedBeforeRestored`, `NothingSentAfterClose` | `Spec => SettingsStack`, and the other properties of `serial_ports` |
| `DioWin32PortsProofs`: `ImplementsStack`, `PortIsGivenBack`, `HandleHasAStream`, `SavedBeforeRestored` | the same for `win32_ports` |

**Descriptors.** `AliasContainment` is not inductive: that a number is not reused
under a handle needs that an unshared handle's number is *open* (so that the kernel
does not give it out) and that no other handle will close it. `IInv` has these as
`Bound` and `SoleOwner`, and needs `Fresh` (the next handle is unused),
`InheritedKept` (a number given out is not the worker's) and, for descriptors without a
handle, that between requests no handle is live (`Idle`). That a new descriptor
belongs to nobody (`GivenToNobody`) is what opening, duplicating and the two allocation
failures share.

**Streams.** `Phases` says what the locals of a call are at each `pc`. The loop could
go round after a failed call with an offset of -1 and a count too large; that it
does not rests on `InPlaceIsZero`, a lemma of `DioTimevalLemmas`: since the timeout is
always used up after one pass, the loop never goes round at all. One mistake hides
the other: a repair of the subtraction alone would make `ReadsIntoTheRest` false (the
mutant `SubtractApart` shows it), so both are to be repaired together.

**Ports.** `GivenBack` speaks of the unused port only. `IInv` adds where every saved
setting comes from: the nest holds open streams, no one twice (`Nested`); the
outermost one found the settings of the unused port, and a stream that is on its way
to `tcsetattr()` still holds the settings in effect (`Chained`). Each action then maps
to one of the abstract stack, or to none. `SentAsWritten` rests on `OutputOK`, that
what is unsent is of open streams that PHP knows to have written: so the close flushes,
and the flush discards it (`CloseDiscards`). Sequence facts come from `SequenceTheorems`.

**Ring.** In every state the positions determine `Contents`; the lemmas say what one
more position (`NextPosition`, `Distance`, `Position`) and one cell (`CellsInRing`) do
to it, and `BufferRead` what a read takes out. `IInv` adds to the types what holds
while a read is at its loop (`Filling`) and that the driver waits as it was last told
(`WaitsAsTold`). `DeliverEmpties` is the reason for `NothingHidden`: a read that comes back
with less than it asked for took all there was, in every branch. The refinement ends with the end of a read, where the case of wrapped
data shows that both blocks are taken from the ring, though one is written over the
other. `ReadsDeliverALine` uses the refinement: that a line end is the last byte
(`OneLine`) is shown of a step of `LineQueue` (`QueueStepKeepsLine`), so it holds of
`Contents` without a look at positions. `BufferReadCopies` adds where the bytes go, with
the one wrapped case that is right, a second block of no bytes.

**Functions.** The inputs have their types (`InputsOK`), and nothing is assumed of
options: a script may give any number for any name, and `AsInt` is left unexpanded
wherever both sides of a claim have it. Modes are finitely many, but
sequences; `ModeShape` turns them into conditions on three characters, under which
`FlagsOfMode` and `OpenOfMode` compute what `open()` does, with `O_NONBLOCK` or not
(`OptionsAddNonblock`). `PosixModesOpenAsFopen` has the condition of its property, that
the plus is right behind the letter; `rb+` violates it without (see Findings). For the
line, `StreamLine`, `LegacyLine` and `Win32Line` show one by one that each conversion
gives the line named by its options (`LineNamed`), whatever `c_cflag` was before but for
`CMSPAR` and `CREAD`, which pass into the line; that they agree with each other follows
(`DirectLine`).

**Locks.** `ClaimsHold` is inductive but for the types; `ClaimsExclude` needs that the
kernel's locks of two processes do not conflict either (`NoConflict`), and
`NoLockLeftBehind` that a process that waits does so through a resource it still has
open (`WaitersOpen`). Nothing is assumed of a kernel that looks for deadlocks.

**Windows ports.** As there is one holder at a time, `IInv` is short: the handle is held
for some stream (`HeldForSomebody`), and unless a stream died or was lost that had set
the port, its settings are the unused port's while no stream is open, as are those that
each stream saved (`Chained`).

**Only model-checked.** Liveness (`ShutdownReleases`, `CallsReturn`, `EndIsSeen`,
`LineEnds`), which is out of the prover's reach. Every invariant, action property and
refinement of a passing run is also proved. Of liveness, the theorems prove what is
about single steps, for all instances: that something is left to do, and that it gets
less. `ShutdownComesToItsEnd` is that for `ShutdownReleases` (that a finite set of
handles has a last one comes from the well-foundedness of finite subsets, `LastOf`),
`LoopComesToItsEnd` for `LineEnds` and `TimedReadMakesOnePass` for the loop in
`CallsReturn`. That fair steps then do lead to the end is what TLC checks. The
definitions that only these theorems speak of (`ShutdownHasWork`, `ShutdownShrinks`,
`LoopFillsRing`, `OnePass`) stand beside their proofs and in no run.

## Findings

Each has a run whose counterexample shows it.

* `posix_stream_time` (`dio_posix.c:388`): the timeout is subtracted from in place, so
  a read that gets some of its bytes is reported as timed out at once.
* `posix_stream_signal` (`dio_posix.c:320`): `ret` is a `size_t`, so -1 is taken for
  data and an interrupted blocking read is not tried again, as its comment says.
* `canon_buffer_bytes` (`dio_win32.c:278`): the second block of a wrapped line is copied
  over the first.
* `locks_getlk` (`dio.c:413`): `F_GETLK` ignores the lock it is given and asks for a read
  lock on the whole file.
* `win32_timeouts` (`dio_win32.c:662`): the timeouts that a serial stream saves are never
  set back.

Met while modelling, each true of the model by one or two steps, and without a run
of its own:

* `dio_timeval_subtract` returns 0 for a later time that is the earlier one, where its
  comment says -1 (`dio_posix.c:270`, `dio_posix.c:279`).
* `stream_set_timeout()` with zero leaves a blocking stream non-blocking
  (`dio_posix.c:446`); a read with a timeout waits for ever if another reader takes the
  bytes between `select()` and `read()` (`dio_posix.c:358`).
* The resource of `F_DUPFD` never reaches the script (`dio.c:435`): its descriptor stays
  open until the request ends. `F_DUPFD_CLOEXEC` goes to `fcntl()` and its descriptor to
  the script as a number, which stays open after the request (`dio.c:443`).
* A stream on POSIX does not clear `CMSPAR` (`dio_posix.c:571`): on a port that was left
  with it, odd and even parity are mark and space. Numbers above an `int` lose their
  upper half without an error (`dio_common.c:105-115`, `dio.c:474-504`).
* On POSIX `rb+` opens for reading only, as a plus counts behind the first letter only
  (`dio_posix.c:56`). On Windows mode `a` does not append (`dio_win32.c:518`).
* `open()` is called without permissions for modes that create (`dio_posix.c:494`,
  `dio.c:107`). `O_NOCTTY` is lost, as `dio_raw_open_stream` overwrites the flags
  (`dio_posix.c:642`).
* Closing a serial stream discards what it, and any other writer of the port, has not
  sent yet (`dio_posix.c:621`). `dio_serial_purge` returns 1 for success to a caller that
  expects 0, so `fflush()` reports the opposite.
* On Windows `dio_raw()` streams are canonical too, as that is the default
  (`dio_common.c:50`) and only serial streams have the option: carriage returns become
  newlines and reads end at a line. A read that timed out is taken for the end of the
  file (`dio_win32.c:324`). A blocking option that the driver refused does not fail
  when it is set again (`dio_win32.c:434`). A close whose restore fails keeps the port
  closed to others until the process ends (`dio_win32.c:662`).
* A serial stream's descriptor leaks when PHP cannot allocate the stream
  (`dio_stream_wrappers.c:320`); a stream data structure is not freed when the open
  fails (`dio_stream_wrappers.c:159`; the engine frees it when the request ends).

## What is not modelled

* Permissions of created files, and `dio_stat`, which changes nothing.
* Options that are not numbers: `dio_fcntl` and `dio_tcsetattr` take `Z_LVAL_P` of any
  value; the models give them integers.
* `CLOCAL` as far as `open()` waits for a carrier. Negative or unnormalised timeouts, `select()` failing with `EINVAL`, a `write()` that
  returns 0: the models use times and counts that the callers can normally produce.
* Commands of `dio_fcntl` other than `F_DUPFD`, `F_DUPFD_CLOEXEC`, `F_SETFL` and the three
  for locks: they change nothing that is modelled (`F_SETFD`, owners, leases, pipe
  sizes), or need a pointer where the code passes an integer (`F_OFD_SETLK`).
* The data structures of streams as memory: when they are freed, or not.
* Letters that `fopen()` has beside `r`, `w`, `a`, `x` and behind them `b`, `t`, `+`.
* `c_iflag`, `c_oflag` and `c_lflag`, which a canonical stream replaces and the mode
  stands for; `tcflush()` failing, which it does not on an open port.
* Plain reads and writes on Windows: one call each, whose result is passed on. The
  memory of the ring, which `dio_common_close` frees before it closes the handle.
* The input queue of a port on POSIX: no property depends on what a purge discards
  of it.
* Locks on a file by other means (`flock()`, other programs): they are other processes.
* A signal handler that runs PHP code: PHP delays these until the call returned.
* Module start, constants, and the generated `dio_arginfo.h`: no behaviour.

## Plan

Done, in this order: `DioDescriptors` with its proofs; `DioTimeval`, `DioPosixStream`
with theirs; `LineQueue`, `DioCanonBuffer`; `SettingsStack`, `DioSerialPorts` with proofs;
`DioFiles`, `DioLocks` with proofs; `DioWin32Ports` with proofs; the output queue in
`DioSerialPorts`; refusing drivers in `DioCanonBuffer`, and its proofs; `DioOptions`,
`DioOpenModes`, `DioTermios`; `DioPure` with the proofs about them.

What is left is small: `DioDescriptors` and `DioLocks` know the same resources and could
share them, so that locks meet numbers that `dio_fdopen` gives out twice; the ring's
memory; a repaired read loop (subtraction and sizes, together) as a specification
that the timed read could be shown to fail.
