# OpenEncodeVFW in TLA+

OpenEncodeVFW is a Video for Windows codec: a DLL that a host program (VirtualDub, Dxtory, ...)
loads and drives through `DriverProc`, and that encodes H.264 with AMD's OpenVideo Encode
library, with OpenCL for the surfaces and the colour conversion. This directory holds models of
it, checked with TLC, and theorems about them, checked with TLAPS. Paths below are relative to
`src/OpenEncodeVFW/` unless they begin with `src/`. `PROJECT.json` gives, for every definition
that stands for code, the lines it stands for.

## The system

| Component | Source | State | Operations |
|---|---|---|---|
| Driver entry | `drvproc.cpp`, `Open`/`Close` in `OpenEncodeVFW.cpp`, exported `Configure` | driver handles (pointers to `CodecInst`, or the number 1), the references they took | `DRV_OPEN`, `DRV_CLOSE`, `DRV_CONFIGURE`, `ICM_*` dispatch |
| Library loader | `oveDynload.cpp` | globals `refCount`, `hMod`, `hModCL`, the `f_*` pointers | `initOVE`, `deinitOVE` |
| Codec session | `compress.cpp`, `device.cpp` | one `CodecInst`: `started`, formats, `mCompressed_size`, `mHasIDR`, nine handles of OpenCL and OpenVideo objects | `CompressQuery`, `CompressBegin`, `Compress`, `CompressEnd`, constructor, destructor |
| Frame encoding | `encodeProcess`, `waitForEvent` in `compress.cpp`, `clconvert.cpp` | the input surface, the command queue, the encoder's ring of outputs | map/fill/unmap, or upload and two kernels; task, wait, query, copy, release |
| NAL scan | end of `encodeProcess` | output buffer, `mHasIDR`, `mCompressed_size` | find the IDR slice, rewrite the SPS in place |
| Bit streams | `bitstream.cpp`, `bs.h` | a position in a buffer | Exp-Golomb codes, SPS parsing and writing, `add_vui` |
| Settings | `configure.cpp` | `mConfigTable`, the registry key, the dialog's controls | load, save, quick set, every control's handler, OK, Cancel |
| Colour conversion, layout | `OpenEncodeVFW.cpp`, `clconvert.cpp`, `NV12_kernels.cl` | none of their own | strides, plane offsets, work items, sample arithmetic |
| Device selection | `device.cpp` | the list of devices | `getDevice`, `getDeviceInfo`, `getDeviceList` |
| Log, profiling | `log.cpp`, `perf.cpp` | a file; timers | write a line; start and stop |
| Decompressor | `decompress.cpp` | - | never called |

How they interact. `DriverProc` turns a message into a call of a method of the instance whose
pointer is the driver handle. `Open` and the exported `Configure` take a reference on the
libraries with `initOVE`, `Close` gives one back with `deinitOVE`; every other component calls
the libraries through the global pointers that these two manage. `Compress` for frame 0 calls
`CompressBegin` by itself; `CompressBegin` calls `CompressEnd` when a session is running and
after most of its failures; the destructor calls it for a session that was never ended. The
settings are read by `CompressBegin` (and by `Compress`, which reads `mUseCLConv` through the
same table) and written by the dialog, at any time. During a frame, the host's thread shares the
input surface with the OpenCL queue, which executes commands after they were enqueued, and with
the encoder, which reads the surface while the thread waits for its event, and puts its output
in a ring that is read through `OVEncodeQueryTaskDescription`.

### What is hard about it

- *Partial failure.* `CompressBegin` has thirteen calls that may fail after others succeeded,
  and six ways of cleaning up. A handle may be unset, live or stale when `CompressEnd` looks at
  it.
- *Protocol sequences.* The host decides the order of messages, closes in mid-session, starts
  twice, sends a first frame without starting.
- *Asynchrony.* Three actors use the input surface; only waits separate them, and each wait may
  be cut short by an error.
- *Interleaving.* `initOVE` and `deinitOVE` may be called by several threads; only the count is
  updated atomically.
- *Handlers that call one another.* Every number the dialog shows comes back as an input, but for
  `mDialogUpdated`; a quick set does not use it.
- *Stale state.* What a session derives from its video stays in the settings table. Sizes and flags that are members survive failed frames and sessions; function
  pointers survive the libraries; settings change under a session.
- *Liveness.* `waitForEvent` and the loop around the query spin until somebody else has finished.

The list with lines, and the property that covers each, is `hazards` in `PROJECT.json`.

### What makes each component correct

- Loader: the count is the number of holders; who was told TRUE can use the libraries; they are
  unloaded when the last one leaves, and not loaded twice.
- Driver entry: each handle is one reference; nothing reaches for a library that is gone.
- Session: `started` implies that all that a frame needs is there; an idle instance holds nothing;
  nothing is lost, released twice or used when absent; an answer tells the truth about the frame.
- Frames: one user of the surface at a time; a frame is answered with its own output; outputs
  leave the ring in order and only to the host; every frame is answered.
- NAL scan, bit streams: every unit of the encoder reaches the host, in its place; the size
  reported is the number of bytes written; a parameter set that is written again is the one that
  was read, with the colours told; the key frame flag is that of the frame.
- Settings: what a session reads is what the dialog shows; values stay in range; what a session
  derives from its video has a video for its cause; the device is one that is there.
- Layout: every sample of the frame goes to its place, and none outside the surface; it does not
  matter for the picture which of the paths made it.

## The modules

| Module | Models | Proofs |
|---|---|---|
| `SessionContract` | the promise to the host about one instance | |
| `CodecSession` | `CodecInst` over whole messages, with its handle table; implements `SessionContract` | `CodecSessionProofs` |
| `EncodeFrame` | `encodeProcess` step by step, with the queue and the encoder | `EncodeFrameProofs` |
| `OveLoader` | `initOVE`, `deinitOVE`, one step per access to shared variables, any threads | `OveLoaderProofs` |
| `VfwDriver` | `DriverProc`'s handles and references, one step per message | `VfwDriverProofs` |
| `ConfigTable` | the settings of several instances, the registry, the dialogs, the sessions that read and write settings | `ConfigTableProofs` |
| `FrameLayout` | where each byte of the surface comes from, by every converter; and NV12 itself | `PictureProofs` |
| `ColourConversion` | the arithmetic of a sample, on the CPU and by the kernels of each matrix | |
| `BitStream` | the reader and writer of `bs.h`; and the Exp-Golomb codes of H.264 | |
| `SpsRewrite` | `add_vui`: what is read, tagged and written of a parameter set; and the syntax of H.264 | `ParameterSetProofs` |
| `FrameData` | the data of one frame in `encodeProcess`, from the bitmap to the bytes and the size that the host gets; extends the four above | `FrameDataProofs` |
| `MCSession`, `MCFrame`, `MCLoader`, `MCDriver`, `MCConfig`, `MCFrameData` | instances for TLC | |

The models overlap on purpose, each at the grain its questions need. `VfwDriver` takes
`initOVE` and `deinitOVE` as one step each and a session as "running"; `OveLoader` opens the first
up, `CodecSession` the second; `EncodeFrame` opens up the one step that a frame is in
`CodecSession`. `ConfigTable` has the settings that `CodecSession` lets change at any time.
`FrameData` has the values that `EncodeFrame` moves around: the order of the calls and their
failures are there, here nothing fails.

### CodecSession

`handle` says what each handle member holds: `null`, `live`, `stale` (released, but the member
keeps the pointer) or `garbage` (never assigned). The constructor leaves `mCpuCmdQueue`
unassigned; `encodeDestroy` gets the context by value and clears only its copy, so that
`mOveContext` is stale after `CompressEnd`. `Acquired(f)` is what `CompressBegin` has made when it
ends with `f`, `CleanedUp` the failures after which it calls `CompressEnd`. `CompressEnd` looks at
the CPU context alone and releases the queue beside it whatever that is (`ReleasedBy`). Three records
say what the table alone cannot: `leaked` (a live handle was overwritten or its instance deleted, or
the event of a task was given up), `misuse` (a handle was released or used that was not live) and
`past`, the failures and moves of the host that a property names as a cause, kept when they occur. So
`MisuseAttributed` compares a misuse with what has happened before it, and not with what could have.

`reply` is what the host got, its code included, along with what really happened in the call. What
the encoder makes of a frame is one of `Outputs`: the bytes copied, the parameter sets written again,
the size that is left in `mCompressed_size`, and whether there is an IDR slice. What is in the buffer
then is `Written`: a start code and a header for each set, which the size leaves out. (`FrameData`
has the bytes, and shows that it is five for each.) `SessionContract` is compared with the code of each
reply (`Answer` reads `reply.msg` and `reply.ok`): a message that is answered with success must leave a
session, one that is not must leave none, so that a wrong return value breaks the refinement as a
forgotten clean-up does.

The members that the constructor leaves unset (`mCompressed_size`, `mHasIDR`, `mIDRFrames`) take
any value when an instance is opened. A message is one step: the host drives an instance from one
thread. The dialog is the exception, and `Configure` may happen between any two messages. A
mapping that fails is, in this module, the end of the process (the next line waits for an event
that was never assigned); `EncodeFrame` has the whole choice. The system takes back what a
process that has ended held.

### EncodeFrame

`pc` is where the thread is, `event` the event it waits for, `mapped` and `kernels` who may write
the surface, `task[n]` how far the encoder is with frame `n`. `Ask` is the host's message;
`EncodeProcess` the thread; `Drivers` the queue and the encoder, at any speed and, with the faults
given to the instance, with any outcome. `struck` records which faults have occurred, and `givenUp`
which frames were left to themselves, so that a property can say what it does not promise after which
failure.

`waitForEvent` is left only for an event that was read as complete. If `clGetEventInfo` fails the
variable keeps its value, nobody looks at the result, and the thread is in the loop for good
(`WaitUnread`, to the place `spin`); the waiting function of `clConvert` gives up instead, and is not
looked at either (`UploadDone`). If `clFlush` fails, the command stays where it is (`Unflushed`): the
queue may take it at any time (`CommandTaken`) or never.

Three ways lead to the surface: RGB converted by the CPU, YV12 and NV12 copied by the CPU (both
through a mapping), and RGB converted by kernels. A wait for an event that was never assigned (the
command that should have made it failed) is undefined: the process may die, find an event that is
complete, or wait for good; the model allows each. What the ring does is taken from the calls'
description (OVEncodeDyn.h:172, "Reclaim the resource of the output ring up to the specified
task") and marked external. One session uses one path; a task has one output.

### OveLoader

`pc[t]` places each thread between two accesses to the shared variables. `InterlockedIncrement64`
and `InterlockedDecrement64` are one step each; the two later reads of `refCount` in `deinitOVE`
and the plain store of 0 are steps of their own. `loads` is the system's own count of loads of a
library, `handle` the module's variable. The test of the three variables at the start of `initOVE`
and the list of `GetProcAddress` calls are one step each: within them a thread only reads the
handles, and what another thread could do between two of those reads it could also do before or
after all of them, as far as the properties tell. `pointers` are good, stale once a library was
unloaded under them, or `null` when one of them is NULL: `LOADPROC` and `LOADPROC2` store what
`GetProcAddress` gives them in the pointer that every thread uses before they look at it
(`NotFound`), so that a failure of one thread takes an entry point from those that were told TRUE;
`last` is the one pointer that `initOVE` looks at. `refused` records that a library or an entry point
was refused, as `freed` does that a library was given back.

### VfwDriver

`loader` is the pair of the count and whether the libraries are there, `inst` the instance behind
each pointer, `probes` the handles that are the number 1, `panels` the dialogs of the exported
`Configure`. `Close` gives back its reference before it looks at the handle, and before the
destructor ends a running session. `Taken` and `Released` are `initOVE` and `deinitOVE` as one
thread sees them.

### ConfigTable

`table[i]` is `mConfigTable` of an instance, reduced to the settings whose handlers do more than
store a value, and `registry` what is stored under the key, of which any part may be missing.
`shown[i]` is what the dialog has on the screen: the number of the rate control, whose meaning
depends on the mode, the key frame interval and the device. `TypedRC`, `TypedIDR` and `TextRC` are
the `CHECKED_SET_*` macros: a sign is dropped, a number that does not fit is read as 0, what is too
large is put right on the screen and what is too small only in the table. Opening the dialog and
changing the mode show numbers without taking them for inputs; `QuickSet` takes them all.
`CompressBegin` writes the frame rate and the crop offset into the table before it can fail, and OK
saves them. `listed[i]` is the number of devices when the instance was made, `devices` the number
now. `cause` remembers the rates and offsets that some session was asked to derive. 2^32, 1000, and
the limits of the controls are constants, so that small numbers reach them. A behaviour is about
one scenario, a few settings and videos: the handlers of unrelated settings touch different keys
and controls, but all of them are shown, saved, loaded and quick-set together in every scenario.

A session has kernels, and they a matrix (`byKernels`, `matrix`), only if OpenCL was ticked when it began
(`UsesOpenCL`; `opencl` is `mUseCLConv`, which the dialog changes while the session runs). `Compress`
looks at the tick again, and records what the frame was converted with (`converted`): the matrix of the
kernels, or `Bt601`, which is all that `BGRtoNV12` knows. A frame that would use kernels that were
never made is `CodecSession`'s matter, and no step here. `changed` says that the matrix in the table was
changed while the session ran.

### FrameLayout and ColourConversion

A frame is a record of what chooses its way: width, height, format, `SwitchByteOrder` (`rgb`) and
`UseOpenCL` (`opencl`). A converter is the set of its writes, each an offset in the surface and a
sample; a sample says what it is (`Y`, `U` or `V`) and of which bytes of the bitmap it is computed.
So a shifted row, a swapped plane or a mixed up channel is another surface, whatever the picture
is. `Uploaded` is the copy into the kernels' buffer, which takes the padding out of rows of 24 bit,
`KernelY` and `KernelUV` are one work item each. `Nv12Of` is the reference: the picture from the
top down, then a row of pairs for every two rows of it.

`ColourConversion` computes a sample from colours. The CPU works in integers of 16 fraction bits;
`Shifted` is the arithmetic shift, which is what the `uint32` sums amount to after `InByte`, the
cast to a byte. The kernels work in floats; here they are decimals of four digits, as the
coefficients are written, summed exactly and rounded once. Two things are lost: the rounding errors
of the floats, and that a tie is rounded to the even neighbour and not upwards.

### BitStream, SpsRewrite and FrameData

A stream of bits is a sequence. Values of a code are below 2^31, the range of TLC's integers.
`SpsRewrite` has three tables: what `read_seq_parameter_set` reads, what `write_seq_parameter_set`
writes, and what H.264 says. A row is a list of members, their code, and the conditions under which
they are there; the properties compare what the first two make of a parameter set with the third. The
profiles with a chroma format are listed twice: `HighProfiles` are those of the code, one of which
(144) H.264 does not have, `ChromaProfiles` those of H.264.

What a player should find is `Expected`: the parameters of the encoder, with the colours of the
setting, and nothing else in mind. What `add_vui` writes is `Carried`, with its losses: `Shared` has the
second HRD in the place of both, and a matrix that is none of the six takes the VUI away. `SameHrds`
says of parameters that the first loses nothing. `ParametersKept` states both: what is written is always
`Carried`, and it is what is expected whenever the two HRDs do not differ and the matrix is one of the six.
The two HRDs are read into the same members, as in the code; `Nal` and `Vcl` are the names that they
have in H.264. The lists of a scaling matrix are not in the tables: reading one writes through a
pointer that was never set, and the model ends (`dead`). `IsParameters` says what parameters an
encoder may have: every value fits its code, and what a VUI would tell is 0 when there is none.

What the code reads and writes without a mishap is `Ordinary`, and each part of it is a limit of the
code. `SameProfile`: a profile that both lists have, or neither; another one is read by the wrong
syntax. `IsNarrow`: values below 2^16 - 1, whose codes have at most 31 bits, for `bs_write_ue` hands the
whole code to one `bs_write` of a 32-bit value. `Legible`: no emulation prevention bytes in the sets
that are read, for the code does not know of them; nor, by `Plain`, a need of them in what
is written. No scaling list. `Fitting`: all sets of a frame together grow by no more than the 32 bytes
that `dstEnd` allows for. This is a premise of `UnitsKept` and nothing that it shows: of sets that grow
by more `add_vui` cuts off the last, while the `memcpy` of the other units goes on behind the 32 bytes
(compress.cpp:827). The jobs of the run have parameters
inside and outside of each of these.

`FrameData` is one frame: `Query` (the refusal of odd sizes), `Convert`, `CopyOutput`, then the
scan, one unit per step, and the second pass that is made when a parameter set was found, one unit
per step. `out` is the host's buffer, and `tmp` the copy from which it is written again: `start` is
the position of the search in either, `dst` what was written so far. The encoder's units are an
input: any sequence of headers and bodies, with or without a zero before the start code. A job of
the host is a frame, the matrix, four colours and the units. `StartsIn` (a place is the
n-th start code if n are up to it), `UnitsIn` and `EncodedSps` are a player's view, and no code of the
repository.

## The runs

| Run | Instance | Shows |
|---|---|---|
| `SessionClean` | failures that `CompressBegin` cleans up after or that come before it has made anything, and those of a frame; a host that keeps to the protocol; periods 0 and 2, frames 0..2, sizes 0..2 | idle holds nothing; nothing is lost but the event of a task that was given up; nothing is misused; the size and the flag of an encoded frame are its own, short of its parameter sets' headers; sizes do not cross sessions; `CodecSession` implements `SessionContract`, codes included |
| `SessionFaults` | a failure of each sort, a host that ends idle sessions, sends frames without one and changes the settings in mid-session | even so `started` means that the encoder is whole, and every misuse has had its cause before it |
| `Frame` | 3 frames, all paths, all faults | the surface has one user, outputs are answered to their own frame and in order, the ring holds what was given up and no more, every frame is answered, or hangs or dies of a named cause |
| `Loader` | 3 threads, libraries and entry points that may be missing, handles closed twice | the count counts holders; the promise of `initOVE` without overlap, or with nothing unloaded and nothing refused; one load per library; no debt at rest |
| `Driver` | 3 instances, 2 probes, 2 dialogs, up to 2 closes too many and 2 lost references | handles are references; loaded exactly while held; only the close of the last handle in mid-session reaches for a library that is gone |
| `Settings` | 2 instances, six scenarios; numbers below, at and above each limit; 0 to 2 devices | what the dialog shows is what is used; the device exists; derived values have their cause; the stream tells the matrix its picture was converted with, unless the matrix was changed in mid-session or `BGRtoNV12` converted it |
| `SessionReturn` (violation) | a task that fails | `encodeProcess` returns the status of the surface calls, not `ret`: the host is told that a refused frame was encoded |
| `SessionLeak` (violation) | a CPU context that cannot be made | `CompressBegin` returns without releasing what it holds |
| `FrameHang` (violation) | a command that ends with an error | `waitForEvent` never ends |
| `FrameData` | 1064 jobs: all frames of widths 1 to 6, heights 1 to 4, every format and path; all corners of the colour cube; up to three units (four in the orders that encoders use, and eight with more sets than the 32 bytes suffice for), 29 sets of parameters, matrices 0 to 5 and 9 | the surface is the picture; the converters stay in their buffers; the paths agree for `BT601_FULL`, and for no other matrix; units and parameters survive; what is wrong in the parameters, the size, the key frame flag and the range is exactly what the properties say |
| `FrameDataSize` (violation) | the same | a frame with a parameter set is reported five bytes shorter per set than it was written (one less when a zero came before the first start code), so that its end is cut off |
| `SettingsRate` (violation) | a session with Send FPS, then one without | the second is opened with the rate of the first, and not with 30 |

The bounds, and why they are enough. Frame numbers are used modulo the IDR period and for
being 0: 0, 1 and 2 with period 2 have a due frame that is not the first, one that is not due, and
period 0 is the setting that never makes one due. Sizes 0, 1 and 2 tell "none", "this frame's" and
"another frame's" apart. A session of three frames has an output that was given up, one that takes
its place, and one more. Three threads are a thread that loads, one that unloads, and one that has
been told TRUE before. Three instances, two probes and two dialogs have any two kinds of handle
left when a third is closed; closes too many and lost references accumulate, and two show it.
In `Settings` a word has three bits and the limits of the controls are 2, so that the numbers 0, 1,
2, 3, 5 and 9 are below, at and above each limit, too large for an int32, and too large for a
uint32; heights 143 and 1080 are odd and in the middle of a macroblock; two instances are one that
saves and one that has loaded before.
In `FrameData` rows are aligned to 4 and surfaces to 4 rows (256 and 32 in the code), so that
widths of 2, 4 and 6 are below, at and above a row, rows of 24 bit have a padding of 2 or of none,
and a height of 2 leaves half of the surface unused. Odd sizes must be refused. Colours are the
corners, and near the middle, where a term is largest or the sign of a sum changes. A schedule more
and a reference frame more of a cycle repeat rows that are there: `MaxCpb` and `MaxCycle` are 2.
Matrix 9 stands for every number that no kernel is built for.
The deadlock check is off in `Frame` and `FrameHang`, where a host may stop sending frames and a
process may be dead, and in `FrameData` and `FrameDataSize`, whose one frame ends.

Some properties hold only with an exception, which they name, and which is what the code does.

- Session: the event of a task whose wait or query failed is never released (`NothingLost`); the size
  leaves out the headers of parameter sets, and an IDR slice behind one does not set the flag
  (`EncodedFrameReported`).
- Frames: after a frame was given up the host is one frame behind (`OutputIsOwn`), and the ring holds one
  output for each (`RingDrained`), or more once an output that failed or is empty blocks it; a frame
  may hang in `waitForEvent` for four reasons, or die of an event that was never assigned
  (`FrameAnswered`).
- Loader: TRUE promises the libraries to calls that do not overlap (`UsersServed`, `LoadedOnce`), or as
  long as nothing was unloaded and nothing refused (`FirstOpensServed`).
- Settings: the matrix that is told is not that of the picture if it was changed in mid-session, or if
  `BGRtoNV12` converted (`VuiTellsTheMatrix`); an interval of 2^31 and more is shown and not used
  (`ShownIsUsed`).
- Data: rows of 24 bit that are padded are skewed by the CPU converter (`SurfaceIsPicture`); the CPU
  makes the picture of `BT601_FULL` whatever is set (`PathsAgree`); of two HRDs that differ the first is
  lost, a seventh matrix takes the VUI away, and a scaling list or a profile that the code misreads ends the
  process (`ParametersKept`); sets that together grow by more than 32 bytes are not promised anything
  (`UnitsKept`); the size is short (`SizeAccounts`); an IDR slice behind a parameter set is not
  seen, so that the frame is not flagged, but for those that were due (`KeyFlag`); the range of matrices
  `BT601_FULL` and `BT709_FULL` is told to be full, while their kernels write 16 to 235 (`RangeTold`, about
  the kernels; that the CPU writes 16 to 235 for every matrix is in `PathsAgree`).

Those about the data are equivalences or equations where they can be, so that a repair in the code
would show as much as a new fault.

### Fairness

Only `EncodeFrame` has liveness, and fairness. The thread goes on when it can
(`WF(EncodeProcess)`); the host owes nothing, so `Ask` has no fairness. The queue completes or
aborts what was flushed to it, which is what `clFlush` guarantees; a command that was only
enqueued owes nothing, so neither does one whose `clFlush` failed, and the mutant `EnqueuedOnly` shows
that the model tells them apart. Fairness of the thread is for steps without a fault
(`EncodeProcess /\ UNCHANGED struck`): a fault may always occur and is never owed, so that no frame is
answered only because some call must fail in the end.
Kernels are promised to end only while the thread is in `clFinish` or in a blocking mapping, which
flush the queue. The encoder finishes its tasks and describes them, which is its contract. Under
this `FrameAnswered` holds: every frame is answered, or dies of an event that was refused, or hangs
for a command that was aborted, not flushed or refused, or for an event that cannot be read (`Hangs`);
`WaitsEnd`, without that exception, is what the comment of `waitForEvent` says and `FrameHang`
refutes.

## What is proved

All theorems are for every value of the constants that the modules' assumptions admit: any set of
faults, any bounds, any finite set of threads.

`CodecSessionProofs`. The inductive invariant `IInv` is the type, `StartedOwnsEncoder`,
`MisuseAttributed`, and facts that neither says: `TableOK` (only the context can be stale; a
CPU queue is missing beside a live CPU context only after the device could not be found or the queue not
be made; between messages only a session holds a CPU queue), `ConverterOK` (a session that converts has
its converter unless the settings changed under it) and `CrashCaused` (the two misuses that end the
process). The causes are those in `past`, what has happened, and not what the constants allow. Without them a release by `CompressEnd` could not be told
to be of a live object. From it: `TypeCorrect`, `RunningSessionIsWhole`, `MisuseHasItsCause`,
`EncodedFramesAreReported`. Under `CleanDrivers` (the device list and the CPU pair do not fail,
the failures `CompressBegin` does not undo): `FailedStartsAreUndone`, `NothingIsLost`, and
`CodecKeepsContract`, the refinement: initial states map to initial states of `SessionContract`
and every step to a step of it or a stutter, with the answer that the code of the reply gives. Under
`Protocol` (a host that keeps to the protocol, no failed mapping, and no CPU context that is left without
a queue) the misuses that `IInv` names have no cause left: `NothingIsMisused`. `SizeStaysInItsSession` needs no `IInv`: it is inductive.

`EncodeFrameProofs`. `SInv` says who may use the surface where the thread is, as long as none of
`unmap`, `finish`, `wait` has failed: a mapping only from the map to the end of the unmap, kernels
only before `clFinish` or after a conversion was given up, an encoding task only during the wait
for it. Its parts disturb each other in turn around the loop of a frame, so that none is inductive
alone. `RInv` says what may be in the ring: the frame that is waited for, or what an older task
without an output keeps there; and that nothing in it is older than what the host has had.
`RingDrained` is a matter of counting: each task comes to the ring of a frame, and leaves it but
for those that were given up, which the lemmas on the cardinality of `Ring` and `givenUp` follow
step by step. From them: `OneUserAtATime`, `FrameTypes`, `AnsweredWithItsOwn`,
`NothingLeftBehind`, and the action property `OutputsInOrder`.

`OveLoaderProofs`. `LInv` bounds the count by the references (above) and by the threads that have
decremented and not yet made up for it (below); for paired calls it is the number of references,
and nobody resets it. Each step moves at most one thread in or out of those sets, and the lemmas
on cardinalities say what that does to them. From it: `LoaderTypes`, `PairedCallsAreCounted`,
`DebtsAreMadeUpFor`. The promise of `initOVE` needs more. `FirstInv` says what is loaded while
nothing was freed and nothing refused: users have good pointers, and with these every library is
loaded, for no thread has stored a NULL (`NotFound`)
(`FirstOpensAreServed`, for overlapping calls). `SerialInv` is about calls that never overlapped: either every thread is outside
and the libraries are as the count says (`Rest`), or one thread is inside, and `Doing` says for each
of its places what it has done so far. `UsersAreServed` and `LibrariesAreLoadedOnce` are `Rest`; that
the second reading of the count in `deinitOVE` finds what the first did is why they need `SerialInv`.

`VfwDriverProofs`. `DInv`: the libraries are loaded exactly while the count is above zero, the
count is never more than the references (the handles of the three kinds and the lost ones), and
equal to them as long as nothing was closed too often. The last part alone is not inductive, since a
close too many leaves it behind for good, and `NothingHeldNothingLoaded` holds even then. From it:
`DriverTypes`, `EveryHandleIsAReference`, `LibrariesStayForHandles`, `LibrariesGoWithHandles`, and
the action property `OnlyTheLastCloseIsWild`.

`ConfigTableProofs`. `TypeOK` is inductive: the numbers are `Allowed`, and both quantizers of a table
are the same, for one control shows them. The handlers are brought to two forms: `UserSets`, a table
and a dialog that agree (`Agrees`) take the place of those of one instance, and `Begins`, a session
derives its rate and offset. `ShownIsUsed` then is a matter of arithmetic: what `TypedRC` and
`TypedIDR` store of a number is what `TextRC` leaves on the screen, whenever it is in the range of the
property. `DeviceExists` is inductive. `ValuesHaveTheirCause` and `VuiTellsTheMatrix` are not: the
first needs that every table, and the registry, hold rates and offsets that have a cause
(`TablesHaveTheirCause`), since OK saves what a session derived and another instance loads it; the
second that as long as the matrix was not `changed` in mid-session the table still has the one that the
kernels were built with (`MatrixInv`). The assumptions are those of the code: the limits of the controls fit in a word,
the default is a table, what is stored was stored by this driver or an older one (`IsStored`), rates and
heights of videos are above zero.

`PictureProofs`, `FrameDataProofs`. What TLC tries for 24 sizes is proved here
for every even width and height and any alignments (of the rows in the surface an even one).
`ConvertedInside` goes through the converters write by write: an offset is a row times a pitch plus
a column (`RowMajor`, `LumaInSurface`, `ChromaInSurface`), and so is a byte of the bitmap.
`ConvertedIsPicture` shows that the writes of a converter are those of `Nv12Of`: a kernel's pixel
goes through the upload (`UploadedRow`), a row from the bottom is one from the top (`FlippedLuma`,
`FlippedPairs`, with the two rows of a box swapped, `FlippedBox`), a byte of NV12 is the first or the
second of a pair; and that padded rows on the CPU miss it, at the first byte of the surface.
`FrameDataProofs` carries both to the specification with `DataInv`: what `CompressQuery` let through
is what is converted. `PathsAlwaysAgree` bounds the shift of the CPU and the rounding of the kernel
against the same decimals, so that they are within one of each other for all 2^24 colours and for
all boxes of four. That no other matrix does takes one colour, blue, whose luma or chroma is another by
each of their coefficients (`BlueTellsThemApart`).

`FrameDataProofs`, on streams, for any number of units of any length. An encoder's unit has no start
code inside and does not end with a zero (`IsEscaped`, clause 7.4.1 of H.264), and this is all that is
assumed of it. The first half are lemmas on sequences: `FlattenSeq` lays its parts out one behind the
other (`Flattened`), the start codes of the stream are those of its units and no others, for one that
straddled two units would need zeros at the end of the first (`CodesOfStream`), and so `Search` goes
from each unit to the next (`FirstCode`, `NextCode`). `Outline(s, S, n, units)` is what the actions
need to know of this: where each start code is. `KeyInv` says that the scan is at some unit and has passed
none that would stop it; `KeyFramesAreTold` follows when it ends. `RunInv` says, for the second pass, how
many bytes are written, how many are left, and how many parameter sets were passed (`RewriteAt`):
`SizeAccounts` alone is only about the end. The sets that are written have any length: that
`add_vui` returns bytes whatever bytes it is given (`AddVuiTyped`) goes through the reader (each code ends
in the stream, each member is an integer), the tables (they are sequences of rows, and no more is
written than is read, `WriteSeq`) and the writer (bits, eight of which are a byte). From both
invariants: `KeyFramesAreTold`, `SizeIsAccountedFor`, `FrameDataTyped`.

`ParameterSetProofs`: `RoundTrip`. For all parameters that are narrow, whose profile the code knows as
H.264 does and whose HRDs do not differ, each of the six matrices and whatever bytes follow the set, what
`add_vui` writes of the set that the encoder sent is the encoding, by H.264, of the same parameters with
the colours of the setting; the statement does not mention what the code loses. `SetIsCarried`, on which
it rests, is without the last two premises, and says what is written then (`Carried`). It goes up from codes to sets. Reading: a number or an Exp-Golomb
code that stands in a stream is read back (`Carries` says that bits stand there), so a row is
(`ReadRowBack`), and so a table (`ReadTableBack`), if no row is conditional on a member that is not known
by then: for the condition of a row is tested on what the reader has so far, and that of the bits on the
encoder's parameters. `Grammar` says this of a table, and `SeqGrammar`, `HrdGrammar` and the others find it
in the tables of the code, condition by condition. What was read is `Told` by the parameters on the members
that were there, the second HRD over the first. Writing: `bs_write_ue` writes the code of H.264 for a narrow
value (`WriteUeIs`, with shifts modulo 32); a table of the code with the members that were read is a table
of H.264 with the parameters carried over (`Mirrors`, row by row, for the names of an HRD differ), so that the
bits agree (`SpsWritten`). All of this is about the tables of the code; `EncodedIsCoded` carries it over to
those of H.264, which differ in the list of profiles. Then the trailing bits, and bits put in bytes and taken out again (`BitsBack`).

`UnitsAreKept` and `ParametersAreKept`. `WrittenAt` is what the second pass keeps, beside `RewriteAt`: the
bytes up to `dst` are made of pieces (`MadeOf`), one for each unit that was passed, each with a start code, the
unit or the set that is carried over, and perhaps a zero that belongs to the next start code; and `dst` is ahead of
`start` by no more than the sets so far have grown. The second is needed for the first: `dst` leaves room for
a set only because all sets together grow by at most 32 (`Fitting`), which no stage of the pass can see.
A copy ends in front of the next start code, so that a zero before it is copied with the unit
(`PieceOfCopy`); a set is written from the bytes of its unit, of which the last may be such a zero, and
that is why `RoundTrip` lets any bytes follow (`SourceRead`, `SetWritten`). At the end a player's
`UnitsIn` finds the units of a stream that is made of pieces (`MadeFound`, from `CodesOfPieces`: no start
code straddles two), and of the encoder's own stream when nothing was rewritten (`OutputFound`). That
only a scaling list, or a profile that is misread, kills the process is `OnlyListsKill`: the flags that are
read are the encoder's. `CarriedIsExpected` makes of what is carried over what is expected.

`RangeIsTold`. A frame that was rewritten has a parameter set (`SetInv`, which no other invariant
says); by the theorem before it the set that a player finds is the one carried over, and it reads the flags that
`ColourOf` has for the matrix in it (`CarriedFits`: the parameters carried over are parameters, `RangeRead`). The
other side is the arithmetic of the kernels for black and white, matrix by matrix (`LumaOfGrey`).

Functions that are defined by recursion (`FlattenSeq`, the value of bits, the rows of a table) are
reached in a roundabout way, for the library's induction theorems take an operator that the provers do
not instantiate. An induction is over a set of numbers: the numbers for which a claim fails
have a least one (`LeastOf`, from `WFMin`), and that leads to a contradiction (`UpTo`). `StepByStep` so
gives the function that a recursive definition chooses, and `SameValues` that there is only one.

Only model-checked: liveness (`FrameAnswered`), which TLAPS does not prove, and the five properties
that the code violates, which are shown by a counterexample. Every invariant and action property that
a passing run checks is stated by a theorem. The loops of a parameter set are unrolled up to
`MaxCpb` and `MaxCycle`, which are 2, in the theorems too: a member more is a row more, but the
tables would have to be functions of the bounds. What becomes of sets that are not `Ordinary` is
neither checked nor proved, but for the size, the type and the end of the process: nothing in the
repository says what should.

## What is not modelled

- `log.cpp` writes lines to a file under a lock of its own, and `perf.cpp` reads clocks; no value of
  either is read by the rest of the program.
- `decompress.cpp` and its parser are never called; nor are `yuvToNV12` and the SSE routines among
  the converters, `bs_read_te` and the rest of `bs.h` that `bitstream.cpp` does not use.
- Saving and loading the settings key by key: `ConfigTable` does either in one step. `ove_CS`
  covers the values, and only against threads of the same process. Two dialogs saved at once leave a
  mixture, and nothing in the repository promises otherwise.
- The OpenCL and OpenVideo headers and libraries, but for what their callers rely on; the kernels'
  floats; the contents of scaling lists; codes of more than 31 bits.
- Windows' dialog machinery, resources, the installer and the project files. The OpenMP pragmas of
  the CPU converters have no effect in this build (`OpenMPSupport` is empty in the project files), so
  the converters are sequential.

## Plan

1. Done: the components of the table with their runs and the proofs above; the data of a frame
   (layout, colours, scan, bit streams) with the proofs about all of its invariants.
2. `SettingsStore`: saving and loading key by key in two processes, and a crash in between.
3. Composition: `VfwDriver` with `OveLoader`'s one-thread behaviour shown to be `Taken` and
   `Released`; `EncodeFrame` shown to give `CodecSession`'s outcomes of a frame.
4. Proofs: tables that are functions of `MaxCpb` and `MaxCycle`, so that `RoundTrip` holds for the 32
   schedules and 255 reference frames of H.264.
