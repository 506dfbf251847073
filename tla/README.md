# TLA+ specifications of the DAP debug probe

This directory specifies the debug path of the firmware: how a TriCore target's
trace gets from its trace RAM to the host, how the DAP link is shared between a
trace and a flash, how a flash session and the boot mode header writer treat the
flash, how cores are stopped and breakpoints kept, and how the link itself, with
its modes and its FPGA, is driven. The modules are written from
`src/components/dap_probe`, `src/main/network` and `src/fpga/dap_master`;
`PROJECT.json` maps each definition to the lines it stands for.

## 1. The system

An ESP32-S3 with a small FPGA speaks the DAP protocol to an Infineon TriCore.
FreeRTOS tasks share the one link:

| component | source | state it keeps | operations | interacts with |
|---|---|---|---|---|
| trace ring | `dap_trace.c` 60-141, 446-469 | bytes, head, tail, reset flag and position | publish (drain), read (sender), reset (start of a trace) | drain and sender, on two cores, no lock |
| TRAM drain | `dap_trace.c` 206-439 | next paragraph, pending loss, sequence number | poll, finish; block reads with FIFONOW in between | target's write pointer; ring |
| trace session | `dap_mcds.c`, `dap_lock.c`, `mcds_web.c` | s_running (twice), s_task, lock owner and depth, link mode | start, stop, orphan watcher, drain task's life | both flashers, every DAP access |
| flash session | `tricore_flash.c`, `tricore_flash_loader.c`, load in `tricore_bmp.c` | plan, keep list, swap, multi-sector flag, clock, prefetch | begin, compare, erase, program, verify, end; GDB's collect | target flash; trace session (stop first) |
| trace websocket | `dap_web.c` 372-626 | descriptor, run flag, task handle, client number | handshake, frame, close, sender loop | web server's descriptors; ring |
| UCB writer | `tricore_ucb.c` | decisions per boot mode header; the blocks on the target | plan, erase, program pages, read back | end of a web flash; the boot ROM at the next reset |
| flash upload | `flash_web.c` | image, bad flag, task handle, status | upload, parse, start, flash task | flash session, UCB writer |
| run control | `tricore.c`, `tricore_flash_loader.c` | s_halt_line, s_resumed, tricore_present; the trigger line, EXEVT and routing of the target | discover, halt request, poll, release, halt, resume, reset | GDB target (lock per access), flash session (lock throughout) |
| GDB target | `tricore_bmp.c`, `tricore_regs.c` | trigger records, step state | attach, detach, breakpoints, step, continue, load | run control; the web server's probe and flash |
| link modes | `dap_wide.c`, `dap_dapisc.c`, `dap_fpga_route.c` | s_active, s_fast, taps, timing, divider; the target's mode | enter, leave, fall back, attach, benchmark | trace session |
| FPGA exchange | `dap_phy_fpga.c`; `dap_top.v`, `reply_fifo.v` | frame registers, sequencer, reply and write FIFO, STATUS | exchange, block write, chain of block reads, abort | all DAP accesses |
| probe, bring-up | `dap_probe*.c`, `dap_phy.c`, `dap_frame.c` | probe result | connect, bring up | DAP under the lock |
| web UI, storage, UART bridge, network, OTA, LZ4, start-up | `src/main` | settings, sockets | request handlers | ESP-IDF |
| CherryDAP, CherryUSB, LCD, FPGA sources, host tools | vendored or other languages | | | |

What makes it hard: a lock-free ring between two cores; a target that overwrites
its trace while it is read, and shows its position only modulo one lap; a lock
that is recursive, taken for long sequences, and dropped between a check and its
use; waits that are bounded but shorter than they look at a 100 Hz tick;
websocket descriptors that are reused; a flash session in which every read
may fail and several failures are deliberately ignored; headers that make a part
start or not and are written page by page; one trigger line that stops every core
listening to it; a link whose two ends must change mode together; and an FPGA with
its own clock that the host sees through registers sampled a byte apart. `PROJECT.json`, under
`hazards`, lists each at its line with the property that watches it.

What makes each component correct:

* ring: nothing overwritten before it is handed back, nothing repeated, skipped
  or half written; a new trace does not start with the old one's bytes;
* drain: no torn paragraph is sent, no lost one is silent, and it catches up;
* session: after any race the lock is free and the link is in its attach mode; a
  trace that is reported runs; a flash has the DAP to itself; no deadlock;
* flash: "verified" is true, only what was to change changes, nothing is
  programmed unerased, no session goes in circles;
* websocket: one sender, for the newest client; it stops with its client;
* headers and upload: whatever is interrupted, no block claims to be a header
  that is not one; nothing is written that could not be undone; headers follow a
  verified program flash; "done" means all of it; the job ends;
* run control: a driven line is on record, a halt stops nobody else, the flash is
  programmed with the cores still, GDB is told of the halt it waits for;
* triggers: what is armed can be found again, what GDB set is armed, a step tidies up;
* link: both ends in the same mode, and back at the attach clock after a trace;
* FPGA: an operation that succeeds returns its own words, one that fails had a
  reason, and every one returns.

## 2. The modules

| module | what it is |
|---|---|
| `ByteFifo` | what a trace ring promises: a bounded FIFO of bytes, numbered as published, whose reader may be sent back a little |
| `TraceRing` | the ring of `dap_trace.c`, one action per shared access |
| `TraceDrain` | `drain_to`, poll and finish against the target's trace unit |
| `TraceDrainProofs` | its invariant and the theorems |
| `TraceSession` | start, stop, watcher, drain task, lock, both flashers |
| `FlashSession` | one flash session at a time, for the web flasher and for GDB's `load` |
| `FlashSessionProofs` | its two invariants and the theorems |
| `TraceWs` | `/ws/trace`: handler, destructor, sender task |
| `TraceStreamProofs` | the invariants and theorems of `TraceRing`, `TraceWs` and `TraceSession` |
| `UcbWriter` | the boot mode header writer against failing accesses and power losses: also the abstract specification of the next |
| `FlashUpload`, `MCFlashUpload` | upload, start and flash task; extends `UcbWriter` and implements it |
| `FlashUploadProofs` | the writer's invariants and theorems, the refinement, and what follows from it |
| `RunControl`, `MCRunControl` | halting over the trigger line: GDB and a flash session, access by access |
| `RunControlProofs` | its invariant and the theorems |
| `Triggers` | breakpoints, watchpoints and steps on the address triggers of a core |
| `TriggersProofs` | its invariant and the theorems |
| `LinkModes` | wide and fast mode, attach, trace session, benchmark, route check |
| `LinkModesProofs` | its invariant and the theorems |
| `FabricChain` | host and fabric of the FPGA: exchange, block write, chain of block reads |
| `FabricChainProofs` | its invariant and the theorems |

How they fit: `FlashUpload` runs `UcbWriter`'s steps as its own (an extension, and a
refinement); `FlashSession` is the program flash step in the middle of a
`FlashUpload` job; `RunControl` halts the cores around that session, `Triggers` is
what GDB does between two halts; `TraceSession` decides when `LinkModes` starts and
stops a trace and when `TraceDrain` drains it into `TraceRing`, which `TraceWs`
reads; every access of all of them is an operation of `FabricChain`.

The names of the code are kept where TLA+ allows. A comment line `Mutant:` marks
a deliberately wrong form of the definition after it; nothing uses these but
the mutation tests listed in `PROJECT.json`. In `TraceWs` and `TraceSession` the names that every
specification has are prefixed (`WsInit`, `SessionNext`, `SessionTypeOK`, ...), because one module of
proofs extends both, and `TraceRing`.

**TraceRing.** `head`, `tail`, `resetTo`, `reset` are `s_ring_head`, `_tail`,
`s_ring_reset_to`, `s_ring_reset`. The producer checks the room (`PublishCheck`), puts bytes
one by one (`PutByte`), and releases the head (`PublishHead`); a start of a
trace stores the position (`BeginResetTo`) and then the flag (`BeginReset`). The
consumer loads the flag (`ReadFlag`), skips, clears, loads the head, copies byte
by byte, and stores the tail. The bytes are the numbers of the stream, so that a
stale or half written one shows; `habs`, `tabs`, `rabs`, `sabs` are those numbers for
head, tail, reset position and the position a read has loaded, and are history. A trace may start at
any point of a `dap_trace_read` call; three history variables say what came of it: `inside` (the
last start fell inside a read), `second` (it fell between the load of another's position and the
clearing of the flag), `torn` (the tail went back over space the producer had already been given). The stores and
loads are the release/acquire atomics of the code, hence in order. `ByteFifo` has the same one
exception: its reader may be sent back by at most one read (`Again`), and if the bytes are gone
by then the stream promises nothing (`Break`) until the next start (`Mend`).

**TraceDrain.** A word of the trace RAM is represented by its number, so that a
paragraph of mixed laps shows. `Available`, `Lapped`, `SkipLap`, `SkipMargin` are the arithmetic of
`drain_to` on paragraph indices; `ReadWord` and `ReadNow` are the chain, and `Moved` and `Torn`
its judgement. `look` and `overtaken` are history: the writer moved a whole lap
between two looks at FIFONOW, which no arithmetic modulo a lap can see. `PaceLimit` bounds
the writer between two looks, unless the drain sleeps after a failed read. `FinishBeside` is a
`dap_trace_finish` that comes upon a pass of the drain task, as it can at 100 Hz: two drains then
share one position and one buffer. What they do to the stream is left open, so the model of the drain
ends there; how they meet is in `TraceSession` (`OneDrainer`, `TraceSessionOverlap.cfg`).

**TraceSession.** Each actor (`http`, `watch`, `flash`, `gdb`) is at a label of the
call it is in; steps that take the lock are blocked while another holds it.
A single DAP access is one step. `StopWaits` says whether `vTaskDelay(pdMS_TO_TICKS(2))` sleeps: at
`CONFIG_FREERTOS_HZ=100` it does not. `link` is the mode of the link, `inUse` whether the fabric is in
use, `sWide` the flag by which the clean-up decides what to leave: `restore_link` does nothing when the
fabric is out of use, and keeps wide mode when the flag says narrow; `kept` remembers either. An
attach, by the web server under the lock or by GDB without it, puts the link back, and may find the
target silent and put the fabric out of use. A new FPGA configuration (dap_web.c:688, 771), which also
puts it out of use, is not modelled.

**FlashSession.** A sector holds the image, something else, or is erased. `swapped`
is the target's truth, `swap` what the probe takes it to be: a register that cannot be read counts as
"not swapped" (`Misread`), and commands then go to the other bank. An erase command may work,
break half way and say so, or break and go unnoticed because the error register
could not be read. `refuses` is a part that rejects erases of several sectors. The DAP clock a session
changes and gives back is the link's, and in `TraceSession`.

**UcbWriter.** A block is five pages: `head`, `crc` and `body`, which the formal check
covers (`Passes`), `state`, the confirmation code, and `tail`, the rest. A page holds
the old content, the image's, the erased value or a lock. `PlanBlock` decides for
each block (`Decision`) from the registers; `BlockStarted`, `EraseDone`, `PageDone` (in
`WriteOrder`), `ReadBack` are the steps of `write_block`, each with its failure;
`PageMissed` is a page error whose register could not be read. `PowerLoss` may come
at any point; `Boot` is what the boot ROM latches at a reset.

**FlashUpload.** `file` is what the client sends, record by record, `got` how much of it
arrived; `Bad`, `HasBytes`, `UcbImage` are the parser's state as functions of these. The
server takes an upload or a start (`Startable`), the task goes through `Apply`, `Headers`, the writer's steps,
`End` and `Leave`. `ucbVars` belong to `UcbWriter` and change by its actions only.

**RunControl.** `state`, `exevt`, `route`, `tlc` are the target, `haltLine` and `resumed` the
firmware's records. Each user is at a program counter; one DAP access is one step,
guarded by the lock (`Access`), and may fail. `Look` to `AssertLine` are
`tricore_halt_request` in order, `Check`, `Wait`, `Release` the rest of `tricore_halt`, `Listen` to `GiveUp`
the poll and the attach. `present` is `tricore_present`, which a probe (`Forget`, `Scan`, `Scanned`) and the
session's two discoveries (`Discover`) write anew, and which may lose a core to a failed read; a request, a poll or a
release of a lost core returns early. A sibling of CPU0 comes out of a reset in boot halt until CPU0's software starts
it (`Starts`); `halt_all` goes through the siblings first and passes one by that is absent, not started or
unreadable. History: `lineFault` (a write of TLC failed), `blind` (another core could
not be looked at, or was passed by), `torn` (a session began inside a request), `stray`, `loose` (the
session's reset did not stop CPU0), `passed` (what `halt_all` passed by).

**Triggers.** A call of the allocator is an operator that gives the set of its outcomes
(registers, records, slot, failed writes); `Happens` picks one, undisturbed or with a web flash inside the call
(`Overtaken`), since GDB's accesses take the lock one by one. `tricore_step` is
`BeginStep`, `Lift`, `AddFall`, `AddBranch`, `Go`, `EndClear`, `Restore`, between which the web
server may flash or probe as well. A reset drops the records; its request is an unchecked write, and if that is lost
the triggers stay armed (`Dropped`). `wanted` is what GDB was told is set, and nobody tells it
otherwise: `wiped` is what of it a reset or a probe has dropped. `strays` are the slots that a failed
write, a lost reset or a probe left with a trigger and no record.

**LinkModes.** What runs under the lock is one step: an operator
from the state of the link to its outcomes, composed with `Bind`. A telegram is heard
if fabric and target are in the same mode, and may be lost (`Losing`). GDB's reset attaches without
the lock: its telegrams wait for it, its writes to the fabric do not, so they come one by one
(`GdbWrites`, `GdbAsks`) between two calls of the others and, by `Meddled`, between two telegrams of one.
That `dap_wide.c`'s and the fabric driver's own flags are read, changed and written back by both at once is
not modelled beyond these outcomes. History: `cold` (the target lost its power since the fabric was last set narrow),
`crossed` (GDB's reset hit it with the fabric wide).

**FabricChain.** `q`, `pend`, `frame`, `fifo`, `done`, `timedOut`, `overrun` are the fabric's
registers, one action per state of the sequencer; `pc` is where the host is. A
word is named by its operation and place. `fresh` is how far the reader's level may
lag behind; `ReadStatus`, `ReadLow`, `ReadHigh` are the registers of one burst, between which the
fabric goes on. `runOn` and `tainted` are history: the host gave up what the fabric still runs.

**TraceWs.** `fdOf` maps connections to descriptors, which are reused as soon as a
connection closes; `last` is the sender between `trace_ws_close` and clearing its handle.

## 3. The runs

Every property of a passing run has a mutant of the model that breaks it.

| run | asks | bounds |
|---|---|---|
| `ring` | types, `NoOverwrite`, `ReadsInOrder`, `OldTraceDropped`, `TailForward`, `StartMends`, refinement of `ByteFifo` | 8 cells, records of 3, reads of 2, 24 bytes: the ring wraps three times, a record straddles the wrap, the full ring is met, traces start anywhere |
| `drain` | `PublishedIntact`, `NoSilentGap`, `CatchesUp` | 5 paragraphs of 2 words, 18 words (nearly two laps), one record in the ring, one failing read |
| `session` | `CleanWhenQuiet`, no deadlock | all four actors, setups may fail |
| `session_live` | `CallsReturn`, `DrainLeaves` | three actors (GDB's session is the inner part of the web one), a stop that really waits |
| `session_restart` | `RunningMeansDraining`: fails | web server alone, 100 Hz |
| `flash` | `VerifiedIsImage`, `OnlyKeptChange`, `ProgramsErased`, `LoadLeavesErased`, `SessionDescends` | 4 sectors in 2 physical ones, swap or not, read or not, refusing or not, merges of 2, loads of 2 sectors, any number of sessions |
| `ws` | `SenderOwnsStream`, `FreeWhenNone`, `SenderStops` | 3 connections, 2 descriptors: reuse happens |
| `upload` | `ClaimsOnlyWhole`, `LossesAreFaults`, `OnlyWritable`, `FlashBeforeHeaders`, `DoneMeansAll`, `JobEnds` | see `FlashUpload.cfg`: an owned original and copy and a block that is not owned, files with program flash, header, empty and broken records, two jobs |
| `chain` | `OwnWords`, `NoFalseFailure`, `OpEnds` | chains of 3 blocks of 2 words, a FIFO of 4, LEVEL digits of base 3, 3 operations of any kind, 2 faults |
| `run_control` | `LineAccounted`, `NoStrayHalt`, `FlashQuiet`, `Reported` | 2 cores, one failed access, one flash session, any number of GDB's calls; the three invariants hold with two failed accesses as well (`RunControlTwo.cfg`: one loses the stop at a reset, the next the halt after it) |
| `triggers` | `NoGhost`, `Kept`, `StepTidy` | 3 slots, 3 addresses, watchpoints of two triggers, 2 requests, two failed writes or calls of the web server |
| `link_modes` | `ModesAgree`, `Quiet` | 2 dividers, 2 lost telegrams, any number of calls |

Why the bounds suffice: indices of ring and drain matter modulo their size, so
two laps show every wrap, and the ring's third shows what is published after a start went wrong; a session race needs at most the four tasks that
exist, which are all there; an erase run has a first, a next and a
neighbour in and beyond its physical sector, and four sectors have them all;
a stale websocket needs an old client, a new one and a shared descriptor. A header is lost or saved between
its own pages, so two owned blocks show an original and its copy; a stray halt
needs a second core; three slots hold a pair and a single trigger, so that both
allocations meet a full table, and two requests and a step compete for them; a chain of three blocks has a first, a queued and a
waiting one, over a FIFO that fills within two, and three operations leave one to
spoil the next (a block longer than the FIFO, which a broken chain could leave running, is outside the
bounds, and inside the theorems). Failures are bounded because each is an exception of some property:
one already shows what it does, a second what a retry does (`chain`, `link_modes`).

`CHECK_DEADLOCK FALSE` is said where the model has to stop: the drain when the words
are used up and the trace finished, the websocket when all connections were made.
The ring only stops when its bound of bytes is reached, a chain when all its
operations were made.

`TypeOK` (`WsTypeOK`, `SessionTypeOK`) of a module without one in its run can be added to the run's INVARIANTS; all hold.

**Fairness.** `TraceDrain`: the drain task busy-polls on a core of its own and the host reads
(weak fairness). The target owes nothing. `TraceSession`: strong fairness of each
task's steps, because FreeRTOS hands the mutex to a waiter at an unlock
and the competitors give it back again and again; it is stated per task, never
for a client's request. `TraceWs`: the sender never blocks for good (sends time out),
and queued closes are worked off. `FlashSession` and `TraceRing` need none: a session's
progress is the action property `SessionDescends`. `FlashUpload`: the flash task goes on
(it is a task of its own, and every access ends in a time-out). `RunControl`: GDB's thread and the
flash task go on, and an edge that arrived stops its core; the user owes nothing.
`FabricChain`: the fabric's clock and the polling host. `Triggers` and `LinkModes` state no liveness.

## 4. What the runs found

`session_restart`, the violating run, quotes the line it contradicts in `PROJECT.json`: at
100 Hz `dap_trace_stop` does not wait. A restart finds the handle of the leaving task,
creates none, and the trace has no drain.

Further divergences have a configuration of their own, to be run with
`tlc -config X.cfg M`, in which TLC finds the property violated:

| configuration (module) | property | what happens |
|---|---|---|
| `TraceRingStartForward` (`TraceRing`) | `NeverBack` | a trace that begins while `dap_trace_read` is past its flag test has its first bytes handed out by that call, and again after the next, which moves the tail back to `s_ring_reset_to` (dap_trace.c:456) |
| `TraceRingSecond` (`TraceRing`) | `AtItsNextRead` | a trace that starts while a read is honouring an earlier start has its request cleared with the other's; old bytes are handed out in the new trace (dap_trace.c:457) |
| `TraceDrainBackoff` (`TraceDrain`) | `LapFlagged` | after a failed read the drain sleeps a tick, in which the target may write a lap; the next pass measures modulo one lap and publishes on with no gap (dap_trace.c:431) |
| `TraceSessionFlash` (`TraceSession`) | `NoTraceUnderFlash` | the flash-active test of the start handler is not under the lock; a trace can start under a flash (mcds_web.c:302) |
| `TraceSessionOverlap` (`TraceSession`) | `OneDrainer` | `dap_trace_finish` drains beside a pass of the task, with the same position and buffer, since the stop does not wait at 100 Hz (dap_trace.c:240) |
| `TraceSessionLink` (`TraceSession`) | `LinkBack` | a start that overlaps the stop of a wide trace overwrites `s_wide` before the clean-up reads it; the link stays wide when all is quiet (dap_mcds.c:342) |
| `FlashSessionPrefetch` (`FlashSession`) | `PrefetchRestored` | the loader's own failure exit, after a failed safety ENDINIT, leaves prefetch off (tricore_flash_loader.c:343) |
| `FlashSessionSwap` (`FlashSession`) | `OtherBankKept` | an unreadable swap register counts as "not swapped"; sectors of the other bank are erased (tricore_flash.c:228) |
| `TraceWsStale` (`TraceWs`) | `StaleCloseHarmless` | any frame that closes or cannot be read, of any session, stops the current client's sender, although the client number is there to prevent it (dap_web.c:623) |
| `FlashUploadTruncated` (`MCFlashUpload`) | `OnlyAccepted` | an upload whose connection broke leaves its records in the image, not marked bad; a start then programs, verifies and reports "done" for part of a file (flash_web.c:263) |
| `RunControlStop` (`MCRunControl`) | `StopReleased` | a core that stops by itself between GDB's request and the assertion, or a failed request, leaves the line driven after the halt was reported (tricore.c:211) |
| `RunControlSkip` (`MCRunControl`) | `AllQuiet` | where the session's reset did not stop CPU0, it may start a core that `halt_all` has passed by as not started; the flash is programmed beside it, without a warning (tricore_flash_loader.c:222) |
| `RunControlLost` (`MCRunControl`) | `LoopEnds` | a probe's discovery fails to read a core once; GDB then polls a core that counts as running for ever (tricore.c:64, tricore_bmp.c:702) |
| `FabricChainAbort` (`FabricChain`) | `NeverWrongData` | the abort after a deadline does not end a block that is running; its words reach the next operation (dap_phy_fpga.c:1222) |
| `LinkModesReset` (`LinkModes`) | `ResetAlone` | GDB's reset attaches without the lock; a trace that starts in between leaves the fabric wide and the target narrow (tricore_bmp.c:626) |
| `LinkModesProbe` (`LinkModes`) | `ProbeHarmless` | a probe during a wide trace gets no narrow answer and resets a target that was well (dap_fpga_route.c:58) |

Seen while modelling, with properties that stand in the modules but are in no run.
Each is reproduced by putting the property in the named configuration:

| property | change | what happens |
|---|---|---|
| `TraceDrain!FinalFlagsGap` | `TraceDrain.cfg`, 6 paragraphs, 2 records, 24 words | FINAL is published without a gap after a failed pass |
| `TraceDrain!LostCounted`, `SeqCountsGaps` | the same, 1 word, no failures | paragraphs skipped by a resume are not counted; the sequence number does not count lost ones |
| `TraceDrain!NeverOvertaken` | `TraceDrainBackoff.cfg`, no failures, 30 words | holds: two paragraphs per look are safe; with three, `LapFlagged` fails without any failed read |
| `TraceSession!OneDrainer` | `TraceSessionOverlap.cfg`, `StopWaits` | holds for the web server alone |
| `TraceSession!RunningMeansDraining` | actors http and watch, `StopWaits` | the watcher's late teardown takes a new trace down |
| `TraceSession!FlashClockKept` | `TraceSessionFlash.cfg`, `MayFail` | a failed start sets the divider inside a flash session |
| `FlashSession!LoadLeavesErased` without `~missed` | `FlashSession.cfg` | an erase whose error was unread counts as done, nothing verifies it |
| `TraceWs!FramesToOwner` | `TraceWs.cfg` | a client drops between check and send: the frame goes to the heir of the descriptor |
| `Triggers!ProbeSafe` | `Triggers.cfg` | a probe over the web drops the records of armed triggers; nobody clears them |
| `Triggers!Told` | `Triggers.cfg` | a web flash drops GDB's breakpoints under a continue; nobody tells GDB, and the core runs past them |

Where a property has an exception in its statement (`torn`, `inside` and `second` of the ring, `overtaken`, `kept`,
`missed`, `Misread`, `lineFault`, `torn`, `blind`, `loose` with `passed`, `mixed`, `wiped`, `strays`, `cold`, `crossed`,
`tainted`), leaving it out gives one more such trace; the comment of the
property says which behaviour of the code it is.

## 5. What is proved

`TraceStreamProofs` proves, for every ring size, record length and read size (any
naturals that satisfy `RingAssumption`), wherever traces start, every safety property of the `ring` run and that
`TraceRing` implements `ByteFifo`.

The properties are not inductive. `RingInv` ties the wrapping indices to the byte numbers they stand
for. It adds to the types

* `Waiting`: unless torn, cell `Wrap(tail + i)` holds byte `tabs + i` for every waiting byte;
* `Started`, `Loaded`: so it is from the start of the new trace, and from the position a read has
  loaded, whatever the tail does, as long as what was published since fits;
* `Putting`: the bytes of a publish in progress lie from the head on;
* `Reading`: what a read has copied are the first waiting bytes, no more than there are;
* `Skipping`: a start stands as a request until honoured, or was the second of two; the tail is beyond
  it only by what the one read it fell into has taken;
* `Standing`: before a start outside any read is honoured the tail stands still, so that the
  producer's own test keeps what was published since in the ring.

It holds initially (`InitRingInv`), each actor's steps preserve it (`CheckStep`, `PutStep`, `HeadStep`, `BeginStep`,
`ReadStartStep`, `CopyStep`, `TailStep`), and it implies each invariant. All rest on a few facts about index
arithmetic (`WrapInRing` to `UsedGrows`). `TailForward`, `StartMends` and the refinement are shown step by step
from it: `Standing` is why a start between two reads mends what one inside a read has torn.

`FlashUploadProofs` first proves of the writer, for any blocks, any owned ones among them, any images and any number
of faults and power losses (`UcbAssumption`), types, `ClaimsOnlyWhole`, `OnlyWritable`,
`LossesAreFaults` and `OkMeansAll`. `UcbInv` adds to types and `ClaimsOnlyWhole`

* `PlanSound`: what is planned and what is still to be written is `Writable`, so that an
  erase or a page never meets a block the plan refused;
* `HalfWritten`: in the middle of a block the pages before `page` are the image's and the others
  erased, unless a page error went unread. Without it nothing is known of the block a power
  loss leaves behind.

The order of the pages enters in one place, `PartPasses`: the page the check looks at first is
programmed last, so a block that passes has all its pages, and is the image's. `OkMeansAll` needs one invariant more (`Covered`): while no
write failed or was refused, a block of the image is either still pending or as wanted.
`LossesAreFaults` counts: each block lost so far (`Lost`) is charged to a fault of its own, except
the one in the middle of its pages. `LossesCounted` is what makes the count inductive: a page error
that went unread (`Gap`) has already cost the fault that the block will be charged to when the read
back finds it wanting, so the block being written is never charged twice, nor for free.

Then it proves for any files and any number of jobs that the flash job implements
the writer: `UploadImplementsWriter` is `Spec => UcbSpec`, and the theorems on the writer carry over to
every interleaving of uploads, jobs and resets. `UploadInv` says that an upload excludes a
job, that the writer runs only inside one, that its image is what the file gives (`UcbImageOK`: a legal one) and
that the flash holds what arrived before the headers' turn; `FlashBeforeHeaders` and
`DoneMeansAll` follow from it and, for the latter, from the writer's `OkMeansAll`.

`TraceStreamProofs` proves `SenderOwnsStream` and `FreeWhenNone` for any number of clients and
descriptors. `WsInv` adds what holds between the sender's `trace_ws_close` and the clearing of its
handle: the descriptor is given back, and no other sender has started.

Its third part proves `CleanWhenQuiet` for any of the four actors, a stop that waits or does not and
setups that may fail (`SessionAssumption`). `SessionInv` is

* `LockKept`: the lock is as deep as its owner still has to give back (`Held`, read off where the
  owner is), and nobody else has to give anything back;
* `OwnCalls`: a stop returns into the call that asked for it, so that what is held around it
  (`Around`) is given back too;
* `DrainOwned`, `LinkOwned`: a drain that is asked for, and a link away from its attach mode, has a
  running trace, a call on its way or a flash session that will see to it, or a clean-up that could
  not undo it is on record (`kept`), as it is when the link is wide and `s_wide` does not say so;
* `FlagsOwned`: the flash flags belong to a flash.

Each step moves one actor (`ActorStep`), and owes only what that actor held and saw to
(`LockFollows`, `HandsOn`). Once all are idle nothing is held and nobody is left to see to anything, so
there is nothing to see to. The exchange in `StopOnce` is where it matters that one caller wins:
the flag falls in the step that makes the winner responsible.

`FlashSessionProofs` proves every property of the `flash` run for any even number of sectors, any
physical sector size and any limit on merged erases. `FlashInv` says at each stage of a session which
sectors are still on its list and that those taken off it are erased (`ErasedSoFar`); types,
`VerifiedIsImage`, `ProgramsErased` and `SessionDescends` follow from it. `SwapInv` adds
what is true of the other sectors: `Untouched`, `OnlyKeptChange`, `BlankErased`, `LoadLeavesErased`. The sectors that
commands reach are those of their addresses or, after a misread swap, the ones exchanged with them
(`AddressFacts`), so that a session never touches more than the properties say. `Descends` counts what a stage has left (`StageFalls`); that a stage has a
next sector, and a run an end, uses that the naturals are well-founded.

`TraceDrainProofs` proves, for any sizes of TRAM, paragraph, chain and output ring, any margin and a
writer of any pace, the type invariant, `PublishedIntact` and `NoSilentGap`. `DrainInv` is

* `PassOK`: what a pass still has to read ends at the pointer it began with, less than a lap away;
* `ChainOK`: which groups of the chain have had their FIFONOW word;
* `BufOK`: a word of the chain is its paragraph's unless the writer reached the paragraph's place
  again by the look that follows its group;
* `LooksOK`: `pass.moved`, a sum of steps modulo a lap, is the true distance to the last look
  counted, as long as no two looks are a lap apart (`overtaken`);
* `StreamOK`: what was published is intact, neighbours are told apart, and the last record says
  what the next one would have to admit (`NextTold`).

The margin test of `drain_to` turns `LooksOK` into the premise of `BufOK` (`Judged`, `ThisParIntact`):
this is where the two halves of the argument meet, and where a margin one too generous fails.
`PaceLimit` does not enter, only that two looks are less than a lap apart.

`LinkModesProofs` proves, for any dividers and any number of lost telegrams (`LinkAssumption`), types,
`ModesAgree` and `Quiet`. A lemma for each operator says what all its outcomes share (`NarrowIs`,
`SwitchIs`, `WideEnterIs`, `FastEnterIs`, `AttachIs`): a link that was `Good`, both ends in one mode (`Agreed`)
and every deviation recorded in `dap_wide.c`, is good again. `Drift` is what a telegram may leave with GDB's reset at work
beside it: nothing but narrow mode, at either end, and two ends that agreed still do, or the record says why not. `Recall` adds what `Quiet` needs: until a
clean-up is skipped, wide mode is left on only while the session's own `s_wide` says so, and each step
of the clean-up finds the ones before it done, although probes and diagnostics run in between.

`RunControlProofs` proves, for any number of cores, failed accesses and flash sessions (`RunAssumption`),
types, `LineAccounted`, `NoStrayHalt` and `FlashQuiet`, access by access. `RunInv` adds to them

* `Threads`: where each thread can be. The flash session holds the lock from its first access to its
  last, so GDB's thread, which takes it for one access at a time, stands before its first access or
  the session has torn a request in two (`torn`);
* `Lines`: a request about to write TLC is already on record in `haltLine`;
* `Looked`: of the cores a request has gone through, none is both running and listening to the line;
  it holds of two requests at once as long as neither was torn and no look failed (`blind`);
* `Standing`: after a reset that stopped CPU0 nothing can run; after any other the cores `halt_all` is
  through with stand still, were warned of or were passed by.

`Looked` is the loop of `tricore_halt_request` as an invariant, and the reason why `NoStrayHalt` needs both of
its exceptions: an access of the other thread between a look and the edge can undo it.

`TriggersProofs` proves, for any number of slots and addresses and any sizes of watchpoints
(`TriggerAssumption`), types, `NoGhost`, `StepTidy` and `Kept`. A lemma for each call of the allocator
says what all its outcomes share (`AddOutcomes`, `AddWatchOutcomes`, `ClearedOutcomes`, `RemoveOutcomes`): each is
`Sound`, making no trigger without a record but the one slot whose write failed. What a web flash inside the call, or a
lost reset, leaves are `strays` by the same token. `TriggerInv` adds to types and `NoGhost`

* `Tidy`: at which points of a step its records can exist, and that nothing is lent out between steps;
* `Held`: while no write failed, every request that nothing dropped has its slots (`PlacedAt`) or is lent to the step
  (`Lent`), no address has two records, and while one is lent some slot is free or the step's own and
  nothing but the step stands at its address. That is why `tricore_step` can always give back what it
  took, with all slots taken: it clears its own triggers first.

`FabricChainProofs` proves, for chains of any number of blocks and words, a reply FIFO of any depth,
any number of operations and faults, types, `OwnWords` and `NoFalseFailure`. `ChainAssumption` asks that a chunk
fits the FIFO and one dual read, as `DRAIN_CHUNK` does, and that LEVEL's low digit has more than one
value: it is a byte. Host and fabric go on in turns of their own, register by register. `FabricInv` is

* `Running`: what the sequencer can be doing, and what a queued frame means for it;
* `FrameOK`: a write's words are those already in the target and those still in the write FIFO;
* `ChainOK`: the words pushed so far (`Pushed`: taken or waiting) are never more than those due of the
  blocks begun (`Due`), and if they are as many, they are the operation's own, in order;
* `SeenOK`: what the host believes of the FIFO never exceeds it, also between the two bytes of LEVEL;
* `Smooth`, while nothing has failed: as many words are pushed as are due, and before each read of
  a register there is a word to come or one to take.

`OwnWords` is `ChainOK` at the end of a chain, where all words are due. Both
`ChainOK` and `FrameOK` are silent once an operation is `tainted`: a block that an earlier one
gave up may still push. `Smooth` holds the argument against a false failure: the verdict
of a short chain takes an idle fabric and an empty FIFO, twice over two lines since a level may be late.

Only model-checked: the liveness properties (`CatchesUp`, `CallsReturn`, `DrainLeaves`, `SenderStops`,
`JobEnds`, `Reported`, `OpEnds`), since the prover has no rule for fairness. Every other property of a
passing run is a theorem. No module declares a RECURSIVE operator.

## 6. Abstractions

Paragraph and image contents are numbers or classes; statistics are left out, the
losses a record carries are not. The register programming of the miniMCDS is one
step that may fail; the on-target loader is one step per command. Memory is sequentially consistent
(the ring uses acquire and release, the flags of the session are volatile words).
One `dap_trace_read` caller is modelled; `/api/dap_trace/stream` is a second one that
nothing excludes.

A transfer between the two chips does not fail, words stand for bytes, and the
CRC of a reply is its being good or not; raw frames (the diagnostic exchange) are left out. The
target's trigger line, its boot ROM and the order in which a GDB server calls
its target are not under `src/`; they are modelled from how the code uses them and marked external.

**Not modelled**, with the reason in `PROJECT.json`:

* the probe and the bring-up: a sequence of accesses with one caller, whose result every
  other module takes as given;
* web server, settings, files and UI: request and response over ESP-IDF's server, with no
  state of their own beyond what the modelled handlers share;
* the UART bridge, network manager and OTA: event handlers of ESP-IDF around their own flags,
  apart from the debug path;
* LZ4: a pure function over buffers, whose correctness is a matter of its data;
* start-up: order of initialisation, no return;
* CherryDAP, CherryUSB and the display's fonts: vendored or data, and most of the lines of the
  repository.

## 7. Plan

Done, checked and proved: ring, drain, trace session, flash session, websocket, headers, upload, run
control, triggers, link modes and FPGA.

Next, in this order:

1. a second consumer for `TraceRing`, as `/api/dap_trace/stream` is;
2. the properties that hold under conditions (`OneDrainer` and `RunningMeansDraining` with a stop that
   waits, `NeverOvertaken`) as theorems with those conditions;
3. that a trace has its drain for as long as it runs, in `TraceSession`, and that the drain of one
   trace ends before the next begins, both for a start that does not meet a stop;
4. `TraceDrain` over `FabricChain`: its failing read refined by a broken chain;
5. a mutual exclusion as the abstract specification of the lock in `TraceSession`;
6. the UART bridge's websocket, by the pattern of `TraceWs`, and the network manager's retries.
