----------------------------- MODULE TraceSession -----------------------------
(***************************************************************************)
(* Who may use the DAP link, and when: the recursive lock of dap_lock.c,   *)
(* dap_mcds_start and dap_mcds_stop (dap_mcds.c), the drain task's life    *)
(* (dap_trace.c), and the two kinds of flash session (tricore_flash.c).    *)
(*                                                                         *)
(* Tasks: the web server, which runs its handlers one by one; the orphan   *)
(* watcher; the flash task of /api/flash; the GDB server's load; and the   *)
(* drain task.  A single DAP operation takes and releases the lock in one  *)
(* step.  What is read or programmed does not matter here.                 *)
(***************************************************************************)
EXTENDS Naturals, FiniteSets

CONSTANTS
  Actors,     \* which of "http", "watch", "flash" and "gdb" take part
  StopWaits,  \* does vTaskDelay(pdMS_TO_TICKS(2)) sleep?  Not at 100 Hz
  MayFail     \* may the setup of a trace, or a read of FIFONOW, fail?

ASSUME SessionAssumption ==
  /\ Actors \subseteq {"http", "watch", "flash", "gdb"}
  /\ StopWaits \in BOOLEAN /\ MayFail \in BOOLEAN

VARIABLES
  pc,            \* where each actor is; "idle" between two calls
  ret,           \* where dap_mcds_stop returns to
  owner, depth,  \* the recursive lock
  mcdsRunning,   \* dap_mcds.c: s_running
  traceRunning,  \* dap_trace.c: s_running
  drainTask,     \* dap_trace.c: s_task # NULL
  drain,         \* the drain task: "none", "loop", "pass" or "leave"
  inUse,         \* dap_phy_fpga.c: s_in_use
  link,          \* its mode: "attach", "narrow" or "wide" (a trace's), or "flash"
  sWide,         \* dap_mcds.c: s_wide
  kept,          \* history: a clean-up could not undo the trace's mode (see Keep)
  flashActive,   \* s_flash_active
  sessionLocked  \* s_session_locked

lock == <<owner, depth>>
trace == <<mcdsRunning, traceRunning, drainTask, drain>>
mode == <<inUse, link, sWide, kept>>
flash == <<flashActive, sessionLocked>>
sessionVars == <<pc, ret, lock, trace, mode, flash>>

Flashers == Actors \cap {"flash", "gdb"}

SessionInit ==
  /\ pc = [p \in Actors |-> "idle"] /\ ret = [p \in Actors |-> "idle"]
  /\ owner = "none" /\ depth = 0
  /\ mcdsRunning = FALSE /\ traceRunning = FALSE /\ drainTask = FALSE /\ drain = "none"
  /\ inUse = FALSE /\ link = "attach" /\ sWide = FALSE /\ kept = FALSE
  /\ flashActive = FALSE /\ sessionLocked = FALSE

At(p, l) == p \in Actors /\ pc[p] = l
Goto(p, l) == pc' = [pc EXCEPT ![p] = l]

(***************************************************************************)
(* dap_lock.c                                                              *)
(***************************************************************************)
CanLock(p) == owner \in {"none", p}

dap_lock(p) ==
  /\ CanLock(p)
  /\ owner' = p /\ depth' = depth + 1

dap_unlock(p) ==
  /\ depth' = depth - 1
  /\ owner' = IF depth = 1 THEN "none" ELSE p

(***************************************************************************)
(* The drain task: leaves when it finds the drain stopped.                 *)
(***************************************************************************)
DrainLoop ==
  /\ drain = "loop"
  /\ drain' = IF traceRunning THEN "pass" ELSE "leave"
  /\ UNCHANGED <<pc, ret, lock, mcdsRunning, traceRunning, drainTask, mode, flash>>

(* The reads of drain_to, each of which needs the lock. *)
DrainPass ==
  /\ drain = "pass" /\ owner = "none"
  /\ drain' = "loop"
  /\ UNCHANGED <<pc, ret, lock, mcdsRunning, traceRunning, drainTask, mode, flash>>

DrainLeave ==
  /\ drain = "leave"
  /\ drainTask' = FALSE /\ drain' = "none"
  /\ UNCHANGED <<pc, ret, lock, mcdsRunning, traceRunning, mode, flash>>

(***************************************************************************)
(* The link's mode.  A trace's clean-up leaves it alone while the fabric   *)
(* is out of use, and leaves wide mode on when s_wide says narrow: a start *)
(* that asked for one line, or found the fabric out of use, while the stop *)
(* of a wide trace was still on its way has said so.                       *)
(***************************************************************************)
TraceModes == {"narrow", "wide"}

Keep(lost) == kept' = (link' \in TraceModes /\ (kept \/ lost))

(* flash_clock, and the clean-up's write of the attach divider. *)
SetDiv(speed) == link' = IF link = "wide" THEN "wide" ELSE speed

exit_modes ==
  /\ link' = IF link = "wide" /\ sWide THEN "narrow" ELSE link
  /\ sWide' = FALSE

restore_link ==
  IF inUse
  THEN /\ link' = IF link = "wide" /\ ~sWide THEN "wide" ELSE "attach"
       /\ sWide' = FALSE
       /\ Keep(FALSE)
  ELSE UNCHANGED <<link, sWide>> /\ Keep(TRUE)

(* dap_phy_fpga_attach: narrow at the attach clock, after a reset of the   *)
(* target where it does not answer narrow; the fabric is in use or, if the *)
(* target stays silent, put out of use.                                    *)
AttachBegins == inUse' = TRUE /\ link' = "attach" /\ kept' = FALSE
AttachEnds == inUse' = TRUE \/ (MayFail /\ inUse' = FALSE)

(***************************************************************************)
(* dap_mcds_stop, called by any actor; returns to ret[p].                  *)
(***************************************************************************)
CallStop(p, back) ==
  /\ ret' = [ret EXCEPT ![p] = back]
  /\ Goto(p, "stop")

(* The atomic exchange: one caller stops a trace, the others return. *)
StopOnce(p) ==
  /\ At(p, "stop")
  /\ mcdsRunning' = FALSE
  /\ Goto(p, IF mcdsRunning THEN "flush" ELSE ret[p])
  /\ UNCHANGED <<ret, lock, traceRunning, drainTask, drain, mode, flash>>

(* FIFOCTL SET, and the wait for the FIFO to flush: accesses that each need *)
(* the lock.                                                                *)
StopFlush(p) ==
  /\ At(p, "flush") /\ CanLock(p)
  /\ Goto(p, "halt")
  /\ UNCHANGED <<ret, lock, trace, mode, flash>>

(* Mutant: the wait has no limit. *)
StopWaitedForever(p) ==
  /\ At(p, "wait") /\ ~drainTask
  /\ Goto(p, "collect")
  /\ UNCHANGED <<ret, lock, trace, mode, flash>>

(* dap_trace_stop; its wait ends when the task has left, or when the 100   *)
(* turns are up: at once if they do not sleep, else when the drain cannot  *)
(* leave because someone holds the lock or has started a trace again.      *)
StopDrain(p) ==
  /\ At(p, "halt")
  /\ traceRunning' = FALSE
  /\ Goto(p, "wait")
  /\ UNCHANGED <<ret, lock, mcdsRunning, drainTask, drain, mode, flash>>

StopWaited(p) ==
  /\ At(p, "wait")
  /\ ~drainTask \/ ~StopWaits \/ owner # "none" \/ traceRunning
  /\ Goto(p, "collect")
  /\ UNCHANGED <<ret, lock, trace, mode, flash>>

(* dap_trace_finish: running again while its own drain_to runs; nothing if  *)
(* FIFONOW cannot be read.                                                  *)
StopFinish(p) ==
  /\ At(p, "collect") /\ dap_lock(p)
  /\ \/ traceRunning' = TRUE /\ Goto(p, "finish")
     \/ MayFail /\ Goto(p, "reset") /\ UNCHANGED traceRunning
  /\ UNCHANGED <<ret, mcdsRunning, drainTask, drain, mode, flash>>

(* Mutant: the finish leaves the drain running. *)
StopFinishedRunning(p) ==
  /\ At(p, "finish") /\ Goto(p, "reset")
  /\ UNCHANGED <<ret, lock, trace, mode, flash>>

StopFinished(p) ==
  /\ At(p, "finish")
  /\ traceRunning' = FALSE
  /\ Goto(p, "reset")
  /\ UNCHANGED <<ret, lock, mcdsRunning, drainTask, drain, mode, flash>>

(* Mutant: restore_link is left out. *)
StopResetKeepsLink(p) ==
  /\ At(p, "reset") /\ dap_unlock(p)
  /\ Goto(p, ret[p])
  /\ UNCHANGED <<ret, trace, mode, flash>>

(* mcds_reset, restore_link, dap_unlock. *)
StopReset(p) ==
  /\ At(p, "reset") /\ dap_unlock(p)
  /\ restore_link
  /\ Goto(p, ret[p])
  /\ UNCHANGED <<ret, trace, inUse, flash>>

Stop(p) ==
  \/ StopOnce(p) \/ StopFlush(p) \/ StopDrain(p) \/ StopWaited(p)
  \/ StopFinish(p) \/ StopFinished(p) \/ StopReset(p)

(***************************************************************************)
(* The web server: /api/mcds/start and /api/mcds/stop.                     *)
(***************************************************************************)
tricore_flash_active == flashActive \/ sessionLocked

(* start_handler: refused while a flash is in progress. *)
StartChecked ==
  /\ At("http", "idle") /\ ~tricore_flash_active
  /\ Goto("http", "start")
  /\ UNCHANGED <<ret, lock, trace, mode, flash>>

StartStops ==
  /\ At("http", "start")
  /\ IF mcdsRunning THEN CallStop("http", "setup") ELSE Goto("http", "setup") /\ UNCHANGED ret
  /\ UNCHANGED <<lock, trace, mode, flash>>

(* Under the lock: the link's mode, if the fabric is in use; then configure *)
(* and tram_init, some hundred accesses, which may fail on the way.         *)
StartArm ==
  /\ At("http", "setup") /\ dap_lock("http")
  /\ \/ inUse /\ link' \in TraceModes /\ sWide' = (link' = "wide")
     \/ inUse /\ SetDiv("narrow") /\ sWide' = FALSE
     \/ ~inUse /\ sWide' = FALSE /\ UNCHANGED link
  /\ kept' = (link' = "wide" /\ ~sWide')
  /\ \/ Goto("http", "begin")
     \/ MayFail /\ Goto("http", "failed")
  /\ UNCHANGED <<ret, trace, inUse, flash>>

(* dap_trace_start: trace_begin ... *)
StartBegin ==
  /\ At("http", "begin")
  /\ \/ traceRunning' = TRUE /\ Goto("http", "create")
     \/ MayFail /\ Goto("http", "failed") /\ UNCHANGED traceRunning
  /\ UNCHANGED <<ret, lock, mcdsRunning, drainTask, drain, mode, flash>>

(* ... and a drain task, unless there is one. *)
StartTask ==
  /\ At("http", "create")
  /\ \/ drainTask /\ Goto("http", "unlock") /\ UNCHANGED <<traceRunning, drainTask, drain>>
     \/ /\ ~drainTask
        /\ drainTask' = TRUE /\ drain' = "loop"
        /\ Goto("http", "unlock") /\ UNCHANGED traceRunning
     \/ /\ ~drainTask /\ MayFail
        /\ traceRunning' = FALSE
        /\ Goto("http", "failed") /\ UNCHANGED <<drainTask, drain>>
  /\ UNCHANGED <<ret, lock, mcdsRunning, mode, flash>>

StartUnlock ==
  /\ At("http", "unlock") /\ dap_unlock("http")
  /\ Goto("http", "started")
  /\ UNCHANGED <<ret, trace, mode, flash>>

StartRunning ==
  /\ At("http", "started")
  /\ mcdsRunning' = TRUE
  /\ Goto("http", "idle")
  /\ UNCHANGED <<ret, lock, traceRunning, drainTask, drain, mode, flash>>

StartFailed ==
  /\ At("http", "failed") /\ dap_unlock("http")
  /\ Goto("http", "restore")
  /\ UNCHANGED <<ret, trace, mode, flash>>

(* restore_link again, without the lock this time: dap_fast_exit and        *)
(* dap_wide_exit take it for themselves, the write of the divider does not. *)
StartSkips ==
  /\ At("http", "restore")
  /\ IF inUse THEN Goto("http", "modes") /\ UNCHANGED kept
              ELSE Goto("http", "idle") /\ kept' = (kept \/ link \in TraceModes)
  /\ UNCHANGED <<ret, lock, trace, inUse, link, sWide, flash>>

StartExitModes ==
  /\ At("http", "modes") /\ owner = "none"
  /\ exit_modes
  /\ Goto("http", "divider")
  /\ UNCHANGED <<ret, lock, trace, inUse, kept, flash>>

StartSetDiv ==
  /\ At("http", "divider")
  /\ SetDiv("attach") /\ Keep(FALSE)
  /\ Goto("http", "idle")
  /\ UNCHANGED <<ret, lock, trace, inUse, sWide, flash>>

Start ==
  \/ StartStops \/ StartArm \/ StartBegin \/ StartTask \/ StartUnlock \/ StartRunning
  \/ StartFailed \/ StartSkips \/ StartExitModes \/ StartSetDiv

(* stop_handler, and the watcher on a trace nobody reads. *)
StopAsked(p) ==
  /\ At(p, "idle") /\ p \in {"http", "watch"}
  /\ p = "watch" => mcdsRunning
  /\ CallStop(p, "idle")
  /\ UNCHANGED <<lock, trace, mode, flash>>

(***************************************************************************)
(* Attaches: the web server's probe under the lock, and the GDB server's   *)
(* reset, whose attach_dap does not take it.                               *)
(***************************************************************************)
WebAttach ==
  /\ At("http", "idle") /\ owner = "none"
  /\ link' = "attach" /\ kept' = FALSE /\ AttachEnds
  /\ UNCHANGED <<pc, ret, lock, trace, sWide, flash>>

GdbAttach ==
  /\ At("gdb", "idle")
  /\ AttachBegins
  /\ Goto("gdb", "attach")
  /\ UNCHANGED <<ret, lock, trace, sWide, flash>>

GdbAttached ==
  /\ At("gdb", "attach")
  /\ AttachEnds
  /\ Goto("gdb", "idle")
  /\ UNCHANGED <<ret, lock, trace, link, sWide, kept, flash>>

(***************************************************************************)
(* The flash sessions: tricore_flash_write in the flash task, and the GDB  *)
(* server's tricore_flash_begin ... tricore_flash_end across packets.      *)
(***************************************************************************)
FlashAsked ==
  /\ At("flash", "idle")
  /\ flashActive' = TRUE
  /\ CallStop("flash", "write")
  /\ UNCHANGED <<lock, trace, mode, sessionLocked>>

(* tricore_flash_write takes the lock; tricore_flash_begin inside it then  *)
(* looks for a trace again.                                                *)
FlashLock ==
  /\ At("flash", "write") /\ dap_lock("flash")
  /\ IF sessionLocked THEN Goto("flash", "session") /\ UNCHANGED ret
                      ELSE CallStop("flash", "session")
  /\ UNCHANGED <<trace, mode, flash>>

GdbAsked ==
  /\ At("gdb", "idle")
  /\ IF sessionLocked THEN Goto("gdb", "session") /\ UNCHANGED ret
                      ELSE CallStop("gdb", "session")
  /\ UNCHANGED <<lock, trace, mode, flash>>

(* tricore_flash_begin under the lock: link_up attaches, the target is      *)
(* reset and halted, and the clock goes up.                                 *)
SessionBegin(p) ==
  /\ At(p, "session") /\ p \in Flashers
  /\ dap_lock(p)
  /\ sessionLocked' = TRUE
  /\ link' = "flash" /\ kept' = FALSE /\ AttachEnds
  /\ Goto(p, "program")
  /\ UNCHANGED <<ret, trace, sWide, flashActive>>

(* The session ends, or fails: session_unlock, and the outer unlock. *)
SessionEnd(p) ==
  /\ At(p, "program")
  /\ sessionLocked' = FALSE
  /\ SetDiv("attach") /\ Keep(FALSE)
  /\ dap_unlock(p)
  /\ Goto(p, IF p = "flash" THEN "written" ELSE "idle")
  /\ UNCHANGED <<ret, trace, inUse, sWide, flashActive>>

FlashWritten ==
  /\ At("flash", "written") /\ dap_unlock("flash")
  /\ flashActive' = FALSE
  /\ Goto("flash", "idle")
  /\ UNCHANGED <<ret, trace, mode, sessionLocked>>

Session(p) == SessionBegin(p) \/ SessionEnd(p)

DrainTask == DrainLoop \/ DrainPass \/ DrainLeave

(* The steps of a call that actor p has begun. *)
Call(p) ==
  \/ Stop(p) \/ Session(p)
  \/ p = "http" /\ Start
  \/ p = "flash" /\ (FlashLock \/ FlashWritten)
  \/ p = "gdb" /\ GdbAttached

SessionNext ==
  \/ DrainTask
  \/ \E p \in Actors : Call(p) \/ StopAsked(p)
  \/ StartChecked \/ FlashAsked \/ GdbAsked \/ WebAttach \/ GdbAttach

(***************************************************************************)
(* Fairness: FreeRTOS runs every ready task (the drain has core 0 to       *)
(* itself, the others may run on core 1) and wakes a task that waits for   *)
(* the lock at every unlock, hence strong fairness of the steps that take  *)
(* it.  Nothing makes a client ask for anything.                           *)
(***************************************************************************)
Fairness == SF_sessionVars(DrainTask) /\ \A p \in Actors : SF_sessionVars(Call(p))

SessionSpec == SessionInit /\ [][SessionNext]_sessionVars /\ Fairness

(***************************************************************************)
(* Properties.                                                             *)
(***************************************************************************)
Labels ==
  {"idle", "stop", "flush", "halt", "wait", "collect", "finish", "reset", "start", "setup",
   "begin", "create", "unlock", "started", "failed", "restore", "modes", "divider",
   "write", "attach", "session", "program", "written"}

(* The tasks' places, the flags and the lock have their types; the lock's    *)
(* depth never runs away: at most the write, its session and a stop nest.    *)
SessionTypeOK ==
  /\ pc \in [Actors -> Labels] /\ ret \in [Actors -> {"idle", "setup", "write", "session"}]
  /\ owner \in Actors \cup {"none"} /\ depth \in 0 .. 2
  /\ mcdsRunning \in BOOLEAN /\ traceRunning \in BOOLEAN /\ drainTask \in BOOLEAN
  /\ drain \in {"none", "loop", "pass", "leave"}
  /\ inUse \in BOOLEAN /\ link \in {"attach", "narrow", "wide", "flash"}
  /\ sWide \in BOOLEAN /\ kept \in BOOLEAN
  /\ flashActive \in BOOLEAN /\ sessionLocked \in BOOLEAN

Quiet == \A p \in Actors : pc[p] = "idle"

(* Whatever raced, once every call has returned and no trace runs the lock   *)
(* is free, no drain is asked for, and the link is back in the mode "the     *)
(* rest of the probe expects" (restore_link), unless the clean-up found the  *)
(* fabric out of use or a start had made it forget wide mode.                *)
CleanWhenQuiet ==
  Quiet /\ ~mcdsRunning =>
    /\ owner = "none" /\ depth = 0
    /\ ~traceRunning
    /\ link = "attach" \/ kept
    /\ ~tricore_flash_active

(* restore_link's comment, "back to the narrow attach clock the rest of the  *)
(* probe expects", without an exception: does not hold.                      *)
LinkBack == Quiet /\ ~mcdsRunning => link = "attach"

(* dap_mcds_start "arm tracing and start the TRAM drain": a trace that is    *)
(* reported as running has its drain task.                                   *)
RunningMeansDraining ==
  Quiet /\ mcdsRunning => traceRunning /\ drain \in {"loop", "pass"}

(* dap_trace_finish runs "after tracing was flushed and the drain stopped":  *)
(* its drain_to and the drain task's, which share s_next_par and the buffer, *)
(* never run at the same time.                                               *)
OneDrainer ==
  \A p \in Actors : pc[p] = "finish" => drain # "pass"

(* tricore_flash.c: a flash stops the trace first, so that no drain competes *)
(* for the DAP while the target is reset and programmed.                     *)
NoTraceUnderFlash ==
  \A p \in Flashers : pc[p] = "program" => ~traceRunning

(* A session programs at the flash clock from its begin to its end.          *)
FlashClockKept ==
  \A p \in Flashers : pc[p] = "program" => link # "attach"

(* Every call returns: no lock is left taken, no stop waits for a drain that *)
(* waits for it ("do not hold the DAP lock here"), no handler hangs.         *)
CallsReturn == \A p \in Actors : pc[p] # "idle" ~> pc[p] = "idle"

(* A drain that is stopped for good leaves, and gives core 0 back.           *)
DrainLeaves == <>[](Quiet /\ ~mcdsRunning) => <>[](drain = "none")
=============================================================================
