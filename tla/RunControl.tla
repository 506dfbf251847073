----------------------------- MODULE RunControl -----------------------------
(***************************************************************************)
(* Run control of the TriCore cores, components/dap_probe/tricore.c, with  *)
(* its two users: the GDB target of tricore_bmp.c, whose thread takes the  *)
(* DAP lock for one access at a time, and the web flasher's session, which *)
(* holds it throughout (tricore_flash.c, tricore_flash_loader.c).          *)
(*                                                                         *)
(* A core is stopped over a trigger line all cores share.  EXEVT arms a    *)
(* core, TRC routes the line to it, TLC forces the line active; the edge   *)
(* stops every core armed and routed, a little later.  An active line      *)
(* makes no further edge, and holds a core that is told to resume.  That   *)
(* behaviour of the target is external, as the comments of tricore.c and   *)
(* tricore.h describe it; so is the order in which the GDB server calls    *)
(* the target.  A core other than CPU0 comes out of a reset in boot halt,  *)
(* until CPU0's software starts it.  Every DAP access is one step and may  *)
(* fail; a failed write may have taken effect.  Breakpoints and stepping   *)
(* are in Triggers.                                                        *)
(***************************************************************************)
EXTENDS Integers, Sequences, SequencesExt, FiniteSets

CONSTANTS
  CoreOrder,   \* the cores, CPU0 first
  MaxFaults,   \* bound: accesses that fail
  MaxFlash     \* bound: web flash sessions

Cores == ToSet(CoreOrder)
Cpu0 == Head(CoreOrder)
None == "none"
Users == {"gdb", "flash"}

ASSUME RunAssumption ==
  /\ CoreOrder \in Seq(Cores) /\ CoreOrder # <<>>
  /\ MaxFaults \in Nat /\ MaxFlash \in Nat

VARIABLES
  state,     \* target: each core runs, is about to stop, has stopped, or was never started
  exevt,     \* target: EXEVT of each core is armed
  route,     \* target: BRKIN of each core listens to the line
  tlc,       \* target: the line is forced active
  present,   \* tricore_present: the cores the last discovery found
  haltLine,  \* s_halt_line: a halt of the core is in flight
  resumed,   \* s_resumed: GDB resumed the core
  lock,      \* who keeps the DAP lock between accesses
  at,        \* per user: where its thread is
  core,      \* per user: the core it works on
  others,    \* per user: the cores a request, or a discovery, has yet to go through, in order
  inHalt,    \* per user: the request is part of tricore_halt
  cur,       \* GDB: the core attached, or None
  attaching, \* GDB: inside tricore_attach
  todo,      \* flash: cores halt_all has yet to stop, or the end of the session to start
  flashes,   \* flash: sessions so far
  warned,    \* flash: cores that would not halt
  faults,    \* failed accesses so far
  lineFault, \* history: a write of TLC failed
  loose,     \* history: the reset of the flash session did not stop CPU0
  passed,    \* history: cores halt_all took for absent or not started
  blind,     \* history: an armed core was not looked at, or could not be disarmed
  torn,      \* history: a flash session began inside a halt request of GDB's
  stray      \* history: an edge stopped a core nobody was stopping

target == <<state, exevt, route, tlc>>
firmware == <<present, haltLine, resumed, lock>>
threads == <<at, core, others, inHalt, cur, attaching, todo, flashes, warned>>
history == <<faults, lineFault, loose, passed, blind, torn, stray>>
vars == <<target, firmware, threads, history>>

RequestPcs == {"look", "disarm", "arm", "route", "tlc", "clear", "assert"}
Pcs == RequestPcs \cup
       {"idle", "check", "wait", "release", "listen", "poll", "unline", "again",
        "told", "resume", "letgo", "giveup", "forget", "scan",
        "reset", "discover", "next", "failed", "drop", "clear0", "program", "finish",
        "rediscover", "start"}

TypeOK ==
  /\ state \in [Cores -> {"run", "stopping", "halt", "boot"}]
  /\ exevt \in [Cores -> BOOLEAN] /\ route \in [Cores -> BOOLEAN] /\ tlc \in BOOLEAN
  /\ present \subseteq Cores
  /\ haltLine \in [Cores -> BOOLEAN] /\ resumed \in [Cores -> BOOLEAN]
  /\ lock \in {None, "flash"}
  /\ at \in [Users -> Pcs] /\ core \in [Users -> Cores]
  /\ others \in [Users -> Seq(Cores)] /\ inHalt \in [Users -> BOOLEAN]
  /\ cur \in Cores \cup {None} /\ attaching \in BOOLEAN
  /\ todo \in Seq(Cores) /\ flashes \in 0..MaxFlash /\ faults \in 0..MaxFaults
  /\ warned \subseteq Cores /\ passed \subseteq Cores
  /\ {lineFault, loose, blind, torn, stray} \subseteq BOOLEAN

Init ==
  /\ state \in [Cores -> {"run", "boot"}] /\ state[Cpu0] = "run"
  /\ exevt = [c \in Cores |-> FALSE] /\ route = [c \in Cores |-> FALSE] /\ tlc = FALSE
  /\ present = Cores
  /\ haltLine = [c \in Cores |-> FALSE] /\ resumed = [c \in Cores |-> FALSE]
  /\ lock = None
  /\ at = [u \in Users |-> "idle"] /\ core = [u \in Users |-> Cpu0]
  /\ others = [u \in Users |-> <<>>] /\ inHalt = [u \in Users |-> u = "flash"]
  /\ cur = None /\ attaching = FALSE /\ todo = <<>> /\ flashes = 0 /\ warned = {}
  /\ faults = 0 /\ lineFault = FALSE /\ loose = FALSE /\ passed = {} /\ blind = FALSE
  /\ torn = FALSE /\ stray = FALSE

(***************************************************************************)
(* One access to the target.                                               *)
(***************************************************************************)
(* Every access takes the lock, which a flash session keeps to itself.     *)
Access(u, pc) == at[u] = pc /\ lock \in {None, u}

Fault == faults < MaxFaults /\ faults' = faults + 1

Goto(u, pc) == at' = [at EXCEPT ![u] = pc]

Halted(c) == state[c] = "halt"

(* Read DBGSR: tricore_is_halted takes an unreadable status for "running", *)
(* and so does it a core that discovery did not find (tricore_core_ok).    *)
(* What a core in boot halt shows is left open.                            *)
SeesHalted(c) == c \in present /\ state[c] \in {"halt", "boot"} /\ UNCHANGED faults
SeesRunning(c) == \/ (c \notin present \/ ~Halted(c)) /\ UNCHANGED faults
                  \/ c \in present /\ Fault

(* Read SYSCON, tricore_core_started: an unreadable core was not started.  *)
SeesStarted(c) == c \in present /\ state[c] # "boot" /\ UNCHANGED faults
SeesUnstarted(c) == \/ (c \notin present \/ state[c] = "boot") /\ UNCHANGED faults
                    \/ c \in present /\ Fault

(* The cores an edge of the line stops.                                    *)
Struck == {c \in Cores : exevt[c] /\ route[c] /\ state[c] = "run"}

(* The cores somebody is stopping.                                         *)
Wanted == {core[u] : u \in {v \in Users : at[v] \in RequestPcs}}
          \cup {c \in Cores : haltLine[c]}

(* A write of TLC.  Forcing an idle line makes the edge. *)
Drive(on) ==
  /\ tlc' = on
  /\ state' = [c \in Cores |-> IF on /\ ~tlc /\ c \in Struck THEN "stopping" ELSE state[c]]
  /\ stray' = (stray \/ (on /\ ~tlc /\ ~(Struck \subseteq Wanted)))

(* An edge takes its time to stop a core. *)
Stops(c) == /\ state[c] = "stopping"
            /\ state' = [state EXCEPT ![c] = "halt"]
            /\ UNCHANGED <<exevt, route, tlc, firmware, threads, history>>

(* tricore_request_resume: an active line holds a core listening to it. *)
Held(c) == tlc /\ exevt[c] /\ route[c]
Runs(c) == state' = [state EXCEPT ![c] = IF @ = "boot" \/ (@ = "halt" /\ Held(c)) THEN @ ELSE "run"]

(* CPU0's software starts another core. *)
Starts(c) == /\ state[Cpu0] = "run" /\ state[c] = "boot"
             /\ state' = [state EXCEPT ![c] = IF Held(c) THEN "halt" ELSE "run"]
             /\ UNCHANGED <<exevt, route, tlc, firmware, threads, history>>

(* A reset may take EXEVT with it; the line and its routing stay.  With    *)
(* halt-after-reset CPU0 stops at once.  The write that asks for it is not *)
(* checked: where it is lost the cores go on as they were.                 *)
Restarts(stopped) ==
  /\ state' = [c \in Cores |-> IF c # Cpu0 THEN "boot" ELSE IF stopped THEN "halt" ELSE "run"]
  /\ exevt' \in {exevt, [c \in Cores |-> FALSE]}
ResetLost == Fault /\ UNCHANGED <<state, exevt>>

(* tricore_discover by one who holds the lock throughout: a core that does *)
(* not answer is not there, and nothing is if OSTATE cannot be read.       *)
Discover == \/ present' = Cores /\ UNCHANGED faults
            \/ Fault /\ present' \in {{}} \cup {Cores \ {c} : c \in Cores}

(***************************************************************************)
(* tricore_halt_request.                                                   *)
(***************************************************************************)
(* How it ends: tricore_halt waits for the core or gives up without        *)
(* releasing the line, GDB's callback returns to its poll.                 *)
After(u, inside, ok) ==
  CASE inside /\ ok -> "wait"
    [] inside /\ ~ok /\ u = "gdb" -> "again"
    [] inside /\ ~ok /\ u = "flash" -> "failed"
    [] OTHER -> "poll"

(* It begins, unless discovery did not find the core. *)
Request(u, c, inside) ==
  /\ Goto(u, IF c \in present THEN "look" ELSE After(u, inside, FALSE))
  /\ core' = [core EXCEPT ![u] = c]
  /\ others' = [others EXCEPT ![u] = CoreOrder]
  /\ inHalt' = [inHalt EXCEPT ![u] = inside]

RequestFails(u) == Fault /\ Goto(u, After(u, inHalt[u], FALSE))

(* Mutant: the other cores are left armed. *)
LookAway(u) ==
  /\ Access(u, "look") /\ Goto(u, "arm")
  /\ UNCHANGED <<target, firmware, core, others, inHalt, cur, attaching, todo, flashes, warned,
                 history>>

(* Is the next of the other cores started, running, and armed by an        *)
(* earlier halt?  One that was not found, or not started yet, is passed by. *)
Look(u) ==
  /\ Access(u, "look")
  /\ \/ /\ others[u] = <<>> /\ Goto(u, "arm")
        /\ UNCHANGED <<others, faults, blind>>
     \/ LET o == Head(others[u])
            skip == others' = [others EXCEPT ![u] = Tail(@)] /\ UNCHANGED at
        IN  /\ others[u] # <<>>
            /\ \/ /\ o # core[u] /\ exevt[o] /\ o \in present /\ state[o] # "boot"
                  /\ SeesRunning(o)
                  /\ Goto(u, "disarm") /\ UNCHANGED <<others, blind>>
               \/ (o = core[u] \/ Halted(o) \/ ~exevt[o]) /\ skip /\ UNCHANGED <<faults, blind>>
               \/ o # core[u] /\ exevt[o] /\ SeesUnstarted(o) /\ blind' = TRUE /\ skip
  /\ UNCHANGED <<target, firmware, core, inHalt, cur, attaching, todo, flashes, warned,
                 lineFault, loose, passed, torn, stray>>

(* The write that clears it is not checked. *)
Disarm(u) ==
  /\ Access(u, "disarm") /\ Goto(u, "look")
  /\ others' = [others EXCEPT ![u] = Tail(@)]
  /\ \/ exevt' = [exevt EXCEPT ![Head(others[u])] = FALSE] /\ UNCHANGED <<faults, blind>>
     \/ Fault /\ blind' = TRUE /\ UNCHANGED exevt
  /\ UNCHANGED <<state, route, tlc, firmware, core, inHalt, cur, attaching, todo, flashes,
                 warned, lineFault, loose, passed, torn, stray>>

(* EXEVT of the core itself, then the routing. *)
Arm(u) ==
  /\ Access(u, "arm")
  /\ \/ exevt' = [exevt EXCEPT ![core[u]] = TRUE] /\ Goto(u, "route") /\ UNCHANGED faults
     \/ RequestFails(u) /\ exevt' \in {exevt, [exevt EXCEPT ![core[u]] = TRUE]}
  /\ UNCHANGED <<state, route, tlc, firmware, core, others, inHalt, cur, attaching, todo,
                 flashes, warned, lineFault, loose, passed, blind, torn, stray>>

Route(u) ==
  /\ Access(u, "route")
  /\ \/ route' = [route EXCEPT ![core[u]] = TRUE] /\ Goto(u, "tlc") /\ UNCHANGED faults
     \/ RequestFails(u) /\ route' \in {route, [route EXCEPT ![core[u]] = TRUE]}
  /\ UNCHANGED <<state, exevt, tlc, firmware, core, others, inHalt, cur, attaching, todo,
                 flashes, warned, lineFault, loose, passed, blind, torn, stray>>

(* TLC is read; from here the halt is in flight.  What will be put back is *)
(* the released line, whatever was read.                                   *)
ReadTlc(u) ==
  /\ Access(u, "tlc")
  /\ \/ haltLine' = [haltLine EXCEPT ![core[u]] = TRUE] /\ Goto(u, "clear") /\ UNCHANGED faults
     \/ RequestFails(u) /\ UNCHANGED haltLine
  /\ UNCHANGED <<target, present, resumed, lock, core, others, inHalt, cur, attaching, todo,
                 flashes, warned, lineFault, loose, passed, blind, torn, stray>>

(* A write of TLC within the request, which goes on to pc or fails. *)
WriteTlc(u, on, pc) ==
  /\ \/ Drive(on) /\ Goto(u, pc) /\ UNCHANGED <<faults, lineFault>>
     \/ /\ RequestFails(u) /\ lineFault' = TRUE
        /\ Drive(on) \/ UNCHANGED <<state, tlc, stray>>
  /\ UNCHANGED <<exevt, route, firmware, core, others, inHalt, cur, attaching, todo, flashes,
                 warned, loose, passed, blind, torn>>

ClearLine(u) == Access(u, "clear") /\ WriteTlc(u, FALSE, "assert")

AssertLine(u) == Access(u, "assert") /\ WriteTlc(u, TRUE, After(u, inHalt[u], TRUE))

(***************************************************************************)
(* tricore_halt and the release of the line.                               *)
(***************************************************************************)
(* Mutant: the record goes first, and the check of it then finds nothing. *)
UnlineLate(c) ==
  /\ haltLine' = [haltLine EXCEPT ![c] = FALSE]
  /\ UNCHANGED <<state, tlc, faults, lineFault, stray>>

(* Release the line of the core: the write is not checked. *)
Unline(c) ==
  /\ haltLine' = [haltLine EXCEPT ![c] = FALSE]
  /\ IF haltLine[c]
     THEN \/ Drive(FALSE) /\ UNCHANGED <<faults, lineFault>>
          \/ Fault /\ lineFault' = TRUE /\ UNCHANGED <<state, tlc, stray>>
     ELSE UNCHANGED <<state, tlc, faults, lineFault, stray>>

(* tricore_halt_release, which leaves a core alone that was not found. *)
ReleaseLine(c) == IF c \in present THEN Unline(c)
                  ELSE UNCHANGED <<haltLine, state, tlc, faults, lineFault, stray>>

(* What follows tricore_halt. *)
Then(u, stopped) == CASE u = "gdb" -> "again"
                      [] u = "flash" /\ stopped -> "next"
                      [] OTHER -> "failed"

(* A core already stopped is left alone, its line with it. *)
Check(u) ==
  /\ Access(u, "check")
  /\ \/ /\ SeesHalted(core[u]) /\ Goto(u, Then(u, TRUE))
        /\ UNCHANGED <<core, others, inHalt>>
     \/ SeesRunning(core[u]) /\ Request(u, core[u], TRUE)
  /\ UNCHANGED <<target, firmware, cur, attaching, todo, flashes, warned, lineFault, loose,
                 passed, blind, torn, stray>>

(* An edge under way arrives before the timeout. *)
Wait(u) ==
  /\ Access(u, "wait")
  /\ state[core[u]] # "stopping"
  /\ Goto(u, "release")
  /\ UNCHANGED <<target, firmware, core, others, inHalt, cur, attaching, todo, flashes, warned,
                 history>>

Release(u) ==
  /\ Access(u, "release")
  /\ Unline(core[u]) /\ Goto(u, Then(u, core[u] \in present /\ Halted(core[u])))
  /\ UNCHANGED <<exevt, route, present, resumed, lock, core, others, inHalt, cur, attaching,
                 todo, flashes, warned, loose, passed, blind, torn>>

Halting(u) == \/ Look(u) \/ Disarm(u) \/ Arm(u) \/ Route(u) \/ ReadTlc(u) \/ ClearLine(u)
              \/ AssertLine(u) \/ Check(u) \/ Wait(u) \/ Release(u)

(***************************************************************************)
(* GDB: tricore_bmp.c under the server, which polls a running target and   *)
(* takes no command meanwhile but an interrupt.  "told": the server holds  *)
(* the core for halted.                                                    *)
(***************************************************************************)
gdbKeeps == <<present, lock, todo, flashes, warned>>

(* tricore_attach, from no target or from another one: only a core that    *)
(* was started, as far as the probe can see, is attached to.               *)
Attach(c) ==
  /\ at["gdb"] \in {"idle", "told"} /\ lock = None
  /\ \/ /\ SeesStarted(c)
        /\ cur' = c /\ attaching' = TRUE
        /\ resumed' = [resumed EXCEPT ![c] = FALSE]
        /\ Request("gdb", c, FALSE)
     \/ /\ SeesUnstarted(c)
        /\ cur' = None /\ Goto("gdb", "idle")
        /\ UNCHANGED <<attaching, resumed, core, others, inHalt>>
  /\ UNCHANGED <<target, haltLine, gdbKeeps, lineFault, loose, passed, blind, torn, stray>>

(* Between polls the user may interrupt: tricore_halt_request_cb. *)
Listen ==
  /\ at["gdb"] = "listen"
  /\ \/ Goto("gdb", "poll") /\ UNCHANGED <<core, others, inHalt>>
     \/ ~attaching /\ Request("gdb", cur, FALSE)
     \/ attaching /\ Goto("gdb", "giveup") /\ UNCHANGED <<core, others, inHalt>>
  /\ UNCHANGED <<target, firmware, cur, attaching, todo, flashes, warned, history>>

(* Mutant: a running core is reported as running, whoever resumed it. *)
PollOnly ==
  /\ Access("gdb", "poll")
  /\ \/ SeesHalted(cur) /\ Goto("gdb", "unline")
     \/ SeesRunning(cur) /\ Goto("gdb", "listen")
  /\ UNCHANGED <<target, firmware, core, inHalt, others, cur, attaching, todo, flashes, warned,
                 lineFault, loose, passed, blind, torn, stray>>

(* tricore_halt_poll_cb: stopped, or running though GDB never resumed it   *)
(* (tricore_halt follows), or running.                                     *)
Poll ==
  /\ Access("gdb", "poll")
  /\ \/ SeesHalted(cur) /\ Goto("gdb", "unline") /\ UNCHANGED core
     \/ /\ SeesRunning(cur) /\ core' = [core EXCEPT !["gdb"] = cur]
        /\ Goto("gdb", IF resumed[cur] THEN "listen" ELSE "check")
  /\ UNCHANGED <<target, firmware, others, inHalt, cur, attaching, todo, flashes, warned,
                 lineFault, loose, passed, blind, torn, stray>>

(* tricore_halt_poll found it stopped and releases the line. *)
PollReleases ==
  /\ Access("gdb", "unline")
  /\ Unline(cur)
  /\ resumed' = [resumed EXCEPT ![cur] = FALSE]
  /\ attaching' = FALSE /\ Goto("gdb", "told")
  /\ UNCHANGED <<exevt, route, core, others, inHalt, cur, gdbKeeps, loose, passed, blind, torn>>

(* After tricore_halt: is it halted now? *)
PollAgain ==
  /\ Access("gdb", "again")
  /\ \/ SeesHalted(cur) /\ attaching' = FALSE /\ Goto("gdb", "told")
     \/ SeesRunning(cur) /\ Goto("gdb", "listen") /\ UNCHANGED attaching
  /\ inHalt' = [inHalt EXCEPT !["gdb"] = FALSE]
  /\ UNCHANGED <<target, firmware, core, others, cur, todo, flashes, warned, lineFault, loose,
                 passed, blind, torn, stray>>

(* The attach failed: tricore_halt_release. *)
GiveUp ==
  /\ Access("gdb", "giveup")
  /\ ReleaseLine(cur)
  /\ attaching' = FALSE /\ cur' = None /\ Goto("gdb", "idle")
  /\ UNCHANGED <<exevt, route, resumed, core, others, inHalt, gdbKeeps, loose, passed, blind,
                 torn>>

(* `continue`: tricore_halt_resume. *)
Continue ==
  /\ at["gdb"] = "told" /\ Goto("gdb", "resume")
  /\ resumed' = [resumed EXCEPT ![cur] = TRUE]
  /\ UNCHANGED <<target, haltLine, core, others, inHalt, cur, attaching, gdbKeeps, history>>

Resume ==
  /\ Access("gdb", "resume") /\ Goto("gdb", "poll")
  /\ \/ cur \in present /\ Runs(cur) /\ UNCHANGED faults
     \/ cur \in present /\ Fault /\ UNCHANGED state
     \/ cur \notin present /\ UNCHANGED <<state, faults>>
  /\ UNCHANGED <<exevt, route, tlc, firmware, core, others, inHalt, cur, attaching, todo,
                 flashes, warned, lineFault, loose, passed, blind, torn, stray>>

(* The connection drops; the next session's '?' waits for a halt. *)
Query ==
  /\ at["gdb"] = "told" /\ Goto("gdb", "poll")
  /\ UNCHANGED <<target, firmware, core, others, inHalt, cur, attaching, todo, flashes, warned,
                 history>>

(* tricore_detach: disarm, then let go; neither write is checked. *)
Detach ==
  /\ Access("gdb", "told") /\ Goto("gdb", "letgo")
  /\ \/ cur \in present /\ exevt' = [exevt EXCEPT ![cur] = FALSE] /\ UNCHANGED faults
     \/ cur \in present /\ Fault /\ UNCHANGED exevt
     \/ cur \notin present /\ UNCHANGED <<exevt, faults>>
  /\ UNCHANGED <<state, route, tlc, firmware, core, others, inHalt, cur, attaching, todo,
                 flashes, warned, lineFault, loose, passed, blind, torn, stray>>

LetGo ==
  /\ Access("gdb", "letgo") /\ Goto("gdb", "idle")
  /\ resumed' = [resumed EXCEPT ![cur] = FALSE] /\ cur' = None
  /\ \/ cur \in present /\ Runs(cur) /\ UNCHANGED faults
     \/ cur \in present /\ Fault /\ UNCHANGED state
     \/ cur \notin present /\ UNCHANGED <<state, faults>>
  /\ UNCHANGED <<exevt, route, tlc, haltLine, core, others, inHalt, attaching, gdbKeeps,
                 lineFault, loose, passed, blind, torn, stray>>

(* `monitor reset`: tricore_reset.  Halt-after-reset may not have been set, *)
(* or a flash session may have cleared it since.                           *)
GdbReset ==
  /\ Access("gdb", "told") /\ Goto("gdb", "forget")
  /\ \/ (\E stopped \in BOOLEAN : Restarts(stopped)) /\ UNCHANGED faults
     \/ ResetLost
  /\ UNCHANGED <<route, tlc, firmware, core, others, inHalt, cur, attaching, todo, flashes,
                 warned, lineFault, loose, passed, blind, torn, stray>>

(* wait_for_target: tricore_discover empties the list of cores without the *)
(* lock, then reads one core after the other, each under the lock.         *)
Forget ==
  /\ at["gdb"] = "forget" /\ Goto("gdb", "scan")
  /\ present' = {} /\ others' = [others EXCEPT !["gdb"] = CoreOrder]
  /\ UNCHANGED <<target, haltLine, resumed, lock, core, inHalt, cur, attaching, todo, flashes,
                 warned, history>>

Scan ==
  /\ Access("gdb", "scan") /\ others["gdb"] # <<>>
  /\ others' = [others EXCEPT !["gdb"] = Tail(@)]
  /\ \/ present' = present \cup {Head(others["gdb"])} /\ UNCHANGED faults
     \/ Fault /\ UNCHANGED present
  /\ UNCHANGED <<target, haltLine, resumed, lock, at, core, inHalt, cur, attaching, todo,
                 flashes, warned, lineFault, loose, passed, blind, torn, stray>>

(* It is tried again while no core answers; in the end the reset gives up. *)
Scanned ==
  /\ at["gdb"] = "scan"
  /\ \/ others["gdb"] = <<>> /\ present # {} /\ Goto("gdb", "told") /\ UNCHANGED faults
     \/ /\ \/ others["gdb"] = <<>> /\ present = {} /\ UNCHANGED faults
           \/ others["gdb"] = CoreOrder /\ lock = None /\ Fault
        /\ \E pc \in {"forget", "told"} : Goto("gdb", pc)
  /\ UNCHANGED <<target, firmware, core, others, inHalt, cur, attaching, todo, flashes, warned,
                 lineFault, loose, passed, blind, torn, stray>>

(* /api/dap_gdb/attach: tricore_bmp_probe forgets who resumed what, and    *)
(* looks for the cores anew if the link is there.                          *)
Probe ==
  /\ lock = None
  /\ resumed' = [c \in Cores |-> FALSE]
  /\ Discover \/ (Fault /\ UNCHANGED present)
  /\ UNCHANGED <<target, haltLine, lock, threads, lineFault, loose, passed, blind, torn, stray>>

Gdb == \/ Halting("gdb") \/ Listen \/ Poll \/ PollReleases \/ PollAgain \/ GiveUp
       \/ Resume \/ LetGo \/ Forget \/ Scan \/ Scanned
User == (\E c \in Cores : Attach(c)) \/ Continue \/ Query \/ Detach \/ GdbReset \/ Probe

(* A core GDB resumed runs into a breakpoint. *)
Hits(c) == /\ state[c] = "run" /\ cur = c /\ resumed[c]
           /\ state' = [state EXCEPT ![c] = "halt"]
           /\ UNCHANGED <<exevt, route, tlc, firmware, threads, history>>

(***************************************************************************)
(* The web flasher: reset and halt, halt_all, program, reset and run.      *)
(***************************************************************************)
flashKeeps == <<resumed, core, others, inHalt, cur, attaching>>

(* Mutant: the session takes the lock access by access. *)
FlashBeginUnlocked ==
  /\ at["flash"] = "idle" /\ lock = None /\ flashes < MaxFlash
  /\ flashes' = flashes + 1
  /\ Goto("flash", "reset")
  /\ torn' = (torn \/ at["gdb"] \in RequestPcs)
  /\ UNCHANGED <<target, firmware, core, others, inHalt, cur, attaching, todo, warned, faults,
                 lineFault, loose, passed, blind, stray>>

FlashBegin ==
  /\ at["flash"] = "idle" /\ lock = None /\ flashes < MaxFlash
  /\ lock' = "flash" /\ flashes' = flashes + 1
  /\ Goto("flash", "reset")
  /\ torn' = (torn \/ at["gdb"] \in RequestPcs)
  /\ UNCHANGED <<target, present, haltLine, flashKeeps, todo, warned, faults, lineFault, loose,
                 passed, blind, stray>>

(* session_unlock: the target is left as it is. *)
LeaveFlash == /\ Goto("flash", "idle") /\ lock' = None
              /\ todo' = <<>> /\ warned' = {} /\ loose' = FALSE /\ passed' = {}

(* tricore_flash_reset_and_halt: without halt-after-reset CPU0 runs, and a *)
(* target that does not come back ends the session.  So does a CPU0 that   *)
(* discovery did not find before: its status is not read at all.           *)
ResetAndHalt(pc, next) ==
  /\ Access("flash", pc)
  /\ \/ Restarts(TRUE) /\ UNCHANGED faults
     \/ Restarts(FALSE) /\ Fault
     \/ ResetLost
  /\ IF Cpu0 \in present
     THEN /\ Goto("flash", next) /\ loose' = (loose \/ faults' # faults)
          /\ UNCHANGED <<lock, todo, warned, passed>>
     ELSE LeaveFlash
  /\ UNCHANGED <<route, tlc, present, haltLine, flashKeeps, flashes, lineFault, blind, torn,
                 stray>>

NotBack(pc) ==
  /\ Access("flash", pc) /\ LeaveFlash
  /\ Fault /\ \E stopped \in BOOLEAN : Restarts(stopped)
  /\ UNCHANGED <<route, tlc, present, haltLine, flashKeeps, flashes, lineFault, blind, torn,
                 stray>>

FlashReset == ResetAndHalt("reset", "discover") \/ NotBack("reset")

(* ... which looks for the cores again, whatever comes of it. *)
Rediscovered(pc, next, cores) ==
  /\ Access("flash", pc) /\ Discover
  /\ Goto("flash", next) /\ todo' = cores
  /\ UNCHANGED <<target, haltLine, lock, flashKeeps, flashes, warned, lineFault, loose, passed,
                 blind, torn, stray>>

FlashDiscover == Rediscovered("discover", "next", Append(Tail(CoreOrder), Cpu0))

(* halt_all: the other cores first, and only those found and started; then *)
(* CPU0.                                                                   *)
NextCore ==
  /\ at["flash"] = "next"
  /\ \/ /\ todo = <<>> /\ Goto("flash", "program")
        /\ UNCHANGED <<core, todo, faults, passed>>
     \/ /\ todo # <<>> /\ todo' = Tail(todo)
        /\ \/ /\ (Head(todo) = Cpu0 /\ UNCHANGED faults) \/ SeesStarted(Head(todo))
              /\ core' = [core EXCEPT !["flash"] = Head(todo)]
              /\ Goto("flash", "drop") /\ UNCHANGED passed
           \/ /\ Head(todo) # Cpu0 /\ SeesUnstarted(Head(todo))
              /\ passed' = passed \cup {Head(todo)} /\ UNCHANGED <<at, core>>
  /\ UNCHANGED <<target, firmware, others, inHalt, cur, attaching, flashes, warned, lineFault,
                 loose, blind, torn, stray>>

(* Its line is released, CPU0 is disarmed, then tricore_halt. *)
DropLine ==
  /\ Access("flash", "drop") /\ ReleaseLine(core["flash"])
  /\ Goto("flash", IF core["flash"] = Cpu0 THEN "clear0" ELSE "check")
  /\ UNCHANGED <<exevt, route, present, lock, flashKeeps, todo, flashes, warned, loose, passed,
                 blind, torn>>

ClearEvents ==
  /\ Access("flash", "clear0") /\ Goto("flash", "check")
  /\ \/ Cpu0 \in present /\ exevt' = [exevt EXCEPT ![Cpu0] = FALSE] /\ UNCHANGED faults
     \/ Cpu0 \in present /\ Fault /\ UNCHANGED exevt
     \/ Cpu0 \notin present /\ UNCHANGED <<exevt, faults>>
  /\ UNCHANGED <<state, route, tlc, present, haltLine, lock, flashKeeps, todo, flashes, warned,
                 lineFault, loose, passed, blind, torn, stray>>

(* tricore_halt failed: a warning, or for CPU0 the end of the session. *)
HaltFailed ==
  /\ at["flash"] = "failed"
  /\ IF core["flash"] = Cpu0 THEN LeaveFlash
     ELSE /\ Goto("flash", "next") /\ warned' = warned \cup {core["flash"]}
          /\ UNCHANGED <<lock, todo, loose, passed>>
  /\ UNCHANGED <<target, present, haltLine, flashKeeps, flashes, faults, lineFault, blind, torn,
                 stray>>

(* The programming itself is in FlashSession; if it fails the target is    *)
(* left halted.                                                            *)
Program ==
  /\ at["flash"] = "program"
  /\ \/ Goto("flash", "finish") /\ UNCHANGED <<lock, todo, warned, loose, passed>>
     \/ LeaveFlash
  /\ UNCHANGED <<target, present, haltLine, flashKeeps, flashes, faults, lineFault, blind, torn,
                 stray>>

(* tricore_flash_end: reset and look for the cores once more, ... *)
EndReset == ResetAndHalt("finish", "rediscover") \/ NotBack("finish")
EndDiscover == Rediscovered("rediscover", "start", CoreOrder)

(* ... then release the line of each core found and started, disarm it and *)
(* let it go; which of the writes fails, if one does.                      *)
Starting(c, failed) ==
  /\ haltLine' = [haltLine EXCEPT ![c] = FALSE]
  /\ tlc' = (tlc /\ (~haltLine[c] \/ failed = "line"))
  /\ exevt' = [exevt EXCEPT ![c] = @ /\ failed = "events"]
  /\ state' = [state EXCEPT ![c] = IF failed = "resume" \/ (tlc' /\ exevt'[c] /\ route[c])
                                   THEN @ ELSE "run"]

StartCore ==
  /\ Access("flash", "start") /\ todo # <<>>
  /\ \/ SeesStarted(Head(todo)) /\ Starting(Head(todo), "none") /\ UNCHANGED lineFault
     \/ /\ Head(todo) \in present /\ state[Head(todo)] # "boot" /\ Fault
        /\ \/ Starting(Head(todo), "line") /\ haltLine[Head(todo)] /\ lineFault' = TRUE
           \/ (\E failed \in {"events", "resume"} : Starting(Head(todo), failed))
              /\ UNCHANGED lineFault
     \/ SeesUnstarted(Head(todo)) /\ UNCHANGED <<haltLine, tlc, exevt, state, lineFault>>
  /\ todo' = Tail(todo)
  /\ UNCHANGED <<route, present, lock, at, flashKeeps, flashes, warned, loose, passed, blind,
                 torn, stray>>

FlashEnd ==
  /\ at["flash"] = "start" /\ todo = <<>> /\ LeaveFlash
  /\ UNCHANGED <<target, present, haltLine, flashKeeps, flashes, faults, lineFault, blind, torn,
                 stray>>

Flash == \/ Halting("flash") \/ FlashReset \/ FlashDiscover \/ NextCore \/ DropLine
         \/ ClearEvents \/ HaltFailed \/ Program \/ EndReset \/ EndDiscover \/ StartCore
         \/ FlashEnd

Next == \/ Gdb \/ User \/ Flash \/ FlashBegin
        \/ \E c \in Cores : Stops(c) \/ Hits(c) \/ Starts(c)

(* Both threads go on, and an edge arrives. *)
Spec == /\ Init /\ [][Next]_vars
        /\ WF_vars(Gdb) /\ WF_vars(Flash) /\ \A c \in Cores : WF_vars(Stops(c))

(***************************************************************************)
(* Properties.                                                             *)
(***************************************************************************)
(* A line forced active is known to the firmware, which will release it:   *)
(* some core's halt is in flight, or a write of TLC failed and nobody can  *)
(* know, or a flash session tore a request of GDB's in two.  (tricore_halt's *)
(* "release the line whatever happened", the release in tricore_halt_poll    *)
(* and tricore_halt_release, over GDB's polls and a session in between.)     *)
LineAccounted == tlc => lineFault \/ torn \/ \E c \in Cores : haltLine[c]

(* A halt stops no core but the one asked for, unless the access that was  *)
(* to prevent it failed or passed an armed core by, absent or not started  *)
(* as it seemed, or a flash session began between that access and the edge *)
(* (the loop of tricore_halt_request).                                     *)
NoStrayHalt == stray => blind \/ torn

Still(c) == state[c] \in {"halt", "boot"}

(* While the flash is programmed every core stands still, or the session   *)
(* said it would not halt (halt_all's read-while-write conflict).  One     *)
(* that halt_all passed by, as absent or not started, may run, but only    *)
(* where the reset before it failed to stop CPU0.                          *)
FlashQuiet ==
  at["flash"] = "program" =>
    \A c \in Cores : Still(c) \/ c \in warned \/ (loose /\ c \in passed)

(* The same as halt_all's comment puts it, "halt every running core", with *)
(* "never-started cores already stopped": does not hold.                   *)
AllQuiet == at["flash"] = "program" => \A c \in Cores : Still(c) \/ c \in warned

(* A server waiting for a core that GDB never resumed, or that the web     *)
(* interface made it forget, gets an answer (s_resumed and its comment),   *)
(* unless discovery lost the core or the core is no longer started.        *)
Reported ==
  (at["gdb"] = "poll" /\ ~resumed[cur]) ~>
    \/ at["gdb"] \in {"told", "idle"}
    \/ cur \notin present \/ state[cur] = "boot"

(* The same as probe_locked's comment puts it, "forgetting the resume lets *)
(* the next poll halt the core and end that loop": does not hold for a     *)
(* core that discovery lost.                                               *)
LoopEnds ==
  (at["gdb"] = "poll" /\ ~resumed[cur]) ~>
    at["gdb"] \in {"told", "idle"} \/ state[cur] = "boot"

(* What tricore.h promises of the poll: when it has reported the stop, the *)
(* line is released.                                                       *)
StopReleased == at["gdb"] = "told" /\ ~lineFault /\ ~torn => ~tlc
=============================================================================
