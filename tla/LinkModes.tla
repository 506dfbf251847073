----------------------------- MODULE LinkModes -----------------------------
(***************************************************************************)
(* The modes of the DAP link: wide mode (two data lines) and fast mode (a  *)
(* bit per fabric clock), which fabric and target have to enter and leave  *)
(* together, components/dap_probe/dap_wide.c and dap_dapisc.c; the attach  *)
(* through the fabric and the diagnostics, dap_fpga_route.c; and the trace *)
(* session that runs in those modes, dap_mcds.c.                           *)
(*                                                                         *)
(* Nearly all of it runs under the DAP lock, so a call is one step.  A     *)
(* function of the code is an operator from the state of the link to the   *)
(* set of its outcomes, of which a telegram that gets lost is one.  The    *)
(* clean-up of a failed start gives the lock away in between.  GDB's reset *)
(* (tricore_bmp.c) attaches without the lock: only its telegrams wait for  *)
(* it, what it writes to the fabric falls between two calls of the others  *)
(* or into one.  Whether a capture tap or a timing carries data is left    *)
(* open.  The target, external, hears what is framed for the mode it is    *)
(* in; its reset returns it to narrow.                                     *)
(***************************************************************************)
EXTENDS Integers

CONSTANTS
  Divs,        \* clock dividers; the attach clock is one
  AttachDiv,   \* divider of the attach clock
  SweepDiv,    \* divider the block read sweep leaves
  MaxLost      \* bound: telegrams that get lost

ASSUME LinkAssumption == {AttachDiv, SweepDiv} \subseteq Divs /\ MaxLost \in Nat

VARIABLES
  link,     \* fabric, target and the records of dap_wide.c
  trace,    \* the trace session: idle, running, or cleaning up a failed start
  s_wide,   \* dap_mcds.c: the session is wide
  kept      \* history: a clean-up was skipped, the fabric being out of use

vars == <<link, trace, s_wide, kept>>

Links ==
  [inUse : BOOLEAN, div : Divs, wide : BOOLEAN, fast : BOOLEAN,     \* the fabric
   taps : BOOLEAN, timing : BOOLEAN,            \* capture taps, fast timing not at rest
   on : BOOLEAN, tWide : BOOLEAN,                                    \* the target
   s_active : BOOLEAN, s_fast : BOOLEAN,                             \* dap_wide.c
   gdb : {"idle", "sync", "narrow", "trst", "again", "out", "pin"},  \* GDB's reset
   cold : BOOLEAN,     \* history: powered down since the fabric was last set narrow
   crossed : BOOLEAN,  \* history: reset by GDB with the fabric wide, likewise
   lost : 0 .. MaxLost]

TypeOK ==
  /\ link \in Links /\ s_wide \in BOOLEAN /\ kept \in BOOLEAN
  /\ trace \in {"idle", "run", "check", "fast", "wide", "div"}

Init ==
  /\ link = [inUse |-> FALSE, div |-> AttachDiv, wide |-> FALSE, fast |-> FALSE,
             taps |-> FALSE, timing |-> FALSE, on |-> TRUE, tWide |-> FALSE,
             s_active |-> FALSE, s_fast |-> FALSE, gdb |-> "idle",
             cold |-> FALSE, crossed |-> FALSE, lost |-> 0]
  /\ trace = "idle" /\ s_wide = FALSE /\ kept = FALSE

(***************************************************************************)
(* Telegrams.                                                              *)
(***************************************************************************)
Hears(l) == l.on /\ l.wide = l.tWide

Losing(l) == IF l.lost < MaxLost THEN {[l EXCEPT !.lost = @ + 1]} ELSE {}

Done(l) == [ok |-> TRUE, link |-> l]
Failed(l) == [ok |-> FALSE, link |-> l]

(* f on every outcome that succeeded, g on every other. *)
Bind(outcomes, f(_), g(_)) ==
  UNION {IF o.ok THEN f(o.link) ELSE g(o.link) : o \in outcomes}

FailWith(l) == {Failed(l)}

ResetTarget(l) == [l EXCEPT !.tWide = FALSE]
SetNarrow(l) == [l EXCEPT !.wide = FALSE, !.cold = FALSE, !.crossed = FALSE]
SetWide(l) == [l EXCEPT !.wide = TRUE, !.crossed = @ \/ ~l.tWide]

(***************************************************************************)
(* GDB's reset: attach_dap without the lock, and the reset pin when twenty *)
(* of them found no core.                                                  *)
(***************************************************************************)
GdbResets(l) == [ResetTarget(l) EXCEPT !.crossed = @ \/ l.wide]

(* Its next write to fabric or pin; before any other step it exchanges a   *)
(* telegram, which takes the lock.                                         *)
GdbWrite(l) ==
  CASE l.gdb = "idle"   -> {[l EXCEPT !.gdb = "sync", !.inUse = TRUE, !.div = AttachDiv]}
    [] l.gdb = "narrow" -> {[SetNarrow(l) EXCEPT !.gdb = "trst"]}
    [] l.gdb = "trst"   -> {[GdbResets(l) EXCEPT !.gdb = "again"]}
    [] l.gdb = "out"    -> {[l EXCEPT !.gdb = next, !.inUse = FALSE] : next \in {"idle", "pin"}}
    [] l.gdb = "pin"    -> {[GdbResets(l) EXCEPT !.gdb = "idle"]}
    [] OTHER            -> {}

(* What may become of the link in the midst of a call of another task.     *)
Meddled(l) == {l} \cup GdbWrite(l) \cup UNION {GdbWrite(m) : m \in GdbWrite(l)}

(* A request and its answer, or as many as a step of the code sends.       *)
Ask(l) ==
  LET answers(m) == (IF m.inUse /\ Hears(m) THEN {Done(m)} ELSE {Failed(m)})
                    \cup {Failed(n) : n \in Losing(m)}
  IN  UNION {answers(m) : m \in Meddled(l)}

(* dap_dapisc_narrow: the telegram goes out as the fabric frames it, the   *)
(* fabric follows; no answer in narrow mode, and the target is reset.      *)
Narrow(l) ==
  LET told == IF Hears(l) THEN {[l EXCEPT !.tWide = FALSE]} \cup Losing(l) ELSE {l}
      sync(m) == Bind(Ask(m), LAMBDA n : {Done(n)}, LAMBDA n : Ask(ResetTarget(n)))
  IN  UNION {sync(SetNarrow(m)) : m \in told}

(***************************************************************************)
(* dap_wide.c.                                                             *)
(***************************************************************************)
WideExit(l) ==
  IF l.s_active
  THEN {[o.link EXCEPT !.taps = FALSE, !.s_active = FALSE] : o \in Narrow(l)}
  ELSE {l}

(* The capture taps: a pair that carries data, or narrow mode again.       *)
Calibrated(l) ==
  UNION {(IF m.inUse /\ Hears(m) THEN {Done([m EXCEPT !.taps = TRUE, !.s_active = TRUE])} ELSE {})
         \cup {Failed([o.link EXCEPT !.taps = FALSE]) : o \in Narrow(m)} : m \in Meddled(l)}

(* The mode change: the device may not hear of it, or switch and its       *)
(* answer get lost; the fabric follows the answer.                         *)
ModeChange(l) ==
  LET wide == [l EXCEPT !.tWide = TRUE]
  IN  {Done(SetWide(m)) : m \in Meddled(wide)}
      \cup {Failed(m) : m \in Losing(wide) \cup Losing(l)}

(* Mutant: on a switch that failed the fabric just goes back to narrow. *)
SwitchOnly(l) == Bind(ModeChange(l), Calibrated, LAMBDA m : {Failed(SetNarrow(m))})

Switch(l) ==
  Bind(ModeChange(l), Calibrated, LAMBDA m : {Failed(o.link) : o \in Narrow(m)})

(* enter_locked: leave wide mode first; then the pin of the second line    *)
(* must be an input and the reference pattern must read back.              *)
WideEnter(l, div) ==
  LET enter(m) == IF ~m.inUse THEN {Failed(m)}
                  ELSE Bind(Ask([m EXCEPT !.div = div]),
                            LAMBDA n : {Failed(n)} \cup Switch(n), FailWith)
  IN  UNION {enter(m) : m \in WideExit(l)}

(* timing_at_div: fast mode off, the taps of wide mode back. *)
AtDiv(l) == [l EXCEPT !.fast = FALSE, !.timing = FALSE, !.taps = l.s_active]

(* Mutant: fast mode is left only where it was calibrated wide. *)
FastExitWide(l) == IF l.s_fast /\ l.s_active THEN [AtDiv(l) EXCEPT !.s_fast = FALSE] ELSE l

FastExit(l) == IF l.s_fast THEN [AtDiv(l) EXCEPT !.s_fast = FALSE] ELSE l

(* The timings tried in order: one carries data three times running, or    *)
(* none does, or the link no longer answers at the divider.                *)
Search(l) ==
  {Done([l EXCEPT !.fast = TRUE, !.taps = best.taps, !.timing = best.timing, !.s_fast = TRUE]) :
     best \in [taps : BOOLEAN, timing : BOOLEAN]} \cup {Failed(AtDiv(l))}

(* dap_fast_enter; narrow, the reference is written first. *)
FastEnter(l) ==
  IF ~l.inUse THEN {Failed(l)}
  ELSE IF l.s_active THEN IF Hears(l) THEN Search(l) ELSE {Failed(AtDiv(l))}
  ELSE Bind(Ask(l), Search, FailWith)

(***************************************************************************)
(* dap_phy_fpga_attach.  Only a narrow answer is an answer; a reset helps  *)
(* where there is none.  A target that syncs may still not give its id.    *)
(***************************************************************************)
Attach(l) ==
  LET first == [l EXCEPT !.inUse = TRUE, !.div = AttachDiv]
      identify(m) == {Done(m), Failed(m)}
      again(m) == Bind(Ask(SetNarrow(ResetTarget(m))), identify,
                       LAMBDA n : {Failed([n EXCEPT !.inUse = FALSE])})
  IN  IF l.wide THEN again(first) ELSE Bind(Ask(first), identify, again)

(***************************************************************************)
(* The trace session.                                                      *)
(***************************************************************************)
(* dap_mcds_start; set-up may fail after the modes are set. *)
Start(wide, fast, div) ==
  /\ trace = "idle"
  /\ \E w \in IF link.inUse /\ wide THEN WideEnter(link, div) ELSE {Failed(link)} :
     \E f \in IF link.inUse /\ fast THEN FastEnter([w.link EXCEPT !.div = div])
              ELSE {Failed(IF link.inUse THEN [w.link EXCEPT !.div = div] ELSE link)} :
       /\ link' = f.link
       /\ s_wide' = w.ok
       /\ trace' = "check" \/ (trace' = "run" /\ Hears(f.link))
       /\ UNCHANGED kept

(* restore_link of a failed start: a fabric out of use is left as it is;   *)
(* then three times the lock.                                              *)
FailedCheck == /\ trace = "check" /\ trace' = (IF link.inUse THEN "fast" ELSE "idle")
               /\ kept' = (kept \/ ~link.inUse) /\ UNCHANGED <<link, s_wide>>

FailedFast == /\ trace = "fast" /\ trace' = "wide"
              /\ link' = FastExit(link) /\ UNCHANGED <<s_wide, kept>>

FailedWide == /\ trace = "wide" /\ trace' = "div"
              /\ s_wide' = FALSE
              /\ link' \in IF s_wide THEN WideExit(link) ELSE {link}
              /\ UNCHANGED kept

FailedDiv == /\ trace = "div" /\ trace' = "idle"
             /\ link' = [link EXCEPT !.div = AttachDiv] /\ UNCHANGED <<s_wide, kept>>

(* dap_mcds_stop, with restore_link under the lock; a fabric out of use    *)
(* is left as it is.                                                       *)
Stop ==
  /\ trace = "run" /\ trace' = "idle"
  /\ IF link.inUse
     THEN /\ \E m \in IF s_wide THEN WideExit(FastExit(link)) ELSE {FastExit(link)} :
               link' = [m EXCEPT !.div = AttachDiv]
          /\ s_wide' = FALSE /\ UNCHANGED kept
     ELSE kept' = TRUE /\ UNCHANGED <<link, s_wide>>

(***************************************************************************)
(* What else uses the link, at any time.                                   *)
(***************************************************************************)
Others == UNCHANGED <<trace, s_wide, kept>>

(* attach_dap under the lock: the web server's probe, and a flash session. *)
(* A fabric that did not attach is put out of use.                         *)
Probe ==
  /\ \E o \in Attach(link) : link' = [o.link EXCEPT !.inUse = @ /\ o.ok]
  /\ Others

(* GDB's reset: a write of its own, or one telegram.  Its attach syncs to  *)
(* a narrow target or goes on to the reset; it may then end without an id, *)
(* and be the last before the reset pin.                                   *)
GdbWrites == link' \in GdbWrite(link) /\ Others

GdbAsks ==
  /\ link.gdb \in {"sync", "again"} /\ Others
  /\ \E o \in IF link.wide THEN {Failed(link)} ELSE Ask(link) :
     \E next \in IF o.ok THEN {"idle", "pin", "out"}
                ELSE IF link.gdb = "sync" THEN {"narrow"} ELSE {"out"} :
       link' = [o.link EXCEPT !.gdb = next]

(* dap_fpga_bench: everything it set is put back, unless its set-up failed. *)
Bench(wide, div) ==
  /\ Others
  /\ \E a \in IF link.inUse THEN {Done(link)} ELSE Attach(link) :
     \E w \in IF ~a.ok THEN {Failed([a.link EXCEPT !.div = AttachDiv])}
              ELSE Bind(Ask([a.link EXCEPT !.div = AttachDiv]),
                        LAMBDA m : IF wide THEN WideEnter(m, div) ELSE {Done(m)}, FailWith) :
       IF ~w.ok THEN link' = w.link
       ELSE \E skew \in BOOLEAN :
              LET off == [w.link EXCEPT !.fast = FALSE,
                                        !.timing = @ /\ ~skew, !.taps = @ /\ ~skew]
              IN  \E m \in IF wide THEN WideExit(off) ELSE {off} :
                    link' = [m EXCEPT !.div = AttachDiv]

(* dap_probe_fpga_route_check; the sweeps leave their own divider. *)
RouteCheck(wide) ==
  /\ Others
  /\ \E a \in Attach(link) :
     IF ~a.ok THEN link' = [a.link EXCEPT !.inUse = FALSE]
     ELSE \/ link' = [a.link EXCEPT !.inUse = FALSE]
          \/ LET swept == [a.link EXCEPT !.div = SweepDiv]
             IN  IF ~wide THEN link' = swept
                 ELSE \E w \in WideEnter(swept, AttachDiv) :
                        IF w.ok THEN \E m \in WideExit(w.link) :
                                       link' = [m EXCEPT !.div = SweepDiv]
                        ELSE link' = w.link

(* The target loses its power, or gets it again. *)
PowerDown == /\ link.on /\ Others
             /\ link' = [link EXCEPT !.on = FALSE, !.tWide = FALSE, !.cold = TRUE]
PowerUp == ~link.on /\ link' = [link EXCEPT !.on = TRUE] /\ Others

Next ==
  \/ \E w, f \in BOOLEAN, d \in Divs : Start(w, f, d)
  \/ FailedCheck \/ FailedFast \/ FailedWide \/ FailedDiv \/ Stop
  \/ Probe \/ GdbWrites \/ GdbAsks
  \/ \E w \in BOOLEAN, d \in Divs : Bench(w, d)
  \/ \E w \in BOOLEAN : RouteCheck(w)
  \/ PowerDown \/ PowerUp

Spec == Init /\ [][Next]_vars

(***************************************************************************)
(* Properties.                                                             *)
(***************************************************************************)
(* Fabric and target are in the same mode whenever the lock is free,       *)
(* whichever telegram of a switch, an exit, an attach or a diagnostic got  *)
(* lost and wherever GDB's unlocked attach came between (dap_wide.h's      *)
(* "leaves narrow on failure"; dap_dapisc_narrow's reset), unless, since   *)
(* the fabric was last set narrow, the target was powered down or a reset  *)
(* of GDB's hit it with the fabric wide; or the reset of GDB's attach is   *)
(* still to come.                                                          *)
ModesAgree == link.on => link.cold \/ link.crossed \/ link.gdb = "trst" \/ link.wide = link.tWide

(* Once a trace is over and cleaned up the link is as an attach left it,   *)
(* whatever failed, probed or measured in between: narrow, at no fast      *)
(* timing, and the records say so; unless the clean-up found the fabric    *)
(* out of use (restore_link's "back to the narrow attach clock the rest of *)
(* the probe expects").                                                    *)
Quiet == trace = "idle" /\ ~kept =>
  /\ ~link.wide /\ ~link.fast /\ ~link.taps /\ ~link.timing
  /\ ~link.s_active /\ ~link.s_fast /\ ~s_wide

(* Once GDB's reset is over fabric and target are in the same mode, the    *)
(* target having kept its power: "a sequence that must not be interleaved  *)
(* holds" the lock "around the whole sequence" (dap_lock.h).               *)
ResetAlone == link.on /\ link.gdb = "idle" => link.cold \/ link.wide = link.tWide

(* A probe, "safe to call again" (tricore_bmp.c), does not reset a target  *)
(* that answers.                                                           *)
ProbeHarmless == [][Probe /\ Hears(link) => link'.tWide = link.tWide]_vars
=============================================================================
