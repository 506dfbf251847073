------------------------------ MODULE Triggers ------------------------------
(***************************************************************************)
(* The address triggers of one core, components/dap_probe/tricore_regs.c:  *)
(* the slot records of the allocator beside the trigger registers of the   *)
(* target, used for GDB's breakpoints and watchpoints and, on the          *)
(* successors of an instruction, for every single step (tricore_bmp.c).    *)
(*                                                                         *)
(* A call of the allocator is one step of the model, made of checked and   *)
(* unchecked register writes any of which may fail; what a failed write    *)
(* leaves in the trigger is unknown.  The web server may get in between    *)
(* two calls, with a flash session or with a new probe, and, as each       *)
(* access takes the lock for itself, a flash session also inside a call.   *)
(* It resets the target, and GDB is not told.  Where the core runs to is   *)
(* left open: it may stop anywhere.                                        *)
(***************************************************************************)
EXTENDS Integers, FiniteSets, FiniteSetsExt

CONSTANTS
  NumSlots,    \* TRICORE_NUM_TRIGGERS
  NumAddrs,    \* addresses, in instructions and in bytes of data alike
  Sizes,       \* sizes of watchpoints
  MaxSet,      \* bound: breakpoints and watchpoints set at a time
  MaxTrouble   \* bound: writes that fail and calls of the web server, together

Slots == 0 .. NumSlots - 1
Addrs == 0 .. NumAddrs - 1
ResetVector == 0
NoSlot == -1
NoAddr == -1

ASSUME TriggerAssumption ==
  /\ NumSlots \in Nat \ {0} /\ NumAddrs \in Nat \ {0}
  /\ Sizes \subseteq Nat \ {0}
  /\ MaxSet \in Nat /\ MaxTrouble \in Nat

VARIABLES
  rec,      \* s_slots of the core
  hw,       \* TRnEVT and TRnADR of the core
  at,       \* where GDB's thread is
  step,     \* the step under way: PC, decoded branch target or NoAddr, the
            \* record taken off the PC or Free, and is it part of `continue`
  wanted,   \* what GDB was told is set
  web,      \* calls of the web server
  faults,   \* failed writes
  mixed,    \* history: one address was asked for, or lent, for two purposes
  wiped,    \* history: what is wanted, but was dropped by a reset or a probe
  strays    \* history: slots that a failed write, a lost reset or a probe
            \* left with a trigger and without its record

calls == <<rec, hw, wanted, wiped, web, faults, strays>>
vars == <<rec, hw, at, step, wanted, web, faults, mixed, wiped, strays>>

Free == [kind |-> "free", addr |-> 0, size |-> 0]
Off == [evt |-> "off", adr |-> 0]
Unknown == [evt |-> "unknown", adr |-> 0]
Code(a) == [evt |-> "code", adr |-> a]
NoStep == [pc |-> NoAddr, branch |-> NoAddr, lifted |-> Free, goOn |-> FALSE]

Records == [kind : {"free", "user", "step", "watch", "hi"}, addr : Nat, size : {0} \cup Sizes]
Triggers == [evt : {"off", "code", "data", "range", "unknown"}, adr : Nat]
Requests == [what : {"break"}, addr : Addrs, size : {0}]
            \cup [what : {"watch"}, addr : Addrs, size : Sizes]

TypeOK ==
  /\ rec \in [Slots -> Records] /\ hw \in [Slots -> Triggers]
  /\ at \in {"off", "idle", "lift", "fall", "branch", "go", "clear", "giveup", "restore", "run"}
  /\ step \in [pc : Addrs \cup {NoAddr}, branch : Addrs \cup {NoAddr},
              lifted : Records, goOn : BOOLEAN]
  /\ wanted \subseteq Requests /\ wiped \subseteq wanted /\ strays \subseteq Slots
  /\ web + faults \in 0 .. MaxTrouble /\ mixed \in BOOLEAN

Init ==
  /\ rec = [n \in Slots |-> Free] /\ hw = [n \in Slots |-> Off]
  /\ at = "off" /\ step = NoStep
  /\ wanted = {} /\ web = 0 /\ faults = 0 /\ mixed = FALSE /\ wiped = {} /\ strays = {}

(***************************************************************************)
(* The allocator.  Each call is the set of its outcomes: the registers and *)
(* the records afterwards, the slot it returns, and the slot of a write    *)
(* that failed.                                                            *)
(***************************************************************************)
Outcome(h, r, slot, bad) == [hw |-> h, rec |-> r, slot |-> slot, bad |-> bad]

Holding(a) == {n \in Slots : rec[n].kind # "free" /\ rec[n].addr = a}
SlotOf(a) == IF Holding(a) = {} THEN NoSlot ELSE Min(Holding(a))

FreeSlots == {n \in Slots : rec[n].kind = "free"}
FreePairs == {n \in FreeSlots : n % 2 = 0 /\ n + 1 \in FreeSlots}

Refused == Outcome(hw, rec, NoSlot, {})

(* tricore_bp_add: the address first, then the event; both are checked. *)
Add(a, kind) ==
  IF SlotOf(a) # NoSlot THEN {Outcome(hw, rec, SlotOf(a), {})}
  ELSE IF FreeSlots = {} THEN {Refused}
  ELSE LET n == Min(FreeSlots)
       IN  {Outcome([hw EXCEPT ![n] = Code(a)],
                    [rec EXCEPT ![n] = [kind |-> kind, addr |-> a, size |-> 0]], n, {}),
            Outcome([hw EXCEPT ![n] = Unknown], rec, NoSlot, {n})}

(* tricore_set_data_trigger: one trigger for a byte; for more a range, in  *)
(* an even and an odd one, of whose writes only the last is checked.       *)
Armed(n, a, size) ==
  [m \in Slots |-> IF m = n THEN [evt |-> IF size = 1 THEN "data" ELSE "range", adr |-> a]
                   ELSE IF m = n + 1 /\ size > 1 THEN [evt |-> "off", adr |-> a + size]
                   ELSE hw[m]]

(* tricore_bp_add_watch. *)
AddWatch(a, size) ==
  LET room == IF size > 1 THEN FreePairs ELSE FreeSlots
      n == Min(room)
      held == [m \in Slots |->
                 IF m = n THEN [kind |-> "watch", addr |-> a, size |-> size]
                 ELSE IF m = n + 1 /\ size > 1
                      THEN [kind |-> "hi", addr |-> a + size, size |-> 0]
                 ELSE rec[m]]
  IN  IF SlotOf(a) # NoSlot THEN {Outcome(hw, rec, SlotOf(a), {})}
      ELSE IF room = {} THEN {Refused}
      ELSE {Outcome(Armed(n, a, size), held, n, {}),
            Outcome([Armed(n, a, size) EXCEPT ![n] = Unknown], rec, NoSlot, {n})}
           \cup {Outcome([Armed(n, a, size) EXCEPT ![m] = Unknown], held, n, {m}) :
                 m \in IF size > 1 THEN {n, n + 1} ELSE {}}

(* tricore_clear_trigger on some slots: event, then address, unchecked. *)
Cleared(S) ==
  LET off == [n \in Slots |-> IF n \in S THEN Off ELSE hw[n]]
      gone == [n \in Slots |-> IF n \in S THEN Free ELSE rec[n]]
  IN  {Outcome(off, gone, NoSlot, {})}
      \cup {Outcome([off EXCEPT ![n] = Unknown], gone, NoSlot, {n}) : n \in S}

(* Mutant: the records go, the triggers stay. *)
ClearKindRecords(kinds) ==
  {Outcome(hw, [n \in Slots |-> IF rec[n].kind \in kinds THEN Free ELSE rec[n]], NoSlot, {})}

(* tricore_bp_clear_kind, for some kinds. *)
ClearKind(kinds) == Cleared({n \in Slots : rec[n].kind \in kinds})

(* tricore_bp_remove: the record of the address, with the pair it began. *)
Remove(a) ==
  LET n == SlotOf(a)
      pair == n # NoSlot /\ rec[n].kind = "watch" /\ rec[n].size > 1
  IN  IF n = NoSlot THEN {Refused}
      ELSE Cleared({n} \cup (IF pair THEN {n + 1} \cap Slots ELSE {}))

Changed(o) == {n \in Slots : o.rec[n] # rec[n]}
Written(o) == {n \in Changed(o) \cup o.bad : o.hw[n].evt # "off"}
Failures(o) == IF o.bad = {} THEN 0 ELSE 1

(* A reset before or amid a call: discovery drops the records              *)
(* (tricore_forget_triggers) whatever became of the reset, whose request   *)
(* is an unchecked write.  It clears the triggers, but an event written    *)
(* after it stays, without its address; or it is lost.                     *)
Dropped(o, asked) ==
  /\ rec' = [n \in Slots |-> IF n \in Changed(o) THEN o.rec[n] ELSE Free]
  /\ \/ \E S \in {{}} \cup {{n} : n \in Written(o)} :
          /\ hw' = [n \in Slots |-> IF n \in S THEN Unknown ELSE Off] /\ strays' = S
          /\ faults' = faults + Failures(o)
     \/ /\ hw' = o.hw /\ strays' = {n \in Slots : o.hw[n].evt # "off"}
        /\ faults' = faults + Failures(o) + 1
  /\ wanted' = asked /\ wiped' = asked
  /\ web' + faults' <= MaxTrouble

(* The call comes to this outcome, or a flash session gets in.             *)
Overtaken(o, asked) == web' = web + 1 /\ Dropped(o, asked)

Undisturbed(o, asked) ==
  /\ hw' = o.hw /\ rec' = o.rec /\ strays' = (strays \ Changed(o)) \cup o.bad
  /\ wanted' = asked /\ wiped' = wiped \cap asked
  /\ web' = web /\ faults' = faults + Failures(o) /\ web + faults' <= MaxTrouble

Happens(o, asked) == Undisturbed(o, asked) \/ Overtaken(o, asked)

(***************************************************************************)
(* GDB.                                                                    *)
(***************************************************************************)
(* An address, or the end of a range, serves two requests. *)
Shared(r) ==
  \E a \in {r.addr, r.addr + r.size} : Holding(a) # {} \/ \E q \in wanted : q.addr = a

(* tricore_breakwatch_set; GDB asks for nothing twice. *)
Set(r) ==
  /\ at = "idle" /\ r \notin wanted /\ Cardinality(wanted) < MaxSet
  /\ \E o \in IF r.what = "break" THEN Add(r.addr, "user") ELSE AddWatch(r.addr, r.size) :
       Happens(o, IF o.slot = NoSlot THEN wanted ELSE wanted \cup {r})
  /\ mixed' = (mixed \/ Shared(r))
  /\ UNCHANGED <<at, step>>

(* tricore_breakwatch_clear goes by the address alone. *)
Clear(r) ==
  /\ at = "idle" /\ r \in wanted
  /\ \E o \in Remove(r.addr) : Happens(o, wanted \ {r})
  /\ UNCHANGED <<at, step, mixed>>

AtBreakpoint(pc) == \E n \in Holding(pc) : n = SlotOf(pc) /\ rec[n].kind = "user"

(* tricore_step: the successors of the instruction at the PC, wherever the *)
(* core stopped.  For `continue`, only from a breakpoint.                  *)
BeginStep(pc, cont) ==
  /\ at = "idle" /\ at' = "lift"
  /\ cont => AtBreakpoint(pc)
  /\ \E b \in Addrs \cup {NoAddr} :
       step' = [pc |-> pc, branch |-> b, lifted |-> Free, goOn |-> cont]
  /\ \E o \in ClearKind({"step"}) : Happens(o, wanted)
  /\ UNCHANGED mixed

Fall == (step.pc + 1) % NumAddrs

Lift ==
  LET n == SlotOf(step.pc)
  IN  /\ at = "lift" /\ at' = "fall"
      /\ IF n # NoSlot /\ rec[n].kind # "step"
         THEN /\ step' = [step EXCEPT !.lifted = rec[n]]
              /\ mixed' = (mixed \/ rec[n].kind # "user")
              /\ \E o \in Remove(step.pc) : Happens(o, wanted)
         ELSE UNCHANGED <<calls, step, mixed>>

(* Without a trigger left the stop is imprecise. *)
AddFall ==
  /\ at = "fall" /\ at' = "branch"
  /\ \E o \in Add(Fall, "step") : Happens(o, wanted)
  /\ UNCHANGED <<step, mixed>>

AddBranch ==
  /\ at = "branch" /\ at' = "go"
  /\ IF step.branch \notin {NoAddr, Fall}
     THEN \E o \in Add(step.branch, "step") : Happens(o, wanted)
     ELSE UNCHANGED calls
  /\ UNCHANGED <<step, mixed>>

(* It runs, and stops or cannot be stopped. *)
Go ==
  /\ at = "go"
  /\ \/ at' = "clear" /\ UNCHANGED faults
     \/ at' = "giveup" /\ web + faults < MaxTrouble /\ faults' = faults + 1
  /\ UNCHANGED <<rec, hw, step, wanted, web, mixed, wiped, strays>>

Return == at' = (IF step.goOn THEN "run" ELSE "idle") /\ step' = NoStep

(* Mutant: a core that did not stop keeps the step's triggers. *)
EndClearClean ==
  /\ at \in {"clear", "giveup"}
  /\ IF at = "clear" THEN /\ at' = "restore" /\ UNCHANGED step
                         /\ \E o \in ClearKind({"step"}) : Happens(o, wanted)
     ELSE Return /\ UNCHANGED calls
  /\ UNCHANGED mixed

(* If the core could not be stopped, that is all. *)
EndClear ==
  /\ at \in {"clear", "giveup"}
  /\ IF at = "clear" THEN at' = "restore" /\ UNCHANGED step ELSE Return
  /\ \E o \in ClearKind({"step"}) : Happens(o, wanted)
  /\ UNCHANGED mixed

(* Mutant: only a breakpoint that was in the first slot is given back. *)
RestoreFirst ==
  /\ at = "restore" /\ Return
  /\ IF step.lifted.kind # "free" /\ rec[0].kind = "free"
     THEN \E o \in Add(step.lifted.addr, step.lifted.kind) : Happens(o, wanted)
     ELSE UNCHANGED calls
  /\ UNCHANGED mixed

Restore ==
  /\ at = "restore" /\ Return
  /\ IF step.lifted.kind # "free"
     THEN \E o \in Add(step.lifted.addr, step.lifted.kind) : Happens(o, wanted)
     ELSE UNCHANGED calls
  /\ UNCHANGED mixed

(* `continue`, at once if it stands on no breakpoint. *)
Continue ==
  /\ at = "idle" /\ at' = "run"
  /\ \E pc \in Addrs : ~AtBreakpoint(pc)
  /\ UNCHANGED <<calls, step, mixed>>

Stop ==
  /\ at = "run" /\ at' = "idle"
  /\ UNCHANGED <<calls, step, mixed>>

(* tricore_detach. *)
Detach ==
  /\ at = "idle" /\ at' = "off"
  /\ \E o \in ClearKind({"user", "step", "watch", "hi"}) : Happens(o, {})
  /\ UNCHANGED <<step, mixed>>

(* tricore_attach, with tricore_disarm_reset_trigger: its reads and its    *)
(* writes may fail, and nobody is told.                                    *)
Attach ==
  /\ at = "off" /\ at' = "idle"
  /\ LET hit == hw[0].evt # "off" /\ hw[0].adr = ResetVector
     IN  \/ hit /\ hw' = [hw EXCEPT ![0] = Off] /\ UNCHANGED <<faults, strays>>
         \/ (~hit \/ hw[0].evt = "unknown") /\ UNCHANGED <<hw, faults, strays>>
         \/ /\ hit /\ web + faults < MaxTrouble /\ faults' = faults + 1
            /\ hw' \in {hw, [hw EXCEPT ![0] = Unknown]} /\ strays' = strays \cup {0}
  /\ UNCHANGED <<rec, step, wanted, web, mixed, wiped>>

(* `monitor reset` and `load`.  What was set is not set again of itself.   *)
GdbReset ==
  /\ at = "idle" /\ web' = web /\ Dropped(Refused, wanted)
  /\ UNCHANGED <<at, step, mixed>>

(***************************************************************************)
(* The web server.                                                         *)
(***************************************************************************)
WebFlash == Overtaken(Refused, wanted) /\ UNCHANGED <<at, step, mixed>>

(* /api/dap_gdb/attach: tricore_discover drops the records without a reset. *)
Probe ==
  /\ web + faults < MaxTrouble /\ web' = web + 1
  /\ rec' = [n \in Slots |-> Free] /\ wiped' = wanted
  /\ strays' = {n \in Slots : hw[n].evt # "off"}
  /\ UNCHANGED <<hw, at, step, wanted, faults, mixed>>

Next ==
  \/ \E r \in Requests : Set(r) \/ Clear(r)
  \/ \E pc \in Addrs, cont \in BOOLEAN : BeginStep(pc, cont)
  \/ Lift \/ AddFall \/ AddBranch \/ Go \/ EndClear \/ Restore
  \/ Continue \/ Stop \/ Detach \/ Attach \/ GdbReset
  \/ WebFlash \/ Probe

Spec == Init /\ [][Next]_vars

(***************************************************************************)
(* Properties.                                                             *)
(***************************************************************************)
(* The armed triggers without a record of their address. *)
Ghosts == {n \in Slots : /\ hw[n].evt # "off"
                         /\ rec[n].kind = "free" \/ rec[n].addr # hw[n].adr}

(* An armed trigger has a record of its address, at every point of a step  *)
(* too, so that whatever is armed can be found and cleared again and       *)
(* detach leaves none behind (tricore_bmp.c's "with none of our triggers   *)
(* armed").  The exceptions are single slots, until they are next written: *)
(* where a write failed, where a probe or a lost reset dropped the record  *)
(* under the trigger, or where a flash session got into a call.            *)
NoGhost == Ghosts \subseteq strays

(* What was asked for stands in the registers. *)
SetFor(r) ==
  IF r.what = "break" THEN \E n \in Slots : hw[n] = Code(r.addr)
  ELSE \E n \in Slots : /\ hw[n].adr = r.addr
                        /\ hw[n].evt = IF r.size = 1 THEN "data" ELSE "range"
                        /\ r.size > 1 => n + 1 \in Slots /\ hw[n + 1].adr = r.addr + r.size

(* What GDB was told is set is armed whenever the core runs or GDB has it, *)
(* also after steps that borrowed its trigger with all slots taken         *)
(* (tricore_step's "User breakpoints may be lent out and are restored"),   *)
(* and after what a reset or a probe has dropped was cleared or set again. *)
Kept == at \in {"idle", "run"} /\ faults = 0 /\ ~mixed =>
  \A r \in wanted \ wiped : SetFor(r)

(* No step leaves its own triggers on record, however it ended             *)
(* (tricore_step's three exits).                                           *)
StepTidy == at \in {"off", "idle", "run"} => \A n \in Slots : rec[n].kind # "step"

(* NoGhost with failed writes as its only exception, what                  *)
(* tricore_bmp_probe's "safe to call again" promises.                      *)
ProbeSafe == faults = 0 => Ghosts = {}

(* Kept without its exception: nobody tells GDB of a web flash, and it     *)
(* goes on waiting for breakpoints that are gone.                          *)
Told == at = "run" /\ faults = 0 /\ ~mixed => \A r \in wanted : SetFor(r)
=============================================================================
