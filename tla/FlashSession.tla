----------------------------- MODULE FlashSession -----------------------------
(***************************************************************************)
(* A flash session of components/dap_probe/tricore_flash.c: begin, the     *)
(* differential plan of tricore_flash_apply (compare, erase, program,      *)
(* verify), end, with every failure exit, driven by the web flasher        *)
(* (tricore_flash_write) or by GDB's `load` (tricore_bmp.c), which only    *)
(* collects sectors until vFlashDone.                                      *)
(*                                                                         *)
(* Program flash is a function of physical sectors to what they hold; a    *)
(* sector's address reaches another sector while the address swap is       *)
(* active.  The DAP lock makes sessions exclusive (TraceSession).          *)
(***************************************************************************)
EXTENDS Integers, FiniteSets, FiniteSetsExt

CONSTANTS
  NSectors,      \* sectors of program flash, an even number
  PhysSectors,   \* sectors in a physical sector (PHYSICAL_SECTOR)
  RunMax,        \* ERASE_RUN_MAX
  LoadMax        \* LOAD_MAX_SECTORS

ASSUME FlashAssumption ==
  /\ {NSectors, PhysSectors, RunMax, LoadMax} \subseteq Nat \ {0}
  /\ NSectors % 2 = 0

Sectors == 0 .. NSectors - 1
(* A sector half erased or half programmed holds something other than the image. *)
Contents == {"image", "other", "erased"}

VARIABLES
  flash,     \* what each physical sector holds
  swapped,   \* target: the address swap is active
  refuses,   \* target: erases of more than one sector are refused (SQER)
  pc,        \* the stage of the session
  user,      \* "none", "web" or "gdb"
  swap,      \* tricore_flash_swap_active: what the session takes swapped to be
  regions,   \* sectors with data to program
  blank,     \* GDB: sectors to erase only
  keep,      \* keep[]: sectors that differ
  todo,      \* sectors the stage has yet to do
  multi,     \* s_multi_erase
  phase,     \* tricore_flash_status.phase: "working", "failed" or "done"
  verified,  \* tricore_flash_status.verified
  prefetch,  \* the target's flash prefetch: "on", "off", or "unsaved": off for good
  result,    \* what the caller was told: "none", "ok" or "failed"
  was,       \* history: flash when the session began
  missed     \* history: an erase error went unread

plan == <<user, swap, regions, blank>>
target == <<swapped, refuses>>
vars == <<flash, target, pc, plan, keep, todo, multi, phase, verified, prefetch,
          result, was, missed>>

(* Reads of a sector's address are remapped; commands are not, so          *)
(* command_address does it.                                                *)
Exchange(s) == (s + NSectors \div 2) % NSectors
Cell(s) == IF swapped THEN Exchange(s) ELSE s
command_address(s) == IF swap THEN Exchange(s) ELSE s

View(s) == flash[Cell(s)]

Init ==
  /\ flash \in [Sectors -> {"image", "other"}]
  /\ swapped \in BOOLEAN /\ refuses \in BOOLEAN
  /\ pc = "idle" /\ user = "none" /\ swap = FALSE
  /\ regions = {} /\ blank = {} /\ keep = {} /\ todo = {}
  /\ multi = TRUE /\ phase = "done" /\ verified = FALSE
  /\ prefetch = "on" /\ result = "none"
  /\ was = flash /\ missed = FALSE

(***************************************************************************)
(* The exits.  session_unlock puts the DAP clock back and gives up the     *)
(* lock: both are the link's, and modelled in TraceSession.                *)
(***************************************************************************)
Leave(outcome) ==
  /\ pc' = "idle" /\ user' = "none" /\ result' = outcome

(* tricore_flash_safe_shutdown, and the reset at the end of a session. *)
safe_shutdown == prefetch' = IF prefetch = "unsaved" THEN "unsaved" ELSE "on"

(***************************************************************************)
(* tricore_flash_begin, called for a web upload (one region: a span of     *)
(* sectors) or at GDB's first flash packet.                                *)
(***************************************************************************)
Begin(u, span) ==
  /\ pc = "idle"
  /\ user' = u /\ regions' = span /\ blank' = {} /\ keep' = {} /\ todo' = {}
  /\ phase' = "working" /\ verified' = FALSE /\ result' = "none"
  /\ was' = flash /\ missed' = FALSE
  /\ pc' = "install"
  /\ UNCHANGED <<flash, target, swap, multi, prefetch>>

WebBegin == \E lo, hi \in Sectors : lo <= hi /\ Begin("web", lo .. hi)
GdbBegin == Begin("gdb", {})

(* tricore_flash_install_loader up to the read of the swap's state: the     *)
(* reset has turned prefetch on, the preflight turns it off.  A swap state  *)
(* that cannot be read counts as no swap.                                   *)
Install ==
  /\ pc = "install"
  /\ prefetch' \in {"off", "unsaved"}
  /\ swap' \in {swapped, FALSE}
  /\ pc' = "endinit"
  /\ UNCHANGED <<flash, target, user, regions, blank, keep, todo, multi, phase, verified,
                 result, was, missed>>

InstallFail ==
  /\ pc = "install"
  /\ prefetch' \in {prefetch, "on"} /\ phase' = "failed" /\ Leave("failed")
  /\ UNCHANGED <<flash, target, swap, regions, blank, keep, todo, multi, verified, was, missed>>

(* The safety ENDINIT does not clear: the loader's own failure exit. *)
EndinitFail ==
  /\ pc = "endinit"
  /\ phase' = "failed" /\ Leave("failed")
  /\ UNCHANGED <<flash, target, swap, regions, blank, keep, todo, multi, verified, prefetch,
                 was, missed>>

(* begin_locked: the layout or the page mode may still be wrong.            *)
Prepare ==
  /\ pc = "endinit"
  /\ pc' = IF user = "gdb" THEN "collect" ELSE "apply"
  /\ UNCHANGED <<flash, target, plan, keep, todo, multi, phase, verified, prefetch, result,
                 was, missed>>

PrepareFail ==
  /\ pc = "endinit"
  /\ safe_shutdown /\ phase' = "failed" /\ Leave("failed")
  /\ UNCHANGED <<flash, target, swap, regions, blank, keep, todo, multi, verified, was, missed>>

(***************************************************************************)
(* GDB's packets: nothing touches the flash before vFlashDone.             *)
(***************************************************************************)
Collected == regions \cup blank

CollectErase(s) ==
  /\ pc = "collect" /\ Cardinality(Collected \cup {s}) <= LoadMax
  /\ blank' = IF s \in regions THEN blank ELSE blank \cup {s}
  /\ UNCHANGED <<flash, target, pc, user, swap, regions, keep, todo, multi, phase, verified,
                 prefetch, result, was, missed>>

(* Mutant: a written sector stays on the list of erased ones. *)
CollectWriteKeepsErase(s) ==
  /\ pc = "collect" /\ Cardinality(Collected \cup {s}) <= LoadMax
  /\ regions' = regions \cup {s}
  /\ UNCHANGED <<flash, target, pc, user, swap, blank, keep, todo, multi, phase, verified,
                 prefetch, result, was, missed>>

CollectWrite(s) ==
  /\ pc = "collect" /\ Cardinality(Collected \cup {s}) <= LoadMax
  /\ regions' = regions \cup {s} /\ blank' = blank \ {s}
  /\ UNCHANGED <<flash, target, pc, user, swap, keep, todo, multi, phase, verified,
                 prefetch, result, was, missed>>

(* end_locked: the reset turns prefetch on, unless it fails. *)
end_locked(outcome) ==
  /\ Leave(outcome)
  /\ prefetch' = "on" /\ UNCHANGED phase

EndFailed ==
  /\ Leave("failed")
  /\ safe_shutdown /\ phase' = "failed"

(* Too many sectors or no memory (flash_failed, load_apply), or GDB gone    *)
(* mid-load (tricore_detach): tricore_flash_end without an apply.           *)
CollectAbort ==
  /\ pc \in {"collect", "blank"}
  /\ end_locked("failed") \/ EndFailed
  /\ UNCHANGED <<flash, target, swap, regions, blank, keep, todo, multi, verified, was, missed>>

(* Mutant: the sectors GDB only erased are forgotten. *)
CollectDoneSkipsBlank ==
  /\ pc = "collect"
  /\ pc' = "blank" /\ todo' = {}
  /\ UNCHANGED <<flash, target, plan, keep, multi, phase, verified, prefetch, result,
                 was, missed>>

(* vFlashDone: load_apply erases the sectors with nothing to write first.   *)
CollectDone ==
  /\ pc = "collect"
  /\ pc' = "blank" /\ todo' = blank
  /\ UNCHANGED <<flash, target, plan, keep, multi, phase, verified, prefetch, result,
                 was, missed>>

(***************************************************************************)
(* One erase command on `run` sectors from s on.  It works; it fails and   *)
(* leaves them in any state; or it fails and the error cannot be read,     *)
(* which tricore_flash_wait_idle takes for success.                        *)
(***************************************************************************)
Commanded(s, run) == {(command_address(s) + k) : k \in 0 .. run - 1}

Fill(cells, content) == [c \in Sectors |-> IF c \in cells THEN content ELSE flash[c]]

Erased(s, run) == flash' = Fill(Commanded(s, run), "erased") /\ UNCHANGED missed

EraseBroke(s, run) ==
  flash' \in {Fill(Commanded(s, k), c) : k \in 0 .. run, c \in {"erased", "other"}}

BlankErase ==
  /\ pc = "blank" /\ todo # {}
  /\ LET s == Min(todo) IN
     \/ Erased(s, 1)
     \/ EraseBroke(s, 1) /\ missed' = TRUE
  /\ todo' = todo \ {Min(todo)}
  /\ UNCHANGED <<target, pc, plan, keep, multi, phase, verified, prefetch, result, was>>

BlankFail ==
  /\ pc = "blank" /\ todo # {}
  /\ EraseBroke(Min(todo), 1)
  /\ phase' = "failed" /\ pc' = "end"
  /\ UNCHANGED <<target, plan, keep, todo, multi, verified, prefetch, result, was, missed>>

BlankDone ==
  /\ pc = "blank" /\ todo = {}
  /\ pc' = IF regions = {} THEN "end" ELSE "apply"
  /\ UNCHANGED <<flash, target, plan, keep, todo, multi, phase, verified, prefetch,
                 result, was, missed>>

(***************************************************************************)
(* tricore_flash_apply.                                                    *)
(***************************************************************************)
ApplyStart ==
  /\ pc = "apply"
  /\ pc' = "compare" /\ todo' = regions /\ keep' = {}
  /\ UNCHANGED <<flash, target, plan, multi, phase, verified, prefetch, result, was,
                 missed>>

(* More sectors than MAX_SECTORS, or one that is not program flash. *)
ApplyRefused ==
  /\ pc = "apply"
  /\ safe_shutdown /\ phase' = "failed" /\ pc' = "end"
  /\ UNCHANGED <<flash, target, plan, keep, todo, multi, verified, result, was, missed>>

(* sector_differs: a checksum the stub cannot compute counts as different,  *)
(* and so does every sector when the differential is off.                   *)
Differs(s) == IF View(s) = "image" THEN BOOLEAN ELSE {TRUE}

Compare ==
  /\ pc = "compare" /\ todo # {}
  /\ \E differs \in Differs(Min(todo)) :
       keep' = IF differs THEN keep \cup {Min(todo)} ELSE keep
  /\ todo' = todo \ {Min(todo)}
  /\ UNCHANGED <<flash, target, pc, plan, multi, phase, verified, prefetch, result, was,
                 missed>>

Compared ==
  /\ pc = "compare" /\ todo = {}
  /\ pc' = "erase" /\ todo' = keep
  /\ UNCHANGED <<flash, target, plan, keep, multi, phase, verified, prefetch, result, was,
                 missed>>

(* erase_sectors: neighbours of one physical sector go in one command.      *)
Physical(c) == c \div PhysSectors

(* Mutant: a run does not stop at a clean sector. *)
MergesAcrossGaps(s, run) ==
  \A k \in 1 .. run - 1 :
    /\ command_address(s) + k \in Sectors
    /\ Physical(command_address(s) + k) = Physical(command_address(s))

Merges(s, run) ==
  \A k \in 1 .. run - 1 :
    /\ s + k \in todo
    /\ command_address(s + k) = command_address(s) + k
    /\ Physical(command_address(s) + k) = Physical(command_address(s))

Run(s) == Max({r \in 1 .. RunMax : (r = 1 \/ multi) /\ Merges(s, r)})

(* Mutant: a refused run counts as erased after its first sector. *)
RefusedSkipsRun(s) == Run(s)

(* SQER: one sector per command from here on, this one at once. *)
Refused(s) == 1

EraseLen(s) == IF refuses /\ Run(s) > 1 THEN Refused(s) ELSE Run(s)
EraseCommand(s) == IF refuses THEN 1 ELSE Run(s)

EraseNext ==
  /\ pc = "erase" /\ todo # {}
  /\ LET s == Min(todo) IN
     /\ \/ Erased(s, EraseCommand(s))
        \/ EraseBroke(s, EraseCommand(s)) /\ missed' = TRUE
     /\ todo' = todo \ {s + k : k \in 0 .. EraseLen(s) - 1}
     /\ multi' = (multi /\ ~(refuses /\ Run(s) > 1))
  /\ UNCHANGED <<target, pc, plan, keep, phase, verified, prefetch, result, was>>

(* The refusal itself goes unread: the run counts as erased. *)
RefusalMissed ==
  /\ pc = "erase" /\ todo # {}
  /\ refuses /\ Run(Min(todo)) > 1
  /\ missed' = TRUE
  /\ todo' = todo \ {Min(todo) + k : k \in 0 .. Run(Min(todo)) - 1}
  /\ UNCHANGED <<flash, target, pc, plan, keep, multi, phase, verified, prefetch, result,
                 was>>

(* Mutant: a failed erase is tried again for ever. *)
EraseRetries ==
  /\ pc = "erase" /\ todo # {}
  /\ EraseBroke(Min(todo), EraseCommand(Min(todo)))
  /\ UNCHANGED <<target, pc, plan, keep, todo, multi, phase, verified, prefetch, result,
                 was, missed>>

EraseFail ==
  /\ pc = "erase" /\ todo # {}
  /\ EraseBroke(Min(todo), EraseCommand(Min(todo)))
  /\ phase' = "failed" /\ safe_shutdown /\ pc' = "end"
  /\ UNCHANGED <<target, plan, keep, todo, multi, verified, result, was, missed>>

EraseDone ==
  /\ pc = "erase" /\ todo = {}
  /\ pc' = "program" /\ todo' = keep
  /\ UNCHANGED <<flash, target, plan, keep, multi, phase, verified, prefetch, result, was,
                 missed>>

program(s, content) == flash' = [flash EXCEPT ![command_address(s)] = content]

(* program_kept: flash that is not erased does not take the data, which the *)
(* stub reports; a bad transfer into its buffer goes unnoticed here.        *)
ProgramNext ==
  /\ pc = "program" /\ todo # {}
  /\ flash[command_address(Min(todo))] = "erased"
  /\ \E written \in {"image", "other"} : program(Min(todo), written)
  /\ todo' = todo \ {Min(todo)}
  /\ UNCHANGED <<target, pc, plan, keep, multi, phase, verified, prefetch, result, was,
                 missed>>

ProgramFail ==
  /\ pc = "program" /\ todo # {}
  /\ program(Min(todo), "other")
  /\ phase' = "failed" /\ safe_shutdown /\ pc' = "end"
  /\ UNCHANGED <<target, plan, keep, todo, multi, verified, result, was, missed>>

(* Mutant: the verify passes anything. *)
VerifySkipped(ok) == ok = TRUE

(* safe_shutdown, then the checksum of every region at its own address.     *)
VerifyAnswers(ok) ==
  \/ ok = FALSE
  \/ ok = TRUE /\ \A s \in regions : View(s) = "image"

Verify ==
  /\ pc = "program" /\ todo = {}
  /\ safe_shutdown
  /\ \E ok \in BOOLEAN :
       /\ VerifyAnswers(ok)
       /\ verified' = ok /\ phase' = IF ok THEN "done" ELSE "failed"
  /\ pc' = "end"
  /\ UNCHANGED <<flash, target, plan, keep, todo, multi, result, was, missed>>

(***************************************************************************)
(* write_locked ends a session it verified by starting the target, and may *)
(* still fail over the UCBs; a failed one is left halted, without a reset. *)
(* GDB's exit resets and halts either way.                                 *)
(***************************************************************************)
EndHalted ==
  /\ pc = "end" /\ user = "web" /\ phase = "failed"
  /\ Leave("failed")
  /\ UNCHANGED <<flash, target, swap, regions, blank, keep, todo, multi, phase, verified,
                 prefetch, was, missed>>

End ==
  /\ pc = "end" /\ ~(user = "web" /\ phase = "failed")
  /\ \/ end_locked(IF phase = "failed" THEN "failed" ELSE "ok")
     \/ EndFailed
     \/ user = "web" /\ Leave("failed") /\ prefetch' = "on" /\ phase' = "failed"
  /\ UNCHANGED <<flash, target, swap, regions, blank, keep, todo, multi, verified, was, missed>>

Step ==
  \/ Install \/ InstallFail \/ EndinitFail \/ Prepare \/ PrepareFail
  \/ BlankErase \/ BlankFail \/ BlankDone
  \/ ApplyStart \/ ApplyRefused \/ Compare \/ Compared
  \/ EraseNext \/ RefusalMissed \/ EraseFail \/ EraseDone
  \/ ProgramNext \/ ProgramFail \/ Verify
  \/ EndHalted \/ End

Next ==
  \/ WebBegin \/ GdbBegin
  \/ \E s \in Sectors : CollectErase(s) \/ CollectWrite(s)
  \/ CollectAbort \/ CollectDone
  \/ Step

Spec == Init /\ [][Next]_vars

(***************************************************************************)
(* Properties.                                                             *)
(***************************************************************************)
Stages == {"idle", "install", "endinit", "collect", "blank", "apply", "compare", "erase",
           "program", "end"}

(* Types of the session's state; an erase never commands a sector outside   *)
(* the flash (flash stays a function of its sectors).                       *)
TypeOK ==
  /\ flash \in [Sectors -> Contents] /\ was \in [Sectors -> Contents]
  /\ swapped \in BOOLEAN /\ refuses \in BOOLEAN /\ swap \in BOOLEAN
  /\ pc \in Stages /\ user \in {"none", "web", "gdb"}
  /\ regions \subseteq Sectors /\ blank \subseteq Sectors /\ regions \cap blank = {}
  /\ keep \subseteq regions /\ todo \subseteq regions \cup blank
  /\ multi \in BOOLEAN /\ phase \in {"working", "failed", "done"} /\ verified \in BOOLEAN
  /\ prefetch \in {"on", "off", "unsaved"}
  /\ result \in {"none", "ok", "failed"} /\ missed \in BOOLEAN

(* tricore_flash_status.verified is only ever true of a flash that holds    *)
(* the image in every sector it covers, skipped sectors, refused erases and *)
(* unread errors included.                                                  *)
VerifiedIsImage == verified => \A s \in regions : View(s) = "image"

(* The session took an active address swap for none. *)
Misread == swap # swapped

(* A session changes only the sectors it found different, and those GDB     *)
(* asked to erase: not its neighbours in an erase command, not the other    *)
(* bank, and nothing at all if the load is given up before vFlashDone.      *)
(* Where the swap's state was misread the sectors exchanged with these, and *)
(* no others, may be the ones that change.                                  *)
OnlyKeptChange ==
  \A s \in Sectors :
    /\ s \notin keep \cup blank
    /\ Misread => Exchange(s) \notin keep \cup blank
    => flash[Cell(s)] = was[Cell(s)]

(* The same without the exception: "erase/program use the exchanged bank"   *)
(* whenever the swap is active.                                             *)
OtherBankKept ==
  \A s \in Sectors : s \notin keep \cup blank => flash[Cell(s)] = was[Cell(s)]

(* Every sector is erased before it is programmed, whatever commands the    *)
(* erases were merged into and whether or not the part refused one.         *)
ProgramsErased ==
  pc = "program" /\ ~missed => \A s \in todo : flash[command_address(s)] = "erased"

(* tricore_flash_safe_shutdown: "Restore what preflight turned off".  No    *)
(* way out of a session leaves the target without prefetch: does not hold,  *)
(* the loader's own failure exit being one that does.                       *)
PrefetchRestored == pc = "idle" => prefetch = "on"

(* tricore_bmp.c's load: one that ended well left the sectors GDB erased    *)
(* and did not write erased, at the address GDB knows them by, unless the   *)
(* error of an erase, or the state of the swap, could not be read (nothing  *)
(* verifies these sectors).                                                 *)
LoadLeavesErased ==
  result = "ok" /\ ~missed /\ ~Misread => \A s \in blank : View(s) = "erased"

(* How much of a session is left: its stage, and the sectors the stage has  *)
(* yet to do.                                                               *)
StagesLeft ==
  [idle |-> 0, end |-> 1, program |-> 2, erase |-> 3, compare |-> 4, apply |-> 5, blank |-> 6,
   collect |-> 7, endinit |-> 8, install |-> 9]
Left == StagesLeft[pc] * (NSectors + 1) + Cardinality(todo)

(* Every wait of a session has a deadline (wait_idle, run_loader, resets),  *)
(* so each of its own steps comes to an end; and each leaves less to do,    *)
(* through refused and failed erases alike.  A session cannot go round in   *)
(* circles while it holds the DAP: only GDB's packets can keep one open.    *)
SessionDescends == [][Step => Left' < Left]_vars
=============================================================================
