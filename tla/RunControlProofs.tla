-------------------------- MODULE RunControlProofs --------------------------
(***************************************************************************)
(* Proofs about RunControl, for any number of cores, faults and flash      *)
(* sessions: a line left forced active is one the firmware knows of, a     *)
(* halt stops no core it was not meant for, and the flash is programmed    *)
(* with every core at rest, warned of or passed by after a failed reset,   *)
(* whichever way the accesses of GDB's thread and of a flash session fall  *)
(* between each other.                                                     *)
(***************************************************************************)
EXTENDS RunControl, TLAPS

(* The parts of TypeOK. *)
TargetTypes ==
  /\ state \in [Cores -> {"run", "stopping", "halt", "boot"}]
  /\ exevt \in [Cores -> BOOLEAN] /\ route \in [Cores -> BOOLEAN] /\ tlc \in BOOLEAN
FirmwareTypes ==
  /\ present \subseteq Cores
  /\ haltLine \in [Cores -> BOOLEAN] /\ resumed \in [Cores -> BOOLEAN]
  /\ lock \in {None, "flash"}
ThreadTypes ==
  /\ at \in [Users -> Pcs] /\ core \in [Users -> Cores]
  /\ others \in [Users -> Seq(Cores)] /\ inHalt \in [Users -> BOOLEAN]
SessionTypes ==
  /\ cur \in Cores \cup {None} /\ attaching \in BOOLEAN
  /\ todo \in Seq(Cores) /\ flashes \in 0..MaxFlash /\ warned \subseteq Cores
HistoryTypes ==
  /\ faults \in 0..MaxFaults /\ passed \subseteq Cores
  /\ lineFault \in BOOLEAN /\ loose \in BOOLEAN /\ blind \in BOOLEAN /\ torn \in BOOLEAN /\ stray \in BOOLEAN

Typed == TargetTypes /\ FirmwareTypes /\ ThreadTypes /\ SessionTypes /\ HistoryTypes

(* Where each thread can be, and what it carries there.  A request that    *)
(* GDB's thread begins while a flash session holds the lock has yet to     *)
(* make its first access.                                                  *)
GdbPcs == RequestPcs \cup {"idle", "check", "wait", "release", "listen", "poll", "unline", "again",
                           "told", "resume", "letgo", "giveup", "forget", "scan"}
HaltPcs == RequestPcs \cup {"next", "drop", "clear0", "check", "wait", "release", "failed", "program"}
FlashPcs == HaltPcs \cup {"idle", "reset", "discover", "finish", "rediscover", "start"}
Committed == {"arm", "route", "tlc", "clear", "assert"}

Threads ==
  /\ at["gdb"] \in GdbPcs /\ at["flash"] \in FlashPcs
  /\ lock = "flash" <=> at["flash"] # "idle"
  /\ at["gdb"] # "idle" => cur \in Cores
  /\ at["flash"] \in RequestPcs => inHalt["flash"]
  /\ \A u \in Users : /\ at[u] = "disarm" => others[u] # <<>>
                      /\ at[u] \in Committed => others[u] = <<>>
  /\ at["flash"] # "idle" /\ at["gdb"] \in RequestPcs /\ ~torn =>
       at["gdb"] = "look" /\ others["gdb"] = CoreOrder

(* A request that is about to write TLC is on record, unless a flash       *)
(* session got in between and took the record away.                        *)
Lines ==
  /\ at["gdb"] \in {"clear", "assert"} => haltLine[core["gdb"]] \/ torn
  /\ at["flash"] \in {"clear", "assert"} => haltLine[core["flash"]]
  /\ LineAccounted

(* The cores a request has gone through are still unarmed or halted. *)
Among(s, c) == \E i \in 1 .. Len(s) : s[i] = c

Looked ==
  ~blind /\ ~torn =>
    \A u \in Users : at[u] \in RequestPcs =>
      \A o \in Cores \ {core[u]} : Among(others[u], o) \/ ~exevt[o] \/ Halted(o)

(* After a reset that stopped CPU0 nothing can run.  After any other the   *)
(* cores halt_all is through with have stopped, were warned of, or were    *)
(* passed by.                                                              *)
Standing ==
  /\ state[Cpu0] # "boot"
  /\ at["flash"] \in HaltPcs \cup {"discover"} /\ ~loose => \A c \in Cores : Still(c)
  /\ at["flash"] \in HaltPcs /\ loose =>
       \A c \in Cores : \/ Halted(c) \/ c \in warned \/ c \in passed \/ Among(todo, c)
                        \/ c = core["flash"] /\ at["flash"] \notin {"next", "program"}
  /\ at["flash"] \in HaltPcs \ {"next", "program"} => state[core["flash"]] # "boot"
  /\ at["flash"] = "program" => todo = <<>>

RunInv == Typed /\ Threads /\ Lines /\ Looked /\ Standing /\ NoStrayHalt

-----------------------------------------------------------------------------
(* Facts about the pieces the steps are made of. *)

LEMMA OrderFacts ==
  /\ CoreOrder \in Seq(Cores) /\ Len(CoreOrder) > 0 /\ CoreOrder # <<>>
  /\ Cpu0 \in Cores /\ Cpu0 = CoreOrder[1] /\ Tail(CoreOrder) \in Seq(Cores)
  /\ \A c \in Cores : Among(CoreOrder, c)
  BY RunAssumption DEF Cores, ToSet, Cpu0, Among

LEMMA OthersTyped ==
  ASSUME ThreadTypes, NEW u \in Users
  PROVE  others[u] \in Seq(Cores) /\ (others[u] # <<>> => Tail(others[u]) \in Seq(Cores)
                                        /\ Head(others[u]) \in Cores)
  BY DEF ThreadTypes

(* GDB's thread makes no access while a flash session holds the lock. *)
LEMMA LockFree == ASSUME Threads, lock \in {None, "gdb"} PROVE at["flash"] = "idle"
  BY DEF Threads, None

LEMMA FaultTyped == ASSUME HistoryTypes, Fault PROVE faults' \in 0..MaxFaults
  BY RunAssumption DEF HistoryTypes, Fault

(* What a look at a core, or for all cores, leaves behind. *)
LEMMA SeesTyped ==
  ASSUME HistoryTypes, NEW c,
         SeesHalted(c) \/ SeesRunning(c) \/ SeesStarted(c) \/ SeesUnstarted(c)
  PROVE  faults' \in 0..MaxFaults
  BY FaultTyped DEF HistoryTypes, SeesHalted, SeesRunning, SeesStarted, SeesUnstarted

LEMMA DiscoverTyped ==
  ASSUME HistoryTypes, Discover PROVE faults' \in 0..MaxFaults /\ present' \subseteq Cores
  BY FaultTyped DEF HistoryTypes, Discover

LEMMA RestartsFacts ==
  ASSUME Typed, NEW stopped \in BOOLEAN, Restarts(stopped)
  PROVE  /\ state' \in [Cores -> {"run", "stopping", "halt", "boot"}]
         /\ exevt' \in [Cores -> BOOLEAN] /\ state'[Cpu0] # "boot"
         /\ stopped => \A c \in Cores : Still(c)'
  BY OrderFacts DEF Typed, TargetTypes, Restarts, Still

LEMMA DriveTyped ==
  ASSUME Typed, NEW on \in BOOLEAN, Drive(on)
  PROVE  /\ state' \in [Cores -> {"run", "stopping", "halt", "boot"}] /\ tlc' = on
         /\ stray' \in BOOLEAN /\ (~on => state' = state /\ stray' = stray)
         /\ \A c \in Cores : Halted(c) => Halted(c)'
         /\ \A c \in Cores : state'[c] = "boot" <=> state[c] = "boot"
  <1>1. state \in [Cores -> {"run", "stopping", "halt", "boot"}] /\ stray \in BOOLEAN
      BY DEF Typed, TargetTypes, HistoryTypes
  <1>2. stray' \in BOOLEAN
      BY <1>1, Zenon DEF Drive
  <1>3. /\ state' \in [Cores -> {"run", "stopping", "halt", "boot"}]
        /\ \A c \in Cores : Halted(c) => Halted(c)'
        /\ \A c \in Cores : state'[c] = "boot" <=> state[c] = "boot"
      BY <1>1 DEF Drive, Struck, Halted
  <1>4. ASSUME ~on PROVE state' = state
      BY <1>1, <1>4 DEF Drive
  <1>5. ASSUME ~on PROVE stray' = stray
      BY <1>1, <1>5, Zenon DEF Drive
  <1> QED BY <1>2, <1>3, <1>4, <1>5 DEF Drive

LEMMA UnlineFacts ==
  ASSUME Typed, NEW c \in Cores, Unline(c)
  PROVE  /\ haltLine' = [haltLine EXCEPT ![c] = FALSE] /\ haltLine' \in [Cores -> BOOLEAN]
         /\ state' = state /\ stray' = stray /\ tlc' \in BOOLEAN
         /\ faults' \in 0..MaxFaults /\ lineFault' \in BOOLEAN
         /\ LineAccounted /\ torn' = torn => LineAccounted'
  <1>1. haltLine \in [Cores -> BOOLEAN] /\ haltLine' = [haltLine EXCEPT ![c] = FALSE]
      BY DEF Typed, FirmwareTypes, Unline
  <1>2. CASE haltLine[c] /\ Drive(FALSE) /\ UNCHANGED <<faults, lineFault>>
      BY <1>1, <1>2, DriveTyped DEF Typed, HistoryTypes, LineAccounted
  <1>3. CASE haltLine[c] /\ Fault /\ lineFault' = TRUE /\ UNCHANGED <<state, tlc, stray>>
      BY <1>1, <1>3, FaultTyped DEF Typed, TargetTypes, HistoryTypes, LineAccounted
  <1>4. CASE ~haltLine[c] /\ UNCHANGED <<state, tlc, faults, lineFault, stray>>
      BY <1>1, <1>4 DEF Typed, TargetTypes, HistoryTypes, LineAccounted
  <1> QED BY <1>2, <1>3, <1>4 DEF Unline

LEMMA ReleaseLineFacts ==
  ASSUME Typed, NEW c \in Cores, ReleaseLine(c)
  PROVE  /\ haltLine' \in [Cores -> BOOLEAN] /\ \A d \in Cores : haltLine'[d] => haltLine[d]
         /\ state' = state /\ stray' = stray /\ tlc' \in BOOLEAN
         /\ faults' \in 0..MaxFaults /\ lineFault' \in BOOLEAN
         /\ LineAccounted /\ torn' = torn => LineAccounted'
  <1>0. haltLine \in [Cores -> BOOLEAN]
      BY DEF Typed, FirmwareTypes
  <1>1. CASE Unline(c)
      BY <1>0, <1>1, UnlineFacts
  <1>2. CASE UNCHANGED <<haltLine, state, tlc, faults, lineFault, stray>>
      BY <1>0, <1>2 DEF Typed, TargetTypes, HistoryTypes, LineAccounted
  <1> QED BY <1>1, <1>2 DEF ReleaseLine

(* A write of TLC within a request. *)
LEMMA WriteTlcFacts ==
  ASSUME Typed, NEW u \in Users, NEW on \in BOOLEAN, NEW pc, WriteTlc(u, on, pc)
  PROVE  /\ state' \in [Cores -> {"run", "stopping", "halt", "boot"}] /\ tlc' \in BOOLEAN
         /\ stray' \in BOOLEAN /\ faults' \in 0..MaxFaults /\ lineFault' \in BOOLEAN
         /\ \A c \in Cores : Halted(c) => Halted(c)'
         /\ \A c \in Cores : state'[c] = "boot" <=> state[c] = "boot"
         /\ tlc' => on \/ lineFault'
  <1>1. CASE Drive(on) /\ UNCHANGED <<faults, lineFault>>
      BY <1>1, DriveTyped DEF Typed, HistoryTypes
  <1>2. CASE Fault /\ lineFault' = TRUE /\ Drive(on)
      BY <1>2, DriveTyped, FaultTyped DEF Typed, HistoryTypes
  <1>3. CASE Fault /\ lineFault' = TRUE /\ UNCHANGED <<state, tlc, stray>>
      BY <1>3, FaultTyped DEF Typed, TargetTypes, HistoryTypes, Halted
  <1> QED BY <1>1, <1>2, <1>3 DEF WriteTlc, RequestFails
-----------------------------------------------------------------------------
(* Types. *)

LEMMA TargetTyped == ASSUME Typed, Threads, Next PROVE TargetTypes'
  <1> USE DEF TargetTypes
  <1>0. TargetTypes
      BY DEF Typed
  <1>1. ASSUME NEW u \in Users, Halting(u) PROVE TargetTypes'
    <2>1. core[u] \in Cores /\ others[u] \in Seq(Cores)
        BY DEF Typed, ThreadTypes
    <2>2. CASE Disarm(u)
      <3>1. Head(others[u]) \in Cores
          BY <2>1, <2>2 DEF Disarm, Access, Threads
      <3> QED BY <1>0, <2>2, <3>1 DEF Disarm
    <2>3. CASE Arm(u)
        BY <1>0, <2>1, <2>3 DEF Arm
    <2>4. CASE Route(u)
        BY <1>0, <2>1, <2>4 DEF Route
    <2>5. CASE ClearLine(u)
        BY <1>0, <2>5, WriteTlcFacts DEF ClearLine, WriteTlc
    <2>6. CASE AssertLine(u)
        BY <1>0, <2>6, WriteTlcFacts DEF AssertLine, WriteTlc
    <2>7. CASE Release(u)
        BY <1>0, <2>1, <2>7, UnlineFacts DEF Release
    <2>8. CASE Look(u) \/ ReadTlc(u) \/ Check(u) \/ Wait(u)
        BY <1>0, <2>8 DEF Look, ReadTlc, Check, Wait, target
    <2> QED BY <1>1, <2>2, <2>3, <2>4, <2>5, <2>6, <2>7, <2>8 DEF Halting
  <1>2. CASE PollReleases \/ GiveUp
    <2>1. cur \in Cores
        BY <1>2 DEF PollReleases, GiveUp, Access, Threads
    <2> QED BY <1>0, <1>2, <2>1, UnlineFacts, ReleaseLineFacts DEF PollReleases, GiveUp
  <1>3. CASE Resume \/ LetGo
      BY <1>0, <1>3 DEF Resume, LetGo, Runs
  <1>4. CASE Listen \/ Poll \/ PollAgain \/ (\E c \in Cores : Attach(c)) \/ Continue \/ Query \/ Probe
             \/ Forget \/ Scan \/ Scanned
      BY <1>0, <1>4 DEF Listen, Poll, PollAgain, Attach, Continue, Query, Probe, Forget, Scan, Scanned,
                        target
  <1>5. CASE Detach
      BY <1>0, <1>5 DEF Detach
  <1>6. CASE GdbReset \/ FlashReset \/ EndReset
    <2>1. route' = route /\ tlc' = tlc
        BY <1>6 DEF GdbReset, FlashReset, EndReset, ResetAndHalt, NotBack
    <2>2. (\E stopped \in BOOLEAN : Restarts(stopped)) \/ UNCHANGED <<state, exevt>>
        BY <1>6 DEF GdbReset, FlashReset, EndReset, ResetAndHalt, NotBack, ResetLost
    <2> QED BY <1>0, <2>1, <2>2, RestartsFacts
  <1>7. CASE DropLine
    <2>1. core["flash"] \in Cores
        BY DEF Typed, ThreadTypes, Users
    <2> QED BY <1>0, <1>7, <2>1, ReleaseLineFacts DEF DropLine
  <1>8. CASE ClearEvents
      BY <1>0, <1>8 DEF ClearEvents
  <1>9. CASE NextCore \/ HaltFailed \/ Program \/ FlashBegin \/ FlashDiscover \/ EndDiscover \/ FlashEnd
      BY <1>0, <1>9 DEF NextCore, HaltFailed, Program, FlashBegin, FlashDiscover, EndDiscover,
                        Rediscovered, FlashEnd, target
  <1>10. CASE StartCore
    <2>1. route' = route
        BY <1>10 DEF StartCore
    <2>2. ASSUME NEW c \in Cores, NEW failed, Starting(c, failed) PROVE TargetTypes'
      <3>1. tlc' \in BOOLEAN
          BY <1>0, <2>2, Zenon DEF Starting
      <3>2. exevt' \in [Cores -> BOOLEAN]
          BY <1>0, <2>2 DEF Starting
      <3>3. state' \in [Cores -> {"run", "stopping", "halt", "boot"}]
          BY <1>0, <2>2 DEF Starting
      <3> QED BY <1>0, <2>1, <3>1, <3>2, <3>3
    <2>3. Head(todo) \in Cores
        BY <1>10 DEF StartCore, Typed, SessionTypes
    <2>4. CASE UNCHANGED <<haltLine, tlc, exevt, state, lineFault>>
        BY <1>0, <2>1, <2>4
    <2> QED BY <1>10, <2>2, <2>3, <2>4 DEF StartCore
  <1>11. ASSUME NEW c \in Cores, Stops(c) \/ Hits(c) \/ Starts(c) PROVE TargetTypes'
      BY <1>0, <1>11 DEF Stops, Hits, Starts
  <1> QED BY <1>1, <1>2, <1>3, <1>4, <1>5, <1>6, <1>7, <1>8, <1>9, <1>10, <1>11
             DEF Next, Gdb, User, Flash, Users

LEMMA FirmwareTyped == ASSUME Typed, Threads, Next PROVE FirmwareTypes'
  <1> USE DEF FirmwareTypes
  <1>0. FirmwareTypes /\ core["flash"] \in Cores
      BY DEF Typed, ThreadTypes, Users
  <1>1. ASSUME NEW u \in Users, Halting(u) PROVE FirmwareTypes'
    <2>1. core[u] \in Cores
        BY DEF Typed, ThreadTypes
    <2>2. CASE ReadTlc(u)
        BY <1>0, <2>1, <2>2 DEF ReadTlc
    <2>3. CASE Release(u)
        BY <1>0, <2>1, <2>3, UnlineFacts DEF Release
    <2>4. CASE ClearLine(u) \/ AssertLine(u)
        BY <1>0, <2>4 DEF ClearLine, AssertLine, WriteTlc, firmware
    <2>5. CASE Look(u) \/ Disarm(u) \/ Arm(u) \/ Route(u) \/ Check(u) \/ Wait(u)
        BY <1>0, <2>5 DEF Look, Disarm, Arm, Route, Check, Wait, firmware
    <2> QED BY <1>1, <2>2, <2>3, <2>4, <2>5 DEF Halting
  <1>2. CASE PollReleases \/ GiveUp
    <2>1. cur \in Cores
        BY <1>2 DEF PollReleases, GiveUp, Access, Threads
    <2> QED BY <1>0, <1>2, <2>1, UnlineFacts, ReleaseLineFacts DEF PollReleases, GiveUp, gdbKeeps
  <1>3. CASE Listen \/ Poll \/ PollAgain \/ Resume \/ Query \/ Detach \/ GdbReset \/ Scanned
      BY <1>0, <1>3 DEF Listen, Poll, PollAgain, Resume, Query, Detach, GdbReset, Scanned, firmware
  <1>4. CASE (\E c \in Cores : Attach(c)) \/ Continue \/ LetGo
      BY <1>0, <1>4 DEF Attach, Continue, LetGo, gdbKeeps
  <1>5. CASE DropLine
      BY <1>0, <1>5, ReleaseLineFacts DEF DropLine, flashKeeps
  <1>6. CASE NextCore \/ ClearEvents \/ HaltFailed \/ Program \/ FlashBegin \/ FlashEnd
      BY <1>0, <1>6 DEF NextCore, ClearEvents, HaltFailed, Program, FlashBegin, FlashEnd,
                        LeaveFlash, firmware, flashKeeps
  <1>7. CASE FlashReset \/ EndReset
      BY <1>0, <1>7 DEF FlashReset, EndReset, ResetAndHalt, NotBack, LeaveFlash, flashKeeps
  <1>8. CASE Probe \/ Forget \/ Scan
    <2>1. UNCHANGED <<haltLine, lock>> /\ resumed' \in [Cores -> BOOLEAN]
        BY <1>0, <1>8 DEF Probe, Forget, Scan
    <2>2. present' \subseteq Cores
      <3>1. CASE Probe
          BY <1>0, <3>1, DiscoverTyped DEF Probe, Typed
      <3>2. CASE Forget
          BY <3>2 DEF Forget
      <3>3. CASE Scan
        <4>1. Head(others["gdb"]) \in Cores
            BY <3>3, OthersTyped DEF Scan, Typed, Users
        <4> QED BY <1>0, <3>3, <4>1 DEF Scan
      <3> QED BY <1>8, <3>1, <3>2, <3>3
    <2> QED BY <1>0, <2>1, <2>2
  <1>9. CASE FlashDiscover \/ EndDiscover
      BY <1>0, <1>9, DiscoverTyped DEF FlashDiscover, EndDiscover, Rediscovered, flashKeeps, Typed
  <1>10. CASE StartCore
    <2>1. UNCHANGED <<present, resumed, lock>>
        BY <1>10 DEF StartCore, flashKeeps
    <2>2. Head(todo) \in Cores
        BY <1>10 DEF StartCore, Typed, SessionTypes
    <2>3. haltLine' \in [Cores -> BOOLEAN]
        BY <1>0, <1>10, <2>2 DEF StartCore, Starting
    <2> QED BY <1>0, <2>1, <2>3
  <1>11. ASSUME NEW c \in Cores, Stops(c) \/ Hits(c) \/ Starts(c) PROVE FirmwareTypes'
      BY <1>0, <1>11 DEF Stops, Hits, Starts, firmware
  <1> QED BY <1>1, <1>2, <1>3, <1>4, <1>5, <1>6, <1>7, <1>8, <1>9, <1>10, <1>11 DEF Next, Gdb, User, Flash, Users

LEMMA HistoryTyped == ASSUME Typed, Threads, Next PROVE HistoryTypes'
  <1> USE FaultTyped DEF HistoryTypes
  <1>0. HistoryTypes /\ core["flash"] \in Cores
      BY DEF Typed, ThreadTypes, Users
  <1>1. ASSUME NEW u \in Users, Halting(u) PROVE HistoryTypes'
    <2>1. core[u] \in Cores
        BY DEF Typed, ThreadTypes
    <2>2. CASE ClearLine(u)
        BY <1>0, <2>2, WriteTlcFacts DEF ClearLine, WriteTlc
    <2>3. CASE AssertLine(u)
        BY <1>0, <2>3, WriteTlcFacts DEF AssertLine, WriteTlc
    <2>4. CASE Release(u)
        BY <1>0, <2>1, <2>4, UnlineFacts DEF Release
    <2>5. CASE Look(u)
      <3>1. faults' \in 0..MaxFaults
          BY <1>0, <2>5, SeesTyped DEF Look
      <3>2. blind' \in BOOLEAN
          BY <1>0, <2>5 DEF Look
      <3> QED BY <1>0, <2>5, <3>1, <3>2 DEF Look
    <2>6. CASE Disarm(u)
      <3>1. faults' \in 0..MaxFaults /\ blind' \in BOOLEAN
          BY <1>0, <2>6 DEF Disarm
      <3> QED BY <1>0, <2>6, <3>1 DEF Disarm
    <2>7. CASE Arm(u) \/ Route(u) \/ ReadTlc(u)
        BY <1>0, <2>7 DEF Arm, Route, ReadTlc, RequestFails
    <2>8. CASE Check(u) \/ Wait(u)
        BY <1>0, <2>8, SeesTyped DEF Check, Wait, history
    <2> QED BY <1>1, <2>2, <2>3, <2>4, <2>5, <2>6, <2>7, <2>8 DEF Halting
  <1>2. CASE PollReleases \/ GiveUp
    <2>1. cur \in Cores
        BY <1>2 DEF PollReleases, GiveUp, Access, Threads
    <2> QED BY <1>0, <1>2, <2>1, UnlineFacts, ReleaseLineFacts DEF PollReleases, GiveUp
  <1>3. CASE Listen \/ Query \/ Continue \/ Forget \/ \E c \in Cores : Stops(c) \/ Hits(c) \/ Starts(c)
      BY <1>0, <1>3 DEF Listen, Query, Continue, Forget, Stops, Hits, Starts, history
  <1>4. CASE Poll \/ PollAgain \/ Resume \/ LetGo \/ Detach \/ GdbReset \/ Probe
             \/ Scan \/ Scanned \/ \E c \in Cores : Attach(c)
    <2>1. UNCHANGED <<lineFault, loose, passed, blind, torn, stray>>
        BY <1>4 DEF Poll, PollAgain, Resume, LetGo, Detach, GdbReset, Probe, Scan, Scanned, Attach
    <2>2. faults' \in 0..MaxFaults
        BY <1>0, <1>4, SeesTyped, DiscoverTyped
           DEF Poll, PollAgain, Resume, LetGo, Detach, GdbReset, Probe, Scan, Scanned, Attach, ResetLost
    <2> QED BY <1>0, <2>1, <2>2
  <1>5. CASE DropLine
      BY <1>0, <1>5, ReleaseLineFacts DEF DropLine
  <1>6. CASE ClearEvents \/ FlashDiscover \/ EndDiscover
      BY <1>0, <1>6, DiscoverTyped DEF ClearEvents, FlashDiscover, EndDiscover, Rediscovered
  <1>7. CASE FlashBegin
      BY <1>0, <1>7, Zenon DEF FlashBegin
  <1>8. CASE FlashReset \/ EndReset
    <2>1. UNCHANGED <<lineFault, blind, torn, stray>>
        BY <1>8 DEF FlashReset, EndReset, ResetAndHalt, NotBack
    <2>2. faults' \in 0..MaxFaults
        BY <1>0, <1>8 DEF FlashReset, EndReset, ResetAndHalt, NotBack, ResetLost
    <2>3. loose' \in BOOLEAN /\ passed' \subseteq Cores
        BY <1>0, <1>8 DEF FlashReset, EndReset, ResetAndHalt, NotBack, LeaveFlash
    <2> QED BY <1>0, <2>1, <2>2, <2>3
  <1>9. CASE NextCore
    <2>1. UNCHANGED <<lineFault, loose, blind, torn, stray>>
        BY <1>9 DEF NextCore
    <2>2. todo # <<>> => Head(todo) \in Cores
        BY DEF Typed, SessionTypes
    <2>3. faults' \in 0..MaxFaults /\ passed' \subseteq Cores
        BY <1>0, <1>9, <2>2, SeesTyped DEF NextCore
    <2> QED BY <1>0, <2>1, <2>3
  <1>10. CASE HaltFailed \/ Program \/ FlashEnd
      BY <1>0, <1>10 DEF HaltFailed, Program, FlashEnd, LeaveFlash
  <1>11. CASE StartCore
    <2>1. UNCHANGED <<loose, passed, blind, torn, stray>>
        BY <1>11 DEF StartCore
    <2>2. faults' \in 0..MaxFaults
        BY <1>0, <1>11, SeesTyped DEF StartCore
    <2>3. lineFault' \in BOOLEAN
        BY <1>0, <1>11 DEF StartCore
    <2> QED BY <1>0, <2>1, <2>2, <2>3
  <1> QED BY <1>1, <1>2, <1>3, <1>4, <1>5, <1>6, <1>7, <1>8, <1>9, <1>10, <1>11
             DEF Next, Gdb, User, Flash, Users

(* A request begins. *)
LEMMA RequestTyped ==
  ASSUME ThreadTypes, NEW u \in Users, NEW c \in Cores, NEW inside \in BOOLEAN, Request(u, c, inside)
  PROVE  ThreadTypes'
  BY OrderFacts DEF ThreadTypes, Request, Goto, After, Pcs, RequestPcs

LEMMA ThreadTyped == ASSUME Typed, Threads, Next PROVE ThreadTypes'
  <1> USE DEF ThreadTypes, Pcs, RequestPcs, Goto
  <1>0. ThreadTypes /\ cur \in Cores \cup {None} /\ {"gdb", "flash"} \subseteq Users
      BY DEF Typed, SessionTypes, Users
  <1>1. ASSUME NEW u \in Users, Halting(u) PROVE ThreadTypes'
    <2>0. core[u] \in Cores /\ others[u] \in Seq(Cores)
          /\ (others[u] # <<>> => Tail(others[u]) \in Seq(Cores))
        BY <1>0
    <2>1. CASE Look(u)
        BY <1>0, <2>0, <2>1 DEF Look
    <2>2. CASE Disarm(u)
      <3>1. others[u] # <<>>
          BY <2>2 DEF Disarm, Access, Threads
      <3> QED BY <1>0, <2>0, <2>2, <3>1 DEF Disarm
    <2>3. CASE Arm(u) \/ Route(u) \/ ReadTlc(u) \/ ClearLine(u) \/ AssertLine(u)
        BY <1>0, <2>3 DEF Arm, Route, ReadTlc, ClearLine, AssertLine, WriteTlc, RequestFails, After
    <2>4. CASE Check(u)
      <3>1. CASE Request(u, core[u], TRUE)
          BY <1>0, <2>0, <3>1, RequestTyped
      <3>2. CASE Goto(u, Then(u, TRUE)) /\ UNCHANGED <<core, others, inHalt>>
          BY <1>0, <3>2 DEF Then
      <3> QED BY <2>4, <3>1, <3>2 DEF Check
    <2>5. CASE Wait(u)
        BY <1>0, <2>5 DEF Wait
    <2>6. CASE Release(u)
        BY <1>0, <2>6 DEF Release, Then
    <2> QED BY <1>1, <2>1, <2>2, <2>3, <2>4, <2>5, <2>6 DEF Halting
  <1>2. CASE Listen
    <2>1. cur \in Cores
        BY <1>2 DEF Listen, Threads
    <2>2. CASE Request("gdb", cur, FALSE)
        BY <1>0, <2>1, <2>2, RequestTyped
    <2> QED BY <1>0, <1>2, <2>2 DEF Listen
  <1>3. CASE \E c \in Cores : Attach(c)
      BY <1>0, <1>3, RequestTyped DEF Attach
  <1>4. CASE Poll
    <2>1. cur \in Cores
        BY <1>4 DEF Poll, Access, Threads
    <2>2. core' = core \/ core' = [core EXCEPT !["gdb"] = cur]
        BY <1>4 DEF Poll
    <2>3. inHalt' = inHalt
        BY <1>4 DEF Poll
    <2>4. \E pc \in {"unline", "listen", "check"} : at' = [at EXCEPT !["gdb"] = pc]
        BY <1>4 DEF Poll
    <2>5. others' = others
        BY <1>4 DEF Poll
    <2>6. at' \in [Users -> Pcs]
        BY <1>0, <2>4
    <2>7. core' \in [Users -> Cores]
        BY <1>0, <2>1, <2>2
    <2>8. inHalt' \in [Users -> BOOLEAN]
        BY <1>0, <2>3
    <2> QED BY <1>0, <2>5, <2>6, <2>7, <2>8
  <1>5. CASE PollReleases \/ PollAgain \/ GiveUp \/ Resume \/ LetGo \/ Continue \/ Query \/ Detach
      BY <1>0, <1>5 DEF PollReleases, PollAgain, GiveUp, Resume, LetGo, Continue, Query, Detach
  <1>6. CASE GdbReset \/ Probe \/ Forget \/ Scanned
    <2>1. at' = at \/ \E pc \in {"forget", "scan", "told"} : at' = [at EXCEPT !["gdb"] = pc]
        BY <1>6 DEF GdbReset, Probe, Forget, Scanned, threads
    <2>2. others' \in {others, [others EXCEPT !["gdb"] = CoreOrder]} /\ UNCHANGED <<core, inHalt>>
        BY <1>6 DEF GdbReset, Probe, Forget, Scanned, threads
    <2>3. others' \in [Users -> Seq(Cores)]
        BY <1>0, <2>2, OrderFacts
    <2> QED BY <1>0, <2>1, <2>2, <2>3
  <1>7. CASE NextCore
    <2>1. todo # <<>> => Head(todo) \in Cores
        BY DEF Typed, SessionTypes
    <2>2. at' = at \/ \E pc \in {"program", "drop"} : at' = [at EXCEPT !["flash"] = pc]
        BY <1>7 DEF NextCore
    <2>3. /\ core' = core \/ (todo # <<>> /\ core' = [core EXCEPT !["flash"] = Head(todo)])
          /\ UNCHANGED <<others, inHalt>>
        BY <1>7 DEF NextCore
    <2>4. core' \in [Users -> Cores]
        BY <1>0, <2>1, <2>3
    <2> QED BY <1>0, <2>2, <2>3, <2>4
  <1>8. CASE DropLine
      BY <1>0, <1>8 DEF DropLine, flashKeeps
  <1>9. CASE ClearEvents \/ HaltFailed \/ Program \/ FlashBegin \/ FlashEnd
      BY <1>0, <1>9 DEF ClearEvents, HaltFailed, Program, FlashBegin, FlashEnd, LeaveFlash,
                        flashKeeps
  <1>10. CASE FlashReset \/ EndReset
      BY <1>0, <1>10 DEF FlashReset, EndReset, ResetAndHalt, NotBack, LeaveFlash, flashKeeps
  <1>11. CASE FlashDiscover \/ EndDiscover \/ StartCore
      BY <1>0, <1>11 DEF FlashDiscover, EndDiscover, Rediscovered, StartCore, flashKeeps
  <1>12. CASE \E c \in Cores : Stops(c) \/ Hits(c) \/ Starts(c)
      BY <1>0, <1>12 DEF Stops, Hits, Starts, threads
  <1>13. CASE Scan
      BY <1>0, <1>13, OthersTyped DEF Scan
  <1> QED BY <1>1, <1>2, <1>3, <1>4, <1>5, <1>6, <1>7, <1>8, <1>9, <1>10, <1>11, <1>12, <1>13 DEF Next, Gdb, User, Flash, Users

LEMMA SessionTyped == ASSUME Typed, Threads, Next PROVE SessionTypes'
  <1> USE DEF SessionTypes
  <1>0. SessionTypes /\ core["flash"] \in Cores
      BY DEF Typed, ThreadTypes, Users
  <1>1. ASSUME NEW u \in Users, Halting(u) PROVE SessionTypes'
      BY <1>0, <1>1 DEF Halting, Look, Disarm, Arm, Route, ReadTlc, ClearLine, AssertLine, WriteTlc,
                        Check, Wait, Release
  <1>2. CASE Listen \/ Poll \/ PollReleases \/ PollAgain \/ GiveUp \/ Resume \/ LetGo
             \/ Forget \/ Scan \/ Scanned
      BY <1>0, <1>2 DEF Listen, Poll, PollReleases, PollAgain, GiveUp, Resume, LetGo, Forget, Scan,
                        Scanned, gdbKeeps
  <1>3. CASE User
      BY <1>0, <1>3 DEF User, Attach, Continue, Query, Detach, GdbReset, Probe, gdbKeeps, threads
  <1>4. CASE FlashDiscover \/ EndDiscover
    <2>1. Append(Tail(CoreOrder), Cpu0) \in Seq(Cores) /\ CoreOrder \in Seq(Cores)
        BY OrderFacts
    <2> QED BY <1>0, <1>4, <2>1 DEF FlashDiscover, EndDiscover, Rediscovered, flashKeeps
  <1>5. CASE NextCore
    <2>1. todo # <<>> => Tail(todo) \in Seq(Cores)
        BY <1>0
    <2> QED BY <1>0, <1>5, <2>1 DEF NextCore
  <1>6. CASE HaltFailed \/ Program \/ FlashEnd \/ FlashReset \/ EndReset
    <2>1. <<>> \in Seq(Cores)
        OBVIOUS
    <2>2. \/ todo' = <<>> /\ warned' = {}
          \/ todo' = todo /\ warned' \in {warned, warned \cup {core["flash"]}}
        BY <1>6 DEF HaltFailed, Program, FlashEnd, FlashReset, EndReset, ResetAndHalt, NotBack, LeaveFlash
    <2>3. UNCHANGED <<cur, attaching, flashes>>
        BY <1>6 DEF HaltFailed, Program, FlashEnd, FlashReset, EndReset, ResetAndHalt, NotBack, flashKeeps
    <2> QED BY <1>0, <2>1, <2>2, <2>3
  <1>7. CASE DropLine \/ ClearEvents
      BY <1>0, <1>7 DEF DropLine, ClearEvents, flashKeeps
  <1>8. CASE FlashBegin
      BY <1>0, <1>8, RunAssumption DEF FlashBegin, flashKeeps
  <1>9. CASE \E c \in Cores : Stops(c) \/ Hits(c) \/ Starts(c)
      BY <1>0, <1>9 DEF Stops, Hits, Starts, threads
  <1>10. CASE StartCore
    <2>1. todo # <<>> /\ todo' = Tail(todo) /\ UNCHANGED <<cur, attaching, flashes, warned>>
        BY <1>10 DEF StartCore, flashKeeps
    <2> QED BY <1>0, <2>1
  <1> QED BY <1>1, <1>2, <1>3, <1>4, <1>5, <1>6, <1>7, <1>8, <1>9, <1>10 DEF Next, Gdb, Flash, Users

LEMMA NextTyped == ASSUME Typed, Threads, Next PROVE Typed'
  BY TargetTyped, FirmwareTyped, HistoryTyped, ThreadTyped, SessionTyped DEF Typed
-----------------------------------------------------------------------------
(* Where the threads are. *)

LEMMA NextThreads == ASSUME Typed, Threads, Next PROVE Threads'
  <1> USE DEF Threads, GdbPcs, FlashPcs, HaltPcs, RequestPcs, Committed, Goto, Access, None
  <1>0. /\ Threads /\ {"gdb", "flash"} = Users /\ torn \in BOOLEAN
        /\ at \in [Users -> Pcs] /\ core \in [Users -> Cores] /\ cur \in Cores \cup {None}
        /\ others \in [Users -> Seq(Cores)] /\ inHalt \in [Users -> BOOLEAN]
      BY DEF Typed, ThreadTypes, SessionTypes, HistoryTypes, Users
  <1>1. ASSUME NEW u \in Users, Halting(u) PROVE Threads'
    <2>1. CASE Look(u)
      <3>1. UNCHANGED <<lock, torn, core, inHalt, cur>>
          BY <2>1 DEF Look, firmware
      <3>2. \/ others[u] = <<>> /\ at' = [at EXCEPT ![u] = "arm"] /\ others' = others
            \/ others[u] # <<>> /\ at' = [at EXCEPT ![u] = "disarm"] /\ others' = others
            \/ at' = at /\ others' = [others EXCEPT ![u] = Tail(others[u])]
          BY <2>1 DEF Look
      <3>3. at[u] = "look" /\ lock \in {None, u}
          BY <2>1 DEF Look
      <3> QED BY <1>0, <3>1, <3>2, <3>3
    <2>2. CASE Disarm(u)
        BY <1>0, <2>2 DEF Disarm, firmware
    <2>3. CASE Arm(u)
        BY <1>0, <2>3 DEF Arm, RequestFails, After, firmware
    <2>4. CASE Route(u)
        BY <1>0, <2>4 DEF Route, RequestFails, After, firmware
    <2>5. CASE ReadTlc(u)
        BY <1>0, <2>5 DEF ReadTlc, RequestFails, After
    <2>6. CASE ClearLine(u)
      <3>1. UNCHANGED <<lock, torn, core, inHalt, cur, others>> /\ at[u] = "clear"
          BY <2>6 DEF ClearLine, WriteTlc, firmware
      <3>2. \E pc \in {"assert", After(u, inHalt[u], FALSE)} : at' = [at EXCEPT ![u] = pc]
          BY <2>6 DEF ClearLine, WriteTlc, RequestFails
      <3> QED BY <1>0, <3>1, <3>2 DEF After
    <2>7. CASE AssertLine(u)
      <3>1. UNCHANGED <<lock, torn, core, inHalt, cur, others>> /\ at[u] = "assert"
          BY <2>7 DEF AssertLine, WriteTlc, firmware
      <3>2. \E ok \in BOOLEAN : at' = [at EXCEPT ![u] = After(u, inHalt[u], ok)]
          BY <2>7 DEF AssertLine, WriteTlc, RequestFails
      <3> QED BY <1>0, <3>1, <3>2 DEF After
    <2>8. CASE Check(u)
        BY <1>0, <2>8 DEF Check, Request, After, Then, firmware
    <2>9. CASE Wait(u)
      <3>1. UNCHANGED <<lock, torn, core, inHalt, cur, others>> /\ at[u] = "wait"
            /\ at' = [at EXCEPT ![u] = "release"]
          BY <2>9 DEF Wait, firmware, history
      <3> QED BY <1>0, <3>1
    <2>10. CASE Release(u)
        BY <1>0, <2>10 DEF Release, Then
    <2> QED BY <1>1, <2>1, <2>2, <2>3, <2>4, <2>5, <2>6, <2>7, <2>8, <2>9, <2>10 DEF Halting
  <1>2. CASE Listen
      BY <1>0, <1>2 DEF Listen, Request, After, firmware, history
  <1>3. CASE Poll
      BY <1>0, <1>3 DEF Poll, firmware
  <1>4. CASE PollReleases \/ PollAgain \/ GiveUp
      BY <1>0, <1>4 DEF PollReleases, PollAgain, GiveUp, gdbKeeps, firmware
  <1>5. CASE Resume \/ LetGo \/ Continue \/ Query \/ Detach
      BY <1>0, <1>5 DEF Resume, LetGo, Continue, Query, Detach, gdbKeeps, firmware, history
  <1>6. ASSUME NEW c \in Cores, Attach(c) PROVE Threads'
    <2>1. at["flash"] = "idle" /\ UNCHANGED <<lock, torn>>
        BY <1>0, <1>6 DEF Attach, gdbKeeps
    <2>2. CASE Request("gdb", c, FALSE) /\ cur' = c
        BY <1>0, <2>1, <2>2 DEF Request, After
    <2>3. CASE cur' = None /\ at' = [at EXCEPT !["gdb"] = "idle"] /\ UNCHANGED <<core, others, inHalt>>
        BY <1>0, <2>1, <2>3
    <2> QED BY <1>6, <2>2, <2>3 DEF Attach
  <1>7. CASE Probe \/ \E c \in Cores : Stops(c) \/ Hits(c) \/ Starts(c)
    <2>1. UNCHANGED <<at, lock, torn, core, inHalt, cur, others>>
        BY <1>7 DEF Probe, Stops, Hits, Starts, threads, firmware, history
    <2> QED BY <1>0, <2>1
  <1>8. CASE FlashReset \/ EndReset
    <2>1. UNCHANGED <<torn, core, inHalt, cur, others>> /\ at["flash"] \in {"reset", "finish"}
        BY <1>8 DEF FlashReset, EndReset, ResetAndHalt, NotBack, flashKeeps
    <2>2. \/ lock' = lock /\ \E pc \in {"discover", "rediscover"} : at' = [at EXCEPT !["flash"] = pc]
          \/ lock' = None /\ at' = [at EXCEPT !["flash"] = "idle"]
        BY <1>8 DEF FlashReset, EndReset, ResetAndHalt, NotBack, LeaveFlash
    <2> QED BY <1>0, <2>1, <2>2
  <1>9. CASE NextCore
      BY <1>0, <1>9 DEF NextCore, firmware
  <1>10. CASE HaltFailed
      BY <1>0, <1>10 DEF HaltFailed, LeaveFlash, flashKeeps
  <1>11. CASE Program
      BY <1>0, <1>11 DEF Program, LeaveFlash, flashKeeps
  <1>12. CASE FlashEnd
      BY <1>0, <1>12 DEF FlashEnd, LeaveFlash, flashKeeps
  <1>13. CASE FlashBegin
      BY <1>0, <1>13 DEF FlashBegin, flashKeeps
  <1>14. CASE DropLine \/ ClearEvents \/ FlashDiscover \/ EndDiscover \/ StartCore
    <2>1. UNCHANGED <<torn, core, inHalt, cur, others, lock>> /\ at["flash"] \notin RequestPcs \cup {"idle"}
        BY <1>14 DEF DropLine, ClearEvents, FlashDiscover, EndDiscover, Rediscovered, StartCore, flashKeeps
    <2>2. \E pc \in {"clear0", "check", "next", "start"} : at' = [at EXCEPT !["flash"] = pc]
        BY <1>0, <1>14 DEF DropLine, ClearEvents, FlashDiscover, EndDiscover, Rediscovered, StartCore
    <2> QED BY <1>0, <2>1, <2>2
  <1>15. CASE GdbReset \/ Forget \/ Scanned
    <2>1. UNCHANGED <<torn, core, inHalt, cur, lock>> /\ at["gdb"] \in {"told", "forget", "scan"}
        BY <1>15 DEF GdbReset, Forget, Scanned, firmware, history
    <2>2. \E pc \in {"forget", "scan", "told"} : at' = [at EXCEPT !["gdb"] = pc]
        BY <1>15 DEF GdbReset, Forget, Scanned
    <2>3. others'["flash"] = others["flash"]
        BY <1>0, <1>15 DEF GdbReset, Forget, Scanned
    <2> QED BY <1>0, <2>1, <2>2, <2>3
  <1>16. CASE Scan
    <2>1. UNCHANGED <<at, torn, core, inHalt, cur, lock>> /\ at["gdb"] = "scan"
        BY <1>16 DEF Scan
    <2>2. others'["flash"] = others["flash"]
        BY <1>0, <1>16 DEF Scan
    <2> QED BY <1>0, <2>1, <2>2
  <1> QED BY <1>1, <1>2, <1>3, <1>4, <1>5, <1>6, <1>7, <1>8, <1>9, <1>10, <1>11, <1>12, <1>13,
             <1>14, <1>15, <1>16 DEF Next, Gdb, User, Flash, Users

-----------------------------------------------------------------------------
(* The line. *)

LEMMA NextLines == ASSUME Typed, Threads, Lines, Next PROVE Lines'
  <1> USE DEF Lines, Goto, Access
  <1>0. /\ Threads /\ Lines /\ {"gdb", "flash"} = Users
        /\ at \in [Users -> Pcs] /\ core \in [Users -> Cores] /\ cur \in Cores \cup {None}
        /\ haltLine \in [Cores -> BOOLEAN] /\ tlc \in BOOLEAN
      BY DEF Typed, TargetTypes, FirmwareTypes, ThreadTypes, SessionTypes, Users
  <1>a. ASSUME at["flash"] # "idle", at["gdb"] \in {"clear", "assert"} PROVE torn
      BY <1>a DEF Threads, RequestPcs
  <1>1. ASSUME NEW u \in Users, Halting(u) PROVE Lines'
    <2>1. CASE ReadTlc(u)
        BY <1>0, <2>1 DEF ReadTlc, RequestFails, After, LineAccounted, target
    <2>2. CASE ClearLine(u)
      <3>1. LineAccounted'
          BY <1>0, <2>2, WriteTlcFacts DEF ClearLine, WriteTlc, firmware, LineAccounted
      <3> QED BY <1>0, <2>2, <3>1 DEF ClearLine, WriteTlc, RequestFails, After, firmware
    <2>3. CASE AssertLine(u)
      <3>1. LineAccounted'
        <4>1. (\E c \in Cores : haltLine[c]) \/ torn
            BY <1>0, <2>3 DEF AssertLine
        <4> QED BY <2>3, <4>1 DEF AssertLine, WriteTlc, firmware, LineAccounted
      <3> QED BY <1>0, <2>3, <3>1 DEF AssertLine, WriteTlc, RequestFails, After, firmware
    <2>4. CASE Release(u)
      <3>1. core[u] \in Cores /\ torn' = torn
          BY <1>0, <2>4 DEF Release
      <3>2. LineAccounted' /\ haltLine' = [haltLine EXCEPT ![core[u]] = FALSE]
          BY <1>0, <2>4, <3>1, UnlineFacts DEF Release
      <3>3. CASE u = "gdb"
        <4>1. at["flash"] = "idle"
            BY <2>4, <3>3, LockFree DEF Release
        <4> QED BY <1>0, <2>4, <3>1, <3>2, <3>3, <4>1 DEF Release, Then
      <3>4. CASE u = "flash"
          BY <1>0, <1>a, <2>4, <3>1, <3>2, <3>4 DEF Release, Then
      <3> QED BY <1>0, <3>3, <3>4
    <2>5. CASE Look(u) \/ Disarm(u) \/ Arm(u) \/ Route(u) \/ Check(u) \/ Wait(u)
      <3>1. LineAccounted'
          BY <1>0, <2>5 DEF Look, Disarm, Arm, Route, Check, Wait, target, firmware, history,
                            LineAccounted
      <3> QED BY <1>0, <2>5, <3>1 DEF Look, Disarm, Arm, Route, Check, Wait, Request, RequestFails,
                                      After, Then, firmware, history
    <2> QED BY <1>1, <2>1, <2>2, <2>3, <2>4, <2>5 DEF Halting
  <1>2. CASE PollReleases \/ GiveUp
    <2>1. cur \in Cores /\ torn' = torn /\ at["flash"] = "idle"
        BY <1>0, <1>2, LockFree DEF PollReleases, GiveUp, Threads
    <2>2. LineAccounted'
        BY <1>0, <1>2, <2>1, UnlineFacts, ReleaseLineFacts DEF PollReleases, GiveUp
    <2> QED BY <1>0, <1>2, <2>1, <2>2 DEF PollReleases, GiveUp
  <1>3. CASE Listen \/ Poll \/ PollAgain \/ Query \/ (\E c \in Cores : Attach(c)) \/ Continue
    <2>1. UNCHANGED <<haltLine, tlc, lineFault, torn>>
        BY <1>3 DEF Listen, Poll, PollAgain, Query, Attach, Continue, target, firmware, history
    <2>2. /\ at'["gdb"] \notin {"clear", "assert"} /\ at'["flash"] = at["flash"]
          /\ core'["flash"] = core["flash"]
        BY <1>0, <1>3 DEF Listen, Poll, PollAgain, Query, Attach, Continue, Request, After
    <2> QED BY <1>0, <2>1, <2>2 DEF LineAccounted
  <1>4. CASE Resume \/ LetGo \/ Detach
      BY <1>0, <1>4 DEF Resume, LetGo, Detach, firmware, LineAccounted
  <1>5. CASE Probe \/ \E c \in Cores : Stops(c) \/ Hits(c) \/ Starts(c)
    <2>1. UNCHANGED <<at, core, haltLine, tlc, lineFault, torn>>
        BY <1>5 DEF Probe, Stops, Hits, Starts, threads, target, firmware, history
    <2> QED BY <1>0, <2>1 DEF LineAccounted
  <1>6. CASE FlashBegin
      BY <1>0, <1>6 DEF FlashBegin, target, flashKeeps, LineAccounted
  <1>7. CASE DropLine
    <2>1. core["flash"] \in Cores /\ torn' = torn
        BY <1>0, <1>7 DEF DropLine
    <2>2. LineAccounted'
        BY <1>0, <1>7, <2>1, ReleaseLineFacts DEF DropLine
    <2>3. at'["gdb"] = at["gdb"] /\ at'["flash"] \in {"clear0", "check"} /\ at["flash"] # "idle"
        BY <1>0, <1>7 DEF DropLine
    <2> QED BY <1>0, <1>a, <2>1, <2>2, <2>3
  <1>8. CASE FlashReset \/ EndReset \/ FlashDiscover \/ EndDiscover \/ NextCore \/ ClearEvents
             \/ HaltFailed \/ Program \/ FlashEnd
    <2>1. UNCHANGED <<haltLine, tlc, lineFault, torn>>
        BY <1>8 DEF FlashReset, EndReset, ResetAndHalt, NotBack, FlashDiscover, EndDiscover, Rediscovered,
                    NextCore, ClearEvents, HaltFailed, Program, FlashEnd, flashKeeps, target, firmware
    <2>2. core'["gdb"] = core["gdb"]
        BY <1>0, <1>8 DEF FlashReset, EndReset, ResetAndHalt, NotBack, FlashDiscover, EndDiscover,
                    Rediscovered, NextCore, ClearEvents, HaltFailed, Program, FlashEnd, flashKeeps
    <2>3. at'["gdb"] = at["gdb"] /\ at'["flash"] \notin {"clear", "assert"}
      <3>1. CASE FlashReset \/ EndReset \/ FlashDiscover \/ EndDiscover
          BY <1>0, <3>1 DEF FlashReset, EndReset, ResetAndHalt, NotBack, FlashDiscover, EndDiscover,
                            Rediscovered, LeaveFlash
      <3>2. CASE NextCore \/ ClearEvents \/ HaltFailed \/ Program \/ FlashEnd
          BY <1>0, <3>2 DEF NextCore, ClearEvents, HaltFailed, Program, FlashEnd, LeaveFlash
      <3> QED BY <1>8, <3>1, <3>2
    <2> QED BY <1>0, <2>1, <2>2, <2>3 DEF LineAccounted
  <1>9. CASE StartCore
    <2>1. torn' = torn /\ at' = at /\ core' = core /\ at["flash"] = "start"
        BY <1>9 DEF StartCore, flashKeeps
    <2>2. ASSUME tlc' PROVE lineFault' \/ torn' \/ \E c \in Cores : haltLine'[c]
      <3>1. CASE lineFault' = TRUE
          BY <3>1
      <3>2. CASE UNCHANGED <<haltLine, tlc, exevt, state, lineFault>>
          BY <1>0, <2>1, <2>2, <3>2 DEF LineAccounted
      <3>3. ASSUME NEW failed \in {"none", "events", "resume"}, Starting(Head(todo), failed),
                   UNCHANGED lineFault
            PROVE  lineFault' \/ torn' \/ \E c \in Cores : haltLine'[c]
        <4>1. tlc /\ ~haltLine[Head(todo)]
            BY <2>2, <3>3, Zenon DEF Starting
        <4>2. \A c \in Cores : haltLine[c] => haltLine'[c]
            BY <1>0, <3>3, <4>1 DEF Starting
        <4> QED BY <1>0, <2>1, <3>3, <4>1, <4>2 DEF LineAccounted
      <3>4. \/ lineFault' = TRUE \/ UNCHANGED <<haltLine, tlc, exevt, state, lineFault>>
            \/ \E failed \in {"none", "events", "resume"} :
                 Starting(Head(todo), failed) /\ UNCHANGED lineFault
          BY <1>9 DEF StartCore
      <3> QED BY <3>1, <3>2, <3>3, <3>4
    <2>3. LineAccounted'
        BY <2>2 DEF LineAccounted
    <2> QED BY <1>0, <1>a, <2>1, <2>3
  <1>10. CASE GdbReset \/ Forget \/ Scan \/ Scanned
    <2>1. UNCHANGED <<core, haltLine, tlc, lineFault, torn>>
        BY <1>10 DEF GdbReset, Forget, Scan, Scanned, target, firmware, history
    <2>2. at'["gdb"] \notin {"clear", "assert"} /\ at'["flash"] = at["flash"]
        BY <1>0, <1>10 DEF GdbReset, Forget, Scan, Scanned
    <2> QED BY <1>0, <2>1, <2>2 DEF LineAccounted
  <1> QED BY <1>1, <1>2, <1>3, <1>4, <1>5, <1>6, <1>7, <1>8, <1>9, <1>10 DEF Next, Gdb, User, Flash, Users
-----------------------------------------------------------------------------
(* Strays. *)

(* What user u has looked at stays so: it is in no request any more, or    *)
(* has yet to look at anything, or no core but its own was armed or let go. *)
KeepsLooked(u) ==
  \/ at'[u] \notin RequestPcs \/ others'[u] = CoreOrder \/ torn'
  \/ /\ at[u] \in RequestPcs /\ core'[u] = core[u] /\ others'[u] = others[u]
     /\ \A o \in Cores \ {core[u]} : (exevt'[o] => exevt[o]) /\ (Halted(o) => Halted(o)')

LEMMA LookedKept ==
  ASSUME Looked, blind => blind', torn => torn', \A u \in Users : KeepsLooked(u)
  PROVE  Looked'
  <1> SUFFICES ASSUME ~blind', ~torn', NEW u \in Users, at'[u] \in RequestPcs,
                      NEW o \in Cores \ {core'[u]}
               PROVE  Among(others'[u], o) \/ ~exevt'[o] \/ Halted(o)'
      BY DEF Looked
  <1>1. CASE others'[u] = CoreOrder
      BY <1>1, OrderFacts
  <1>2. CASE others'[u] # CoreOrder
    <2>1. /\ at[u] \in RequestPcs /\ core'[u] = core[u] /\ others'[u] = others[u]
          /\ (exevt'[o] => exevt[o]) /\ (Halted(o) => Halted(o)')
        BY <1>2 DEF KeepsLooked
    <2>2. Among(others[u], o) \/ ~exevt[o] \/ Halted(o)
        BY <2>1 DEF Looked
    <2> QED BY <2>1, <2>2
  <1> QED BY <1>1, <1>2

(* A request goes on to the next core when the one at hand is its own,     *)
(* halted or not armed.                                                    *)
LEMMA TailAmong ==
  ASSUME NEW s \in Seq(Cores), s # <<>>, NEW o, Among(s, o), o # Head(s)
  PROVE  Among(Tail(s), o)
  <1>1. PICK i \in 1 .. Len(s) : s[i] = o
      BY DEF Among
  <1>2. i # 1 /\ i - 1 \in 1 .. Len(Tail(s)) /\ Tail(s)[i - 1] = o
      BY <1>1
  <1> QED BY <1>2 DEF Among

LEMMA SkipLooked ==
  ASSUME Typed, Looked, NEW u \in Users, at[u] \in RequestPcs, others[u] # <<>>,
         others' = [others EXCEPT ![u] = Tail(others[u])], core' = core, torn' = torn,
         blind => blind', state' = state,
         \A v \in Users : at'[v] \in RequestPcs => at[v] \in RequestPcs,
         \A o \in Cores : exevt'[o] => exevt[o],
         ~blind' => LET o == Head(others[u]) IN o = core[u] \/ Halted(o) \/ ~exevt'[o]
  PROVE  Looked'
  <1> SUFFICES ASSUME ~blind', ~torn', NEW v \in Users, at'[v] \in RequestPcs,
                      NEW o \in Cores \ {core'[v]}
               PROVE  Among(others'[v], o) \/ ~exevt'[o] \/ Halted(o)'
      BY DEF Looked
  <1>1. Among(others[v], o) \/ ~exevt[o] \/ Halted(o)
      BY DEF Looked
  <1>2. Halted(o)' <=> Halted(o)
      BY DEF Halted
  <1>3. CASE v # u
    <2>1. others'[v] = others[v]
        BY <1>3 DEF Typed, ThreadTypes
    <2> QED BY <1>1, <1>2, <2>1
  <1>4. CASE v = u
    <2>1. others'[u] = Tail(others[u]) /\ others[u] \in Seq(Cores)
        BY DEF Typed, ThreadTypes
    <2>2. CASE o = Head(others[u])
        BY <1>2, <1>4, <2>2
    <2>3. CASE o # Head(others[u])
        BY <1>1, <1>2, <1>4, <2>1, <2>3, TailAmong
    <2> QED BY <2>2, <2>3
  <1> QED BY <1>3, <1>4

LEMMA NextLooked == ASSUME Typed, Threads, Looked, Next PROVE Looked'
  <1> USE DEF Goto, Access
  <1>0. /\ {"gdb", "flash"} = Users
        /\ at \in [Users -> Pcs] /\ core \in [Users -> Cores] /\ cur \in Cores \cup {None}
        /\ others \in [Users -> Seq(Cores)] /\ exevt \in [Cores -> BOOLEAN]
      BY DEF Typed, TargetTypes, ThreadTypes, SessionTypes, Users
  <1>a. ASSUME at["flash"] # "idle", at["gdb"] \in RequestPcs PROVE torn \/ others["gdb"] = CoreOrder
      BY <1>a DEF Threads
  <1>1. ASSUME NEW u \in Users, Halting(u) PROVE Looked'
    <2>1. CASE Look(u)
      <3>1. UNCHANGED <<state, exevt, core, torn>> /\ at[u] \in RequestPcs
          BY <2>1 DEF Look, target, RequestPcs
      <3>2. CASE at' # at
        <4>1. others' = others /\ blind' = blind /\ \A v \in Users : at'[v] \in RequestPcs => at[v] \in RequestPcs
            BY <1>0, <2>1, <3>1, <3>2 DEF Look
        <4>2. \A v \in Users : KeepsLooked(v)
            BY <3>1, <4>1 DEF KeepsLooked, Halted
        <4> QED BY <3>1, <4>1, <4>2, LookedKept
      <3>3. CASE at' = at
        <4>1. /\ others[u] # <<>> /\ others' = [others EXCEPT ![u] = Tail(others[u])]
              /\ blind => blind'
              /\ ~blind' => LET o == Head(others[u]) IN o = core[u] \/ Halted(o) \/ ~exevt[o]
            BY <1>0, <2>1, <3>3 DEF Look
        <4> QED BY <3>1, <3>3, <4>1, SkipLooked
      <3> QED BY <3>2, <3>3
    <2>2. CASE Disarm(u)
      <3>1. others[u] # <<>> /\ Head(others[u]) \in Cores
          BY <1>0, <2>2 DEF Disarm, Threads
      <3>2. /\ at[u] \in RequestPcs /\ others' = [others EXCEPT ![u] = Tail(others[u])]
            /\ core' = core /\ torn' = torn /\ state' = state /\ (blind => blind')
            /\ \A v \in Users : at'[v] \in RequestPcs => at[v] \in RequestPcs
          BY <1>0, <2>2 DEF Disarm, RequestPcs
      <3>3. /\ \A o \in Cores : exevt'[o] => exevt[o]
            /\ ~blind' => ~exevt'[Head(others[u])]
          BY <1>0, <2>2, <3>1 DEF Disarm
      <3> QED BY <3>1, <3>2, <3>3, SkipLooked
    <2>3. CASE Arm(u)
      <3>1. UNCHANGED <<state, core, others, blind, torn>> /\ at[u] \in RequestPcs
          BY <2>3 DEF Arm, RequestPcs
      <3>2. /\ \A v \in Users : at'[v] \in RequestPcs => at[v] \in RequestPcs
            /\ \A o \in Cores \ {core[u]} : exevt'[o] => exevt[o]
          BY <1>0, <2>3, <3>1 DEF Arm, RequestFails
      <3>3. ASSUME NEW v \in Users, v # u, at[v] \in RequestPcs PROVE torn \/ others[v] = CoreOrder
        <4>1. CASE u = "gdb"
          <5>1. at["flash"] = "idle"
              BY <2>3, <4>1, LockFree DEF Arm
          <5> QED BY <1>0, <3>3, <4>1, <5>1 DEF RequestPcs
        <4>2. CASE u = "flash"
            BY <1>0, <1>a, <3>1, <3>3, <4>2 DEF RequestPcs
        <4> QED BY <1>0, <4>1, <4>2
      <3>4. \A v \in Users : KeepsLooked(v)
          BY <3>1, <3>2, <3>3 DEF KeepsLooked, Halted
      <3> QED BY <3>1, <3>4, LookedKept
    <2>4. CASE Route(u) \/ ReadTlc(u)
      <3>1. UNCHANGED <<state, exevt, core, others, blind, torn>> /\ at[u] \in RequestPcs
          BY <2>4 DEF Route, ReadTlc, RequestPcs, target
      <3>2. \A v \in Users : at'[v] \in RequestPcs => at[v] \in RequestPcs
          BY <1>0, <2>4, <3>1 DEF Route, ReadTlc, RequestFails
      <3>3. \A v \in Users : KeepsLooked(v)
          BY <3>1, <3>2 DEF KeepsLooked, Halted
      <3> QED BY <3>1, <3>3, LookedKept
    <2>5. CASE ClearLine(u) \/ AssertLine(u)
      <3>1. UNCHANGED <<exevt, core, others, blind, torn>> /\ at[u] \in RequestPcs
          BY <2>5 DEF ClearLine, AssertLine, WriteTlc, RequestPcs
      <3>2. \A v \in Users : at'[v] \in RequestPcs => at[v] \in RequestPcs
          BY <1>0, <2>5, <3>1 DEF ClearLine, AssertLine, WriteTlc, RequestFails
      <3>3. \A o \in Cores : Halted(o) => Halted(o)'
          BY <2>5, WriteTlcFacts DEF ClearLine, AssertLine
      <3>4. \A v \in Users : KeepsLooked(v)
          BY <3>1, <3>2, <3>3 DEF KeepsLooked
      <3> QED BY <3>1, <3>4, LookedKept
    <2>6. CASE Check(u) \/ Wait(u) \/ Release(u)
      <3>1. UNCHANGED <<exevt, blind, torn>>
          BY <2>6 DEF Check, Wait, Release, target, history
      <3>2. state' = state
        <4>1. core[u] \in Cores
            BY <1>0
        <4> QED BY <2>6, <4>1, UnlineFacts DEF Check, Wait, Release, target
      <3>3. \A v \in Users :
              \/ at'[v] \notin RequestPcs \/ others'[v] = CoreOrder
              \/ at'[v] = at[v] /\ core'[v] = core[v] /\ others'[v] = others[v]
          BY <1>0, <2>6 DEF Check, Wait, Release, Then, After, Request, RequestPcs
      <3>4. \A v \in Users : KeepsLooked(v)
          BY <3>1, <3>2, <3>3 DEF KeepsLooked, Halted
      <3> QED BY <3>1, <3>4, LookedKept
    <2> QED BY <1>1, <2>1, <2>2, <2>3, <2>4, <2>5, <2>6 DEF Halting
  <1>2. CASE Resume \/ LetGo \/ Detach \/ GdbReset
    <2>1. at["flash"] = "idle" /\ UNCHANGED <<blind, torn>>
        BY <1>2, LockFree DEF Resume, LetGo, Detach, GdbReset
    <2>2. at'["gdb"] \notin RequestPcs /\ at'["flash"] \notin RequestPcs
        BY <1>0, <1>2, <2>1 DEF Resume, LetGo, Detach, GdbReset, RequestPcs
    <2> QED BY <1>0, <2>1, <2>2, LookedKept DEF KeepsLooked
  <1>3. CASE PollReleases \/ GiveUp
    <2>1. at["flash"] = "idle" /\ UNCHANGED <<blind, torn>>
        BY <1>3, LockFree DEF PollReleases, GiveUp
    <2>2. at'["gdb"] \notin RequestPcs /\ at'["flash"] \notin RequestPcs
        BY <1>0, <1>3, <2>1 DEF PollReleases, GiveUp, RequestPcs
    <2> QED BY <1>0, <2>1, <2>2, LookedKept DEF KeepsLooked
  <1>4. CASE Listen \/ Poll \/ PollAgain \/ (\E c \in Cores : Attach(c)) \/ Continue \/ Query \/ Probe
             \/ Forget \/ Scan \/ Scanned
    <2>1. UNCHANGED <<state, exevt, blind, torn>>
        BY <1>4 DEF Listen, Poll, PollAgain, Attach, Continue, Query, Probe, Forget, Scan, Scanned, target,
                    history
    <2>2. \/ at'["gdb"] \notin RequestPcs \/ others'["gdb"] = CoreOrder
          \/ at' = at /\ core' = core /\ others' = others
      <3>1. CASE Listen \/ \E c \in Cores : Attach(c)
          BY <1>0, <3>1 DEF Listen, Attach, Request, RequestPcs
      <3>2. CASE Poll \/ PollAgain \/ Continue \/ Query \/ Forget \/ Scan \/ Scanned
          BY <1>0, <3>2 DEF Poll, PollAgain, Continue, Query, Forget, Scan, Scanned, RequestPcs
      <3>3. CASE Probe
          BY <3>3 DEF Probe, threads
      <3> QED BY <1>4, <3>1, <3>2, <3>3
    <2>3. at'["flash"] = at["flash"] /\ core'["flash"] = core["flash"] /\ others'["flash"] = others["flash"]
        BY <1>0, <1>4 DEF Listen, Poll, PollAgain, Attach, Continue, Query, Probe, Forget, Scan, Scanned,
                          Request, threads
    <2>4. \A v \in Users : KeepsLooked(v)
        BY <1>0, <2>1, <2>2, <2>3 DEF KeepsLooked, Halted
    <2> QED BY <2>1, <2>4, LookedKept
  <1>5. CASE FlashReset \/ EndReset \/ FlashDiscover \/ EndDiscover \/ NextCore \/ DropLine \/ ClearEvents
             \/ HaltFailed \/ Program \/ StartCore \/ FlashEnd
    <2>1. UNCHANGED <<blind, torn>> /\ at["flash"] # "idle"
        BY <1>5 DEF FlashReset, EndReset, ResetAndHalt, NotBack, FlashDiscover, EndDiscover, Rediscovered,
                    NextCore, DropLine, ClearEvents, HaltFailed, Program, StartCore, FlashEnd
    <2>2. at'["flash"] \notin RequestPcs /\ at'["gdb"] = at["gdb"]
      <3>1. CASE FlashReset \/ EndReset \/ FlashDiscover \/ EndDiscover
          BY <1>0, <3>1 DEF FlashReset, EndReset, ResetAndHalt, NotBack, FlashDiscover, EndDiscover,
                            Rediscovered, LeaveFlash, RequestPcs
      <3>2. CASE NextCore \/ DropLine \/ ClearEvents \/ HaltFailed \/ Program \/ StartCore \/ FlashEnd
          BY <1>0, <3>2 DEF NextCore, DropLine, ClearEvents, HaltFailed, Program, StartCore, FlashEnd,
                            LeaveFlash, RequestPcs
      <3> QED BY <1>5, <3>1, <3>2
    <2>3. others' = others
        BY <1>5 DEF FlashReset, EndReset, ResetAndHalt, NotBack, FlashDiscover, EndDiscover, Rediscovered,
                    NextCore, DropLine, ClearEvents, HaltFailed, Program, StartCore, FlashEnd, flashKeeps
    <2> QED BY <1>0, <1>a, <2>1, <2>2, <2>3, LookedKept DEF KeepsLooked
  <1>6. CASE FlashBegin
    <2>1. UNCHANGED <<state, exevt, core, others, blind>> /\ (torn => torn')
        BY <1>6 DEF FlashBegin, target, flashKeeps
    <2>2. at'["gdb"] = at["gdb"] /\ at'["flash"] \notin RequestPcs
        BY <1>0, <1>6 DEF FlashBegin, RequestPcs
    <2> QED BY <1>0, <2>1, <2>2, LookedKept DEF KeepsLooked, Halted
  <1>7. ASSUME NEW c \in Cores, Stops(c) \/ Hits(c) \/ Starts(c) PROVE Looked'
    <2>1. UNCHANGED <<exevt, at, core, others, blind, torn>>
        BY <1>7 DEF Stops, Hits, Starts, threads, history
    <2>2. \A o \in Cores : Halted(o) => Halted(o)'
        BY <1>7 DEF Stops, Hits, Starts, Halted, Typed, TargetTypes
    <2> QED BY <2>1, <2>2, LookedKept DEF KeepsLooked
  <1> QED BY <1>1, <1>2, <1>3, <1>4, <1>5, <1>6, <1>7 DEF Next, Gdb, User, Flash, Users

(* The edge: at its moment every other core was gone through. *)
LEMMA NextNoStray == ASSUME Typed, Threads, Looked, NoStrayHalt, Next PROVE NoStrayHalt'
  <1> USE DEF NoStrayHalt
  <1>0. /\ Users = {"gdb", "flash"} /\ core \in [Users -> Cores] /\ cur \in Cores \cup {None}
        /\ others \in [Users -> Seq(Cores)]
      BY DEF Typed, ThreadTypes, SessionTypes, Users
  <1>1. ASSUME NEW u \in Users, AssertLine(u) PROVE NoStrayHalt'
    <2>1. at[u] = "assert" /\ others[u] = <<>> /\ UNCHANGED <<blind, torn>>
        BY <1>1 DEF AssertLine, Access, WriteTlc, Threads, Committed
    <2>2. ASSUME ~blind, ~torn PROVE Struck \subseteq Wanted
      <3>1. \A o \in Cores \ {core[u]} : ~exevt[o] \/ Halted(o)
          BY <2>1, <2>2 DEF Looked, RequestPcs, Among
      <3>2. core[u] \in Wanted
          BY <2>1 DEF Wanted, RequestPcs
      <3> QED BY <3>1, <3>2 DEF Struck, Halted
    <2>3. stray' = stray \/ stray' = (stray \/ (TRUE /\ ~tlc /\ ~(Struck \subseteq Wanted)))
        BY <1>1 DEF AssertLine, WriteTlc, Drive
    <2> QED BY <2>1, <2>2, <2>3
  <1>2. ASSUME NEW u \in Users, ClearLine(u) PROVE NoStrayHalt'
    <2>1. stray' = stray /\ UNCHANGED <<blind, torn>>
        BY <1>2, DriveTyped DEF ClearLine, WriteTlc
    <2> QED BY <2>1
  <1>3. ASSUME NEW u \in Users, Release(u) PROVE NoStrayHalt'
    <2>1. core[u] \in Cores
        BY <1>0
    <2> QED BY <1>3, <2>1, UnlineFacts DEF Release
  <1>4. ASSUME NEW u \in Users,
               Look(u) \/ Disarm(u) \/ Arm(u) \/ Route(u) \/ ReadTlc(u) \/ Check(u) \/ Wait(u)
        PROVE  NoStrayHalt'
    <2>1. stray' = stray /\ torn' = torn
        BY <1>4 DEF Look, Disarm, Arm, Route, ReadTlc, Check, Wait, target, history
    <2>2. blind' = blind \/ blind' = TRUE
        BY <1>4 DEF Look, Disarm, Arm, Route, ReadTlc, Check, Wait, target, history
    <2> QED BY <2>1, <2>2
  <1>5. CASE PollReleases \/ GiveUp \/ DropLine
    <2>1. cur \in Cores \/ DropLine
        BY <1>5 DEF PollReleases, GiveUp, Access, Threads
    <2>2. core["flash"] \in Cores
        BY <1>0
    <2> QED BY <1>5, <2>1, <2>2, UnlineFacts, ReleaseLineFacts DEF PollReleases, GiveUp, DropLine
  <1>6. CASE Listen \/ Poll \/ PollAgain \/ Resume \/ LetGo \/ Forget \/ Scan \/ Scanned \/ User
      BY <1>6 DEF Listen, Poll, PollAgain, Resume, LetGo, Forget, Scan, Scanned, User, Attach, Continue,
                  Query, Detach, GdbReset, Probe, history
  <1>7. CASE FlashReset \/ EndReset \/ FlashDiscover \/ EndDiscover \/ NextCore \/ ClearEvents
             \/ HaltFailed \/ Program \/ StartCore \/ FlashEnd
      BY <1>7 DEF FlashReset, EndReset, ResetAndHalt, NotBack, FlashDiscover, EndDiscover, Rediscovered,
                  NextCore, ClearEvents, HaltFailed, Program, StartCore, FlashEnd
  <1>8. CASE FlashBegin \/ \E c \in Cores : Stops(c) \/ Hits(c) \/ Starts(c)
    <2>1. stray' = stray /\ blind' = blind /\ (torn => torn')
        BY <1>8 DEF FlashBegin, Stops, Hits, Starts, history
    <2> QED BY <2>1
  <1> QED BY <1>1, <1>2, <1>3, <1>4, <1>5, <1>6, <1>7, <1>8 DEF Next, Gdb, Flash, Halting, Users
-----------------------------------------------------------------------------
(* halt_all. *)

(* No core is set going: what every step does to the cores but a reset and *)
(* a resume.                                                               *)
Stays ==
  \A c \in Cores : /\ Halted(c) => Halted(c)'
                   /\ state'[c] = "boot" => state[c] = "boot"
                   /\ Still(Cpu0) /\ Still(c) => Still(c)'

LEMMA StaysFacts ==
  /\ state' = state => Stays
  /\ Typed /\ (\A c \in Cores : (Halted(c) => Halted(c)') /\ (state'[c] = "boot" <=> state[c] = "boot"))
       => Stays
  /\ Typed => \A c \in Cores : Stops(c) \/ Hits(c) \/ Starts(c) => Stays
  <1>1. state' = state => Stays
      BY DEF Stays, Halted, Still
  <1>2. ASSUME Typed,
               \A c \in Cores : (Halted(c) => Halted(c)') /\ (state'[c] = "boot" <=> state[c] = "boot")
        PROVE  Stays
    <2> SUFFICES ASSUME NEW c \in Cores
                 PROVE  /\ Halted(c) => Halted(c)'
                        /\ state'[c] = "boot" => state[c] = "boot"
                        /\ Still(Cpu0) /\ Still(c) => Still(c)'
        BY DEF Stays
    <2>1. (Halted(c) => Halted(c)') /\ (state'[c] = "boot" <=> state[c] = "boot")
        BY <1>2
    <2> QED BY <2>1 DEF Halted, Still
  <1>3. ASSUME Typed, NEW c \in Cores, Stops(c) \/ Hits(c) \/ Starts(c) PROVE Stays
    <2>1. state \in [Cores -> {"run", "stopping", "halt", "boot"}] /\ Cpu0 \in Cores
        BY <1>3, OrderFacts DEF Typed, TargetTypes
    <2>2. CASE Stops(c) \/ Hits(c)
        BY <2>1, <2>2 DEF Stops, Hits, Stays, Halted, Still
    <2>3. CASE Starts(c)
        BY <2>1, <2>3 DEF Starts, Stays, Halted, Still
    <2> QED BY <1>3, <2>2, <2>3
  <1> QED BY <1>1, <1>2, <1>3

(* A core that stands still goes on doing so while a session is at work. *)
KeepsStanding ==
  /\ UNCHANGED <<todo, loose, passed>> /\ warned \subseteq warned' /\ core'["flash"] = core["flash"]
  /\ at'["flash"] = "discover" => at["flash"] = "discover"
  /\ at'["flash"] \in HaltPcs => at["flash"] \in HaltPcs
  /\ at'["flash"] \in HaltPcs \ {"next", "program"} => at["flash"] \in HaltPcs \ {"next", "program"}
  /\ at'["flash"] = "program" => at["flash"] = "program"
  /\ at'["flash"] = "next" =>
       at["flash"] = "next" \/ Halted(core["flash"])' \/ core["flash"] \in warned'

LEMMA StandingOff ==
  ASSUME at'["flash"] \notin HaltPcs \cup {"discover"}, state'[Cpu0] # "boot" PROVE Standing'
  <1>1. at'["flash"] # "program"
      BY DEF HaltPcs
  <1> QED BY <1>1 DEF Standing

LEMMA StandingKept ==
  ASSUME Typed, Standing, Stays, at'["flash"] \notin HaltPcs \cup {"discover"} \/ KeepsStanding
  PROVE  Standing'
  <1>0. Cpu0 \in Cores /\ state'[Cpu0] # "boot" /\ core["flash"] \in Cores
      BY OrderFacts DEF Standing, Stays, Typed, ThreadTypes, Users
  <1>1. CASE at'["flash"] \notin HaltPcs \cup {"discover"}
      BY <1>0, <1>1, StandingOff
  <1>2. CASE at'["flash"] \in HaltPcs \cup {"discover"} /\ KeepsStanding
    <2>1. at["flash"] \in HaltPcs \cup {"discover"} /\ loose' = loose /\ passed' = passed
          /\ todo' = todo /\ core'["flash"] = core["flash"]
        BY <1>2 DEF KeepsStanding
    <2>2. ASSUME ~loose', NEW c \in Cores PROVE Still(c)'
      <3>1. Still(Cpu0) /\ Still(c)
          BY <1>0, <2>1, <2>2 DEF Standing
      <3> QED BY <3>1 DEF Stays
    <2>3. ASSUME at'["flash"] \in HaltPcs, loose', NEW c \in Cores
          PROVE  \/ Halted(c)' \/ c \in warned' \/ c \in passed' \/ Among(todo', c)
                 \/ c = core'["flash"] /\ at'["flash"] \notin {"next", "program"}
      <3>1. at["flash"] \in HaltPcs
          BY <1>2, <2>3 DEF KeepsStanding
      <3>2. \/ Halted(c) \/ c \in warned \/ c \in passed \/ Among(todo, c)
            \/ c = core["flash"] /\ at["flash"] \notin {"next", "program"}
          BY <2>1, <2>3, <3>1 DEF Standing
      <3>3. CASE Halted(c)
          BY <3>3 DEF Stays
      <3>4. CASE c \in warned \/ c \in passed \/ Among(todo, c)
          BY <1>2, <2>1, <3>4 DEF KeepsStanding
      <3>5. CASE c = core["flash"] /\ at["flash"] \notin {"next", "program"}
          BY <1>2, <2>1, <3>5 DEF KeepsStanding
      <3> QED BY <3>2, <3>3, <3>4, <3>5
    <2>4. ASSUME at'["flash"] \in HaltPcs \ {"next", "program"} PROVE state'[core'["flash"]] # "boot"
      <3>1. state[core["flash"]] # "boot"
          BY <1>2, <2>4 DEF KeepsStanding, Standing
      <3> QED BY <1>0, <2>1, <3>1 DEF Stays
    <2>5. at'["flash"] = "program" => todo' = <<>>
        BY <1>2, <2>1 DEF KeepsStanding, Standing
    <2>6. \A c \in Cores : Among(todo, c)' <=> Among(todo', c)
        BY DEF Among
    <2> QED BY <1>0, <2>2, <2>3, <2>4, <2>5, <2>6 DEF Standing
  <1> QED BY <1>1, <1>2

(* What GDB's thread does between its accesses, and what a core does of    *)
(* itself.                                                                 *)
LEMMA OthersStanding ==
  ASSUME Typed, Standing, Stays, at'["flash"] = at["flash"], UNCHANGED <<todo, warned, loose, passed>>,
         core'["flash"] = core["flash"]
  PROVE  Standing'
  BY StandingKept DEF KeepsStanding

LEMMA NextStanding == ASSUME Typed, Threads, Standing, Next PROVE Standing'
  <1> USE DEF Goto, Access
  <1>0. /\ {"gdb", "flash"} = Users
        /\ at \in [Users -> Pcs] /\ core \in [Users -> Cores] /\ cur \in Cores \cup {None}
        /\ todo \in Seq(Cores) /\ state \in [Cores -> {"run", "stopping", "halt", "boot"}]
        /\ Cpu0 \in Cores /\ state[Cpu0] # "boot" /\ faults \in Nat
      BY OrderFacts, RunAssumption
         DEF Typed, TargetTypes, ThreadTypes, SessionTypes, HistoryTypes, Users, Standing
  <1>i. /\ "idle" \notin HaltPcs \cup {"discover"} /\ "reset" \notin HaltPcs \cup {"discover"}
        /\ "finish" \notin HaltPcs \cup {"discover"} /\ "rediscover" \notin HaltPcs \cup {"discover"}
        /\ "start" \notin HaltPcs \cup {"discover"}
      BY DEF HaltPcs, RequestPcs
  <1>1. ASSUME Halting("gdb") PROVE Standing'
    <2>1. at["flash"] = "idle"
        BY <1>1, LockFree DEF Halting, Look, Disarm, Arm, Route, ReadTlc, ClearLine, AssertLine, Check,
                              Wait, Release
    <2>2. at'["flash"] = "idle"
        BY <1>0, <1>1, <2>1 DEF Halting, Look, Disarm, Arm, Route, ReadTlc, ClearLine, AssertLine, Check,
                                Wait, Release, WriteTlc, RequestFails, Request
    <2>3. state'[Cpu0] # "boot"
      <3>1. CASE ClearLine("gdb") \/ AssertLine("gdb")
          BY <1>0, <3>1, WriteTlcFacts DEF ClearLine, AssertLine
      <3>2. CASE Release("gdb")
          BY <1>0, <3>2, UnlineFacts DEF Release
      <3>3. CASE ~(ClearLine("gdb") \/ AssertLine("gdb") \/ Release("gdb"))
          BY <1>0, <1>1, <3>3 DEF Halting, Look, Disarm, Arm, Route, ReadTlc, Check, Wait, target
      <3> QED BY <3>1, <3>2, <3>3
    <2> QED BY <1>i, <2>2, <2>3, StandingOff
  <1>2. ASSUME Halting("flash") PROVE Standing'
    <2>1. at["flash"] \in HaltPcs \ {"next", "program"}
        BY <1>2 DEF Halting, Look, Disarm, Arm, Route, ReadTlc, ClearLine, AssertLine, Check, Wait, Release,
                    HaltPcs, RequestPcs
    <2>2. UNCHANGED <<todo, warned, loose, passed>>
        BY <1>2 DEF Halting, Look, Disarm, Arm, Route, ReadTlc, ClearLine, AssertLine, Check, Wait, Release,
                    WriteTlc, history
    <2>3. core'["flash"] = core["flash"]
        BY <1>0, <1>2 DEF Halting, Look, Disarm, Arm, Route, ReadTlc, ClearLine, AssertLine, Check, Wait,
                          Release, WriteTlc, Request
    <2>4. Stays
      <3>1. CASE ClearLine("flash") \/ AssertLine("flash")
          BY <1>0, <3>1, WriteTlcFacts, StaysFacts DEF ClearLine, AssertLine
      <3>2. CASE Release("flash")
          BY <1>0, <3>2, UnlineFacts, StaysFacts DEF Release
      <3>3. CASE ~(ClearLine("flash") \/ AssertLine("flash") \/ Release("flash"))
          BY <1>2, <3>3, StaysFacts DEF Halting, Look, Disarm, Arm, Route, ReadTlc, Check, Wait, target
      <3> QED BY <3>1, <3>2, <3>3
    <2>5. at'["flash"] \notin {"program", "discover"}
        BY <1>0, <1>2, <2>1 DEF Halting, Look, Disarm, Arm, Route, ReadTlc, ClearLine, AssertLine, Check,
                           Wait, Release, WriteTlc, RequestFails, Request, After, Then, HaltPcs, RequestPcs
    <2>6. at'["flash"] = "next" => Halted(core["flash"])'
      <3>1. CASE Check("flash")
        <4>1. core["flash"] \in Cores /\ state[core["flash"]] # "boot" /\ state' = state
            BY <1>0, <2>1, <3>1 DEF Standing, Check, target
        <4> QED BY <1>0, <3>1, <4>1 DEF Check, Then, After, Request, SeesHalted, Halted
      <3>2. CASE Release("flash")
        <4>1. state' = state /\ core["flash"] \in Cores
            BY <1>0, <3>2, UnlineFacts DEF Release
        <4> QED BY <1>0, <3>2, <4>1 DEF Release, Then, Halted
      <3>3. CASE ~(Check("flash") \/ Release("flash"))
        <4>1. at'["flash"] # "next"
            BY <1>0, <1>2, <2>1, <3>3 DEF Halting, Look, Disarm, Arm, Route, ReadTlc, ClearLine, AssertLine,
                                   Wait, WriteTlc, RequestFails, After, HaltPcs, RequestPcs
        <4> QED BY <4>1
      <3> QED BY <3>1, <3>2, <3>3
    <2> QED BY <2>1, <2>2, <2>3, <2>4, <2>5, <2>6, StandingKept DEF KeepsStanding
  <1>3. CASE PollReleases \/ GiveUp \/ Resume \/ LetGo \/ Detach \/ GdbReset
    <2>1. at["flash"] = "idle"
        BY <1>3, LockFree DEF PollReleases, GiveUp, Resume, LetGo, Detach, GdbReset
    <2>2. at'["flash"] = "idle"
        BY <1>0, <1>3, <2>1 DEF PollReleases, GiveUp, Resume, LetGo, Detach, GdbReset
    <2>3. state'[Cpu0] # "boot"
      <3>1. CASE PollReleases \/ GiveUp
        <4>1. cur \in Cores
            BY <3>1 DEF PollReleases, GiveUp, Threads
        <4> QED BY <1>0, <3>1, <4>1, UnlineFacts, ReleaseLineFacts DEF PollReleases, GiveUp
      <3>2. CASE Resume \/ LetGo \/ Detach
          BY <1>0, <3>2 DEF Resume, LetGo, Detach, Runs
      <3>3. CASE GdbReset
          BY <1>0, <3>3, RestartsFacts DEF GdbReset, ResetLost
      <3> QED BY <1>3, <3>1, <3>2, <3>3
    <2> QED BY <1>i, <2>2, <2>3, StandingOff
  <1>4. CASE Listen \/ Poll \/ PollAgain \/ (\E c \in Cores : Attach(c)) \/ Continue \/ Query \/ Probe
             \/ Forget \/ Scan \/ Scanned
    <2>1. UNCHANGED <<state, todo, warned, loose, passed>>
        BY <1>4 DEF Listen, Poll, PollAgain, Attach, Continue, Query, Probe, Forget, Scan, Scanned, target,
                    gdbKeeps, threads, history
    <2>2. at'["flash"] = at["flash"] /\ core'["flash"] = core["flash"]
        BY <1>0, <1>4 DEF Listen, Poll, PollAgain, Attach, Continue, Query, Probe, Forget, Scan, Scanned,
                          Request, threads
    <2> QED BY <2>1, <2>2, OthersStanding, StaysFacts
  <1>5. CASE \E c \in Cores : Stops(c) \/ Hits(c) \/ Starts(c)
    <2>1. UNCHANGED <<at, core, todo, warned, loose, passed>>
        BY <1>5 DEF Stops, Hits, Starts, threads, history
    <2> QED BY <1>5, <2>1, OthersStanding, StaysFacts
  <1>6. CASE FlashBegin \/ FlashEnd \/ Program \/ EndDiscover
    <2>1. at'["flash"] \in {"reset", "idle", "finish", "start"} /\ state' = state
        BY <1>0, <1>6 DEF FlashBegin, FlashEnd, Program, EndDiscover, Rediscovered, LeaveFlash, target
    <2> QED BY <1>0, <1>i, <2>1, StandingOff
  <1>7. CASE EndReset \/ NotBack("reset")
    <2>1. at'["flash"] \in {"idle", "rediscover"}
        BY <1>0, <1>7 DEF EndReset, ResetAndHalt, NotBack, LeaveFlash
    <2>2. state'[Cpu0] # "boot"
        BY <1>0, <1>7, RestartsFacts DEF EndReset, ResetAndHalt, NotBack, ResetLost
    <2> QED BY <1>i, <2>1, <2>2, StandingOff
  <1>8. CASE ResetAndHalt("reset", "discover")
    <2>1. state'[Cpu0] # "boot"
        BY <1>0, <1>8, RestartsFacts DEF ResetAndHalt, ResetLost
    <2>2. CASE LeaveFlash
      <3>1. at'["flash"] = "idle"
          BY <1>0, <2>2 DEF LeaveFlash
      <3> QED BY <1>i, <2>1, <3>1, StandingOff
    <2>3. CASE Goto("flash", "discover") /\ loose' = (loose \/ faults' # faults)
      <3>1. at'["flash"] = "discover"
          BY <1>0, <2>3
      <3>2. ASSUME ~loose' PROVE \A c \in Cores : Still(c)'
        <4>1. faults' = faults
            BY <2>3, <3>2, Zenon
        <4>2. Restarts(TRUE)
          <5>1. ~Fault
              BY <1>0, <4>1 DEF Fault
          <5> QED BY <1>8, <5>1 DEF ResetAndHalt, ResetLost
        <4> QED BY <4>2, RestartsFacts
      <3>3. "discover" \notin HaltPcs
          BY DEF HaltPcs, RequestPcs
      <3> QED BY <2>1, <3>1, <3>2, <3>3 DEF Standing
    <2> QED BY <1>8, <2>2, <2>3 DEF ResetAndHalt
  <1>9. CASE FlashDiscover
    <2>1. /\ at'["flash"] = "next" /\ at["flash"] = "discover" /\ todo' = Append(Tail(CoreOrder), Cpu0)
          /\ UNCHANGED <<state, loose>>
        BY <1>0, <1>9 DEF FlashDiscover, Rediscovered, target
    <2>2. ASSUME NEW c \in Cores PROVE Among(todo', c)
      <3>1. PICK i \in 1 .. Len(CoreOrder) : CoreOrder[i] = c
          BY OrderFacts DEF Among
      <3>2. todo' = Append(Tail(CoreOrder), Cpu0) /\ Tail(CoreOrder) \in Seq(Cores)
            /\ Len(Tail(CoreOrder)) = Len(CoreOrder) - 1 /\ Len(todo') = Len(CoreOrder)
          BY <2>1, OrderFacts
      <3>3. CASE i = 1
        <4>1. Len(todo') \in 1 .. Len(todo') /\ todo'[Len(todo')] = Cpu0 /\ Cpu0 = c
            BY <3>1, <3>2, <3>3, OrderFacts
        <4> QED BY <4>1 DEF Among
      <3>4. CASE i # 1
        <4>1. i - 1 \in 1 .. Len(todo') /\ todo'[i - 1] = c
            BY <3>1, <3>2, <3>4, OrderFacts
        <4> QED BY <4>1 DEF Among
      <3> QED BY <3>3, <3>4
    <2>3. \A c \in Cores : Still(c)' <=> Still(c)
        BY <2>1 DEF Still
    <2> QED BY <1>0, <2>1, <2>2, <2>3 DEF Standing
  <1>10. CASE NextCore
    <2>0. /\ at["flash"] = "next" /\ UNCHANGED <<state, warned, loose>>
          /\ "next" \in HaltPcs /\ "drop" \in HaltPcs /\ "program" \in HaltPcs
          /\ at'["flash"] \in {"next", "drop", "program"}
        BY <1>0, <1>10 DEF NextCore, target, HaltPcs
    <2>1. ASSUME ~loose' PROVE \A c \in Cores : Still(c)'
        BY <2>0, <2>1 DEF Standing, Still
    <2>2. ASSUME loose' PROVE \A c \in Cores : Halted(c)' \/ c \in warned \/ c \in passed \/ Among(todo, c)
        BY <2>0, <2>2 DEF Standing, Halted
    <2>3. CASE todo = <<>>
      <3>1. at'["flash"] = "program" /\ todo' = <<>> /\ passed' = passed
          BY <1>0, <1>10, <2>3 DEF NextCore
      <3>2. loose' => \A c \in Cores : Halted(c)' \/ c \in warned' \/ c \in passed'
          BY <2>0, <2>2, <2>3, <3>1 DEF Among
      <3> QED BY <1>0, <2>0, <2>1, <3>1, <3>2 DEF Standing
    <2>4. CASE todo # <<>>
      <3>1. todo' = Tail(todo) /\ passed \subseteq passed' /\ Head(todo) \in Cores
          BY <1>0, <1>10, <2>4 DEF NextCore
      <3>2. ASSUME loose', NEW c \in Cores
            PROVE  \/ Halted(c)' \/ c \in warned' \/ c \in passed' \/ Among(todo', c)
                   \/ c = Head(todo)
        <4>1. Halted(c)' \/ c \in warned \/ c \in passed \/ Among(todo, c)
            BY <2>2, <3>2
        <4> QED BY <1>0, <2>0, <2>4, <3>1, <4>1, TailAmong
      <3>3. CASE at'["flash"] = "drop" /\ core'["flash"] = Head(todo) /\ state[Head(todo)] # "boot"
        <4>1. state'[core'["flash"]] # "boot"
            BY <2>0, <3>3
        <4>2. \A c \in Cores : Among(todo, c)' <=> Among(todo', c)
            BY DEF Among
        <4> QED BY <1>0, <2>0, <2>1, <3>2, <3>3, <4>1, <4>2 DEF Standing
      <3>4. CASE at' = at /\ Head(todo) \in passed'
        <4>1. \A c \in Cores : Among(todo, c)' <=> Among(todo', c)
            BY DEF Among
        <4> QED BY <1>0, <2>0, <2>1, <3>2, <3>4, <4>1 DEF Standing
      <3> QED BY <1>0, <1>10, <2>4, <3>3, <3>4 DEF NextCore, SeesStarted
    <2> QED BY <2>3, <2>4
  <1>11. CASE DropLine \/ ClearEvents
    <2>1. at["flash"] \in {"drop", "clear0"} /\ UNCHANGED <<todo, warned, loose, passed, core>>
        BY <1>11 DEF DropLine, ClearEvents, flashKeeps
    <2>2. at'["flash"] \in {"clear0", "check"}
        BY <1>0, <1>11 DEF DropLine, ClearEvents
    <2>3. state' = state
      <3>1. core["flash"] \in Cores
          BY <1>0
      <3> QED BY <1>11, <3>1, ReleaseLineFacts DEF DropLine, ClearEvents
    <2> QED BY <2>1, <2>2, <2>3, StandingKept, StaysFacts DEF KeepsStanding, HaltPcs
  <1>12. CASE HaltFailed
    <2>1. at["flash"] = "failed" /\ UNCHANGED <<state, core>>
        BY <1>12 DEF HaltFailed, target, flashKeeps
    <2>2. CASE at'["flash"] = "idle"
        BY <1>0, <1>i, <2>1, <2>2, StandingOff
    <2>3. CASE at'["flash"] = "next" /\ UNCHANGED <<todo, loose, passed>>
               /\ warned' = warned \cup {core["flash"]}
        BY <2>1, <2>3, StandingKept, StaysFacts DEF KeepsStanding, HaltPcs
    <2> QED BY <1>0, <1>12, <2>2, <2>3 DEF HaltFailed, LeaveFlash
  <1>13. CASE StartCore
    <2>1. at'["flash"] = "start" /\ Head(todo) \in Cores
        BY <1>0, <1>13 DEF StartCore
    <2>2. state'[Cpu0] # "boot"
        BY <1>0, <1>13, <2>1 DEF StartCore, Starting
    <2> QED BY <1>i, <2>1, <2>2, StandingOff
  <1> QED BY <1>1, <1>2, <1>3, <1>4, <1>5, <1>6, <1>7, <1>8, <1>9, <1>10, <1>11, <1>12, <1>13
             DEF Next, Gdb, User, Flash, FlashReset, Users

-----------------------------------------------------------------------------
LEMMA InitRun == Init => RunInv
  <1> SUFFICES ASSUME Init PROVE RunInv
      OBVIOUS
  <1>1. Typed
    <2>1. TargetTypes /\ FirmwareTypes
        BY OrderFacts DEF Init, TargetTypes, FirmwareTypes
    <2>2. ThreadTypes
        BY OrderFacts DEF Init, ThreadTypes, Pcs
    <2>3. <<>> \in Seq(Cores) /\ 0 \in 0..MaxFlash /\ 0 \in 0..MaxFaults
        BY RunAssumption
    <2>4. SessionTypes
        BY <2>3 DEF Init, SessionTypes
    <2>5. HistoryTypes
        BY <2>3 DEF Init, HistoryTypes
    <2> QED BY <2>1, <2>2, <2>4, <2>5 DEF Typed
  <1>2. at["gdb"] = "idle" /\ at["flash"] = "idle"
      BY DEF Init, Users
  <1>3. Threads
      BY <1>2 DEF Init, Threads, GdbPcs, FlashPcs, HaltPcs, RequestPcs, Committed, Users, None
  <1>4. Lines /\ Standing /\ NoStrayHalt
      BY <1>2 DEF Init, Lines, LineAccounted, Standing, NoStrayHalt, HaltPcs, RequestPcs
  <1>5. Looked
      BY <1>2 DEF Looked, RequestPcs, Users
  <1> QED BY <1>1, <1>3, <1>4, <1>5 DEF RunInv

LEMMA StutterRun == ASSUME RunInv, UNCHANGED vars PROVE RunInv'
  <1> USE DEF vars, target, firmware, threads, history
  <1>1. Typed'
      BY DEF RunInv, Typed, TargetTypes, FirmwareTypes, ThreadTypes, SessionTypes, HistoryTypes
  <1>2. Threads' /\ Lines' /\ NoStrayHalt'
      BY DEF RunInv, Threads, Lines, LineAccounted, NoStrayHalt
  <1>3. Looked' /\ Standing'
      BY DEF RunInv, Looked, Standing, Among, Halted, Still
  <1> QED BY <1>1, <1>2, <1>3 DEF RunInv

LEMMA NextRun == ASSUME RunInv, [Next]_vars PROVE RunInv'
  BY NextTyped, NextThreads, NextLines, NextLooked, NextStanding, NextNoStray, StutterRun DEF RunInv

(* For any number of cores, however the accesses of GDB's thread and of    *)
(* flash sessions interleave and whichever of them fail.                   *)
THEOREM RunInvariant == Spec => []RunInv
  <1>1. Init => RunInv
      BY InitRun
  <1>2. RunInv /\ [Next]_vars => RunInv'
      BY NextRun
  <1> QED BY <1>1, <1>2, PTL DEF Spec

(* The state of target, firmware and threads stays in its types. *)
THEOREM RunTypeOK == Spec => []TypeOK
  <1>1. RunInv => TypeOK
      BY DEF RunInv, Typed, TargetTypes, FirmwareTypes, ThreadTypes, SessionTypes, HistoryTypes, TypeOK
  <1> QED BY <1>1, RunInvariant, PTL

(* A line forced active is one the firmware knows it must release          *)
(* (tricore_halt's "release the line whatever happened", the release in    *)
(* tricore_halt_poll and in tricore_halt_release).                         *)
THEOREM RunLineAccounted == Spec => []LineAccounted
  <1>1. RunInv => LineAccounted
      BY DEF RunInv, Lines
  <1> QED BY <1>1, RunInvariant, PTL

(* A halt stops no core but the one it was for (the loop of                *)
(* tricore_halt_request over the other cores).                             *)
THEOREM RunNoStrayHalt == Spec => []NoStrayHalt
  <1>1. RunInv => NoStrayHalt
      BY DEF RunInv
  <1> QED BY <1>1, RunInvariant, PTL

(* While the flash is programmed every core stands still, was warned of,   *)
(* or was passed by after a reset that did not stop CPU0 (halt_all and     *)
(* tricore_flash_reset_and_halt).                                          *)
THEOREM RunFlashQuiet == Spec => []FlashQuiet
  <1>1. RunInv => FlashQuiet
    <2> SUFFICES ASSUME RunInv, at["flash"] = "program", NEW c \in Cores
                 PROVE  Still(c) \/ c \in warned \/ (loose /\ c \in passed)
        BY DEF FlashQuiet
    <2>1. Standing /\ at["flash"] \in HaltPcs /\ todo = <<>> /\ loose \in BOOLEAN
        BY DEF RunInv, Standing, HaltPcs, Typed, HistoryTypes
    <2>2. CASE ~loose
        BY <2>1, <2>2 DEF Standing
    <2>3. CASE loose
      <3>1. Halted(c) \/ c \in warned \/ c \in passed
          BY <2>1, <2>3 DEF Standing, Among
      <3> QED BY <2>3, <3>1 DEF Halted, Still
    <2> QED BY <2>2, <2>3
  <1> QED BY <1>1, RunInvariant, PTL
=============================================================================
