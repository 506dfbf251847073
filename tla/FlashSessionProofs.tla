-------------------------- MODULE FlashSessionProofs --------------------------
(***************************************************************************)
(* Proofs about FlashSession, for any number of sectors and any limits on  *)
(* merged erases and loads: what the runs check of a session, and that     *)
(* every step of it leaves less to do.                                     *)
(***************************************************************************)
EXTENDS FlashSession, WellFoundedInduction, FiniteSetTheorems, TLAPS

-----------------------------------------------------------------------------
(* Addresses. *)

LEMMA ModOnce ==
  ASSUME NEW n \in Nat, n > 0, NEW a \in Nat, a < n
  PROVE  a % n = a /\ (a + n) % n = a
  <1>1. a % n = a
      BY SMTT(20)
  <1>2. (a + n) % n = a
      BY SMTT(20)
  <1> QED BY <1>1, <1>2

Half == NSectors \div 2

LEMMA HalfFacts == Half \in Nat /\ NSectors = Half + Half /\ NSectors \in Nat /\ NSectors > 0
  BY FlashAssumption DEF Half

(* The swap exchanges the two halves. *)
LEMMA ExchangeIs ==
  ASSUME NEW s \in Sectors
  PROVE  Exchange(s) = IF s < Half THEN s + Half ELSE s - Half
  <1>1. CASE s < Half
    <2>1. s + Half \in Nat /\ s + Half < NSectors
        BY <1>1, HalfFacts DEF Sectors
    <2>2. (s + Half) % NSectors = s + Half
        BY <2>1, HalfFacts, ModOnce
    <2> QED BY <1>1, <2>2 DEF Exchange, Half
  <1>2. CASE s >= Half
    <2>1. s - Half \in Nat /\ s - Half < NSectors /\ (s - Half) + NSectors = s + Half
        BY <1>2, HalfFacts DEF Sectors
    <2>2. (s + Half) % NSectors = s - Half
        BY <2>1, HalfFacts, ModOnce
    <2> QED BY <1>2, <2>2, HalfFacts DEF Exchange, Half, Sectors
  <1> QED BY <1>1, <1>2, HalfFacts DEF Sectors

(* An address reaches one sector, and no two addresses the same. *)
LEMMA AddressFacts ==
  /\ \A s \in Sectors : command_address(s) \in Sectors /\ Cell(s) \in Sectors
  /\ \A s, t \in Sectors : command_address(s) = command_address(t) => s = t
  /\ \A s, t \in Sectors : Cell(s) = Cell(t) => s = t
  /\ ~Misread => \A s \in Sectors : command_address(s) = Cell(s)
  /\ Misread /\ swap \in BOOLEAN /\ swapped \in BOOLEAN =>
       \A s \in Sectors : command_address(Exchange(s)) = Cell(s)
  /\ \A s \in Sectors : Exchange(s) \in Sectors
  <1>1. \A s \in Sectors : Exchange(s) \in Sectors /\ Exchange(Exchange(s)) = s
      BY ExchangeIs, HalfFacts DEF Sectors
  <1>2. \A s, t \in Sectors : Exchange(s) = Exchange(t) => s = t
      BY ExchangeIs, HalfFacts DEF Sectors
  <1> QED BY <1>1, <1>2 DEF command_address, Cell, Misread

(* The sector a stage takes next is one it has to do. *)
LEMMA MinIn ==
  ASSUME NEW S \in SUBSET Nat, S # {} PROVE Min(S) \in S
  <1>1. \A x, y \in Nat : <<y, x>> \in OpToRel(<, Nat) <=> y < x
      BY DEF OpToRel
  <1>2. PICK x \in S : \A y \in S : ~ (<<y, x>> \in OpToRel(<, Nat))
      BY NatLessThanWellFounded, WFMin
  <1>3. \A y \in S : x <= y
    <2> TAKE y \in S
    <2>1. x \in Nat /\ y \in Nat
        OBVIOUS
    <2>2. ~ (y < x)
        BY <1>1, <1>2, <2>1
    <2> QED BY <2>1, <2>2
  <1> QED BY <1>3 DEF Min

LEMMA NextSector ==
  ASSUME todo \subseteq Sectors, todo # {} PROVE Min(todo) \in todo /\ Min(todo) \in Sectors
  <1>1. Sectors \subseteq Nat
      BY DEF Sectors
  <1>2. todo \in SUBSET Nat
      BY <1>1
  <1>3. Min(todo) \in todo
      BY <1>2, MinIn
  <1> QED BY <1>3

(* A run of erases is one the part can take, of sectors to be erased. *)
LEMMA RunFacts ==
  ASSUME todo \subseteq Sectors, NEW s \in todo
  PROVE  Run(s) \in 1 .. RunMax /\ Merges(s, Run(s))
  <1> DEFINE R == {r \in 1 .. RunMax : (r = 1 \/ multi) /\ Merges(s, r)}
             D == {RunMax - r : r \in R}
  <1>1. RunMax \in Nat \ {0}
      BY FlashAssumption
  <1>2. 1 \in R
      BY <1>1 DEF Merges
  <1>3. D \in SUBSET Nat /\ D # {}
      BY <1>1, <1>2
  <1>4. PICK d \in D : \A e \in D : ~ (<<e, d>> \in OpToRel(<, Nat))
      BY <1>3, NatLessThanWellFounded, WFMin
  <1>5. PICK m \in R : d = RunMax - m
      BY <1>4
  <1>6. \A r \in R : m >= r
    <2> TAKE r \in R
    <2>1. RunMax - r \in D /\ RunMax - r \in Nat /\ d \in Nat
        BY <1>3
    <2>2. ~ (RunMax - r < d)
        BY <1>4, <2>1 DEF OpToRel
    <2> QED BY <1>1, <1>5, <2>2
  <1>7. Run(s) \in R
      BY <1>5, <1>6 DEF Run, Max
  <1> QED BY <1>7

(* What an erase command names. *)
LEMMA CommandFacts ==
  ASSUME todo \subseteq Sectors, NEW s \in todo, NEW run \in Nat, run >= 1, Merges(s, run)
  PROVE  /\ \A k \in 0 .. run - 1 : s + k \in todo
         /\ \A k \in 0 .. run :
              Commanded(s, k) = {command_address(t) : t \in s .. s + k - 1}
         /\ s .. s + run - 1 \subseteq todo
  <1>1. s \in Nat
      BY DEF Sectors
  <1>2. \A k \in 0 .. run - 1 : s + k \in todo /\ command_address(s + k) = command_address(s) + k
    <2> TAKE k \in 0 .. run - 1
    <2>1. CASE k = 0
      <3>1. command_address(s) \in Sectors
          BY AddressFacts
      <3> QED BY <1>1, <2>1, <3>1 DEF Sectors
    <2>2. CASE k \in 1 .. run - 1
        BY <2>2 DEF Merges
    <2> QED BY <2>1, <2>2
  <1>3. ASSUME NEW k \in 0 .. run
        PROVE  Commanded(s, k) = {command_address(t) : t \in s .. s + k - 1}
    <2>1. \A t \in s .. s + k - 1 : t - s \in 0 .. k - 1 /\ t - s \in 0 .. run - 1 /\ s + (t - s) = t
        BY <1>1
    <2>2. \A i \in 0 .. k - 1 : s + i \in s .. s + k - 1 /\ i \in 0 .. run - 1
        BY <1>1
    <2>3. ASSUME NEW c PROVE c \in Commanded(s, k) <=> \E t \in s .. s + k - 1 : c = command_address(t)
      <3>1. c \in Commanded(s, k) => \E t \in s .. s + k - 1 : c = command_address(t)
          BY <1>2, <2>2 DEF Commanded
      <3>2. ASSUME NEW t \in s .. s + k - 1, c = command_address(t) PROVE c \in Commanded(s, k)
          BY <1>2, <2>1, <3>2 DEF Commanded
      <3> QED BY <3>1, <3>2
    <2> QED BY <2>3
  <1>4. \A t \in s .. s + run - 1 : t - s \in 0 .. run - 1 /\ s + (t - s) = t
      BY <1>1
  <1> QED BY <1>2, <1>3, <1>4

(* What an erase of a stage does to the flash: the sectors taken from the   *)
(* list are the ones the command names.                                     *)
LEMMA EraseFacts ==
  ASSUME todo \subseteq Sectors, todo # {}
  PROVE  LET s == Min(todo) IN
         /\ s \in todo
         /\ EraseLen(s) = EraseCommand(s) /\ EraseCommand(s) \in 1 .. RunMax
         /\ Merges(s, EraseCommand(s)) /\ Merges(s, 1)
         /\ {s + k : k \in 0 .. EraseLen(s) - 1} = s .. s + EraseCommand(s) - 1
  <1> DEFINE s == Min(todo)
  <1>1. s \in todo /\ s \in Nat
      BY NextSector DEF Sectors
  <1>2. Run(s) \in 1 .. RunMax /\ Merges(s, Run(s)) /\ RunMax \in Nat \ {0}
      BY <1>1, RunFacts, FlashAssumption
  <1>3. Merges(s, 1)
      BY DEF Merges
  <1> HIDE DEF s
  <1>4. EraseLen(s) = EraseCommand(s) /\ EraseCommand(s) \in 1 .. RunMax
      BY <1>2 DEF EraseLen, EraseCommand, Refused
  <1>5. Merges(s, EraseCommand(s))
      BY <1>2, <1>3 DEF EraseCommand
  <1>6. {s + k : k \in 0 .. EraseLen(s) - 1} = s .. s + EraseCommand(s) - 1
    <2> DEFINE n == EraseCommand(s)
    <2>1. n \in Nat /\ EraseLen(s) = n
        BY <1>4
    <2> HIDE DEF n
    <2>2. \A t \in s .. s + n - 1 : t - s \in 0 .. n - 1 /\ t = s + (t - s)
        BY <1>1, <2>1
    <2>3. \A k \in 0 .. n - 1 : s + k \in s .. s + n - 1
        BY <1>1, <2>1
    <2>4. {s + k : k \in 0 .. n - 1} = s .. s + n - 1
        BY <2>2, <2>3
    <2> QED BY <2>1, <2>4 DEF n
  <1> QED BY <1>1, <1>3, <1>4, <1>5, <1>6 DEF s

LEMMA FillFacts ==
  ASSUME flash \in [Sectors -> Contents], NEW cells, NEW content \in Contents
  PROVE  /\ Fill(cells, content) \in [Sectors -> Contents]
         /\ \A c \in Sectors : Fill(cells, content)[c] = IF c \in cells THEN content ELSE flash[c]
  BY DEF Fill

(* A broken erase leaves other sectors than its own as they are. *)
LEMMA BrokeFacts ==
  ASSUME flash \in [Sectors -> Contents], todo \subseteq Sectors, NEW s \in todo,
         NEW run \in Nat, run >= 1, Merges(s, run), EraseBroke(s, run)
  PROVE  /\ flash' \in [Sectors -> Contents]
         /\ \A c \in Sectors : c \notin {command_address(t) : t \in s .. s + run - 1}
              => flash'[c] = flash[c]
  <1>1. PICK k \in 0 .. run, content \in {"erased", "other"} :
          flash' = Fill(Commanded(s, k), content)
      BY DEF EraseBroke
  <1>2. content \in Contents
      BY DEF Contents
  <1>3. Commanded(s, k) = {command_address(t) : t \in s .. s + k - 1}
      BY CommandFacts
  <1>4. s .. s + k - 1 \subseteq s .. s + run - 1
      BY DEF Sectors
  <1>5. Commanded(s, k) \subseteq {command_address(t) : t \in s .. s + run - 1}
      BY <1>3, <1>4
  <1> QED BY <1>1, <1>2, <1>5, FillFacts

LEMMA ErasedFacts ==
  ASSUME flash \in [Sectors -> Contents], todo \subseteq Sectors, NEW s \in todo,
         NEW run \in Nat, run >= 1, Merges(s, run), Erased(s, run)
  PROVE  /\ flash' \in [Sectors -> Contents] /\ missed' = missed
         /\ \A c \in Sectors :
              flash'[c] = IF c \in {command_address(t) : t \in s .. s + run - 1}
                          THEN "erased" ELSE flash[c]
  <1>1. "erased" \in Contents
      BY DEF Contents
  <1>2. Commanded(s, run) = {command_address(t) : t \in s .. s + run - 1}
      BY CommandFacts
  <1> QED BY <1>1, <1>2, FillFacts DEF Erased

-----------------------------------------------------------------------------
(* The invariant.  What a stage has yet to do are the sectors it was given; *)
(* a verified flash is not touched; and of the sectors to program those no  *)
(* longer on the list are erased.                                           *)
Stage ==
  /\ pc = "compare" => todo \subseteq regions
  /\ pc \in {"erase", "program"} => todo \subseteq keep
  /\ pc = "blank" => todo \subseteq blank
  /\ verified => pc \in {"end", "idle"}

ErasedSoFar ==
  pc = "erase" /\ ~missed =>
    \A s \in keep \ todo : flash[command_address(s)] = "erased"

FlashInv ==
  TypeOK /\ Stage /\ ErasedSoFar /\ ProgramsErased /\ VerifiedIsImage

LEMMA InFlash ==
  ASSUME TypeOK
  PROVE  /\ todo \subseteq Sectors /\ keep \subseteq Sectors /\ regions \subseteq Sectors
         /\ blank \subseteq Sectors /\ flash \in [Sectors -> Contents]
  BY DEF TypeOK

LEMMA InitInv == Init => FlashInv
  <1> SUFFICES ASSUME Init PROVE FlashInv
      OBVIOUS
  <1>1. {"image", "other"} \subseteq Contents
      BY DEF Contents
  <1>2. TypeOK
      BY <1>1 DEF Init, TypeOK, Stages
  <1> QED BY <1>2 DEF Init, FlashInv, Stage, ErasedSoFar, ProgramsErased, VerifiedIsImage

(* The steps that leave the flash alone: a session begins, ... *)
LEMMA BeginInv ==
  ASSUME FlashInv, NEW u \in {"web", "gdb"}, NEW span \in SUBSET Sectors, Begin(u, span)
  PROVE  FlashInv'
  <1>1. TypeOK'
      BY DEF FlashInv, TypeOK, Begin, Stages, target
  <1> QED BY <1>1 DEF FlashInv, Begin, Stage, ErasedSoFar, ProgramsErased, VerifiedIsImage

(* ... by which a session is left, ... *)
LEMMA LeaveInv ==
  ASSUME FlashInv,
         InstallFail \/ EndinitFail \/ PrepareFail \/ CollectAbort \/ EndHalted \/ End
  PROVE  FlashInv'
  <1> USE DEF InstallFail, EndinitFail, PrepareFail, CollectAbort, EndHalted, End, end_locked,
              EndFailed, safe_shutdown, Leave, plan, target
  <1>1. TypeOK'
      BY DEF FlashInv, TypeOK, Stages
  <1>2. Stage' /\ ErasedSoFar' /\ ProgramsErased'
      BY DEF FlashInv, TypeOK, Stage, ErasedSoFar, ProgramsErased
  <1>3. UNCHANGED <<flash, swapped, regions, verified>>
      OBVIOUS
  <1>4. VerifiedIsImage'
      BY <1>3 DEF FlashInv, VerifiedIsImage, View, Cell
  <1> QED BY <1>1, <1>2, <1>4 DEF FlashInv

(* ... that go on to the next stage, ... *)
LEMMA MoveInv ==
  ASSUME FlashInv,
         \/ Prepare \/ CollectDone \/ BlankDone \/ ApplyStart \/ ApplyRefused \/ Compared
         \/ EraseDone
  PROVE  FlashInv'
  <1> USE DEF Prepare, CollectDone, BlankDone, ApplyStart, ApplyRefused, Compared, EraseDone,
              safe_shutdown, plan, target
  <1>1. TypeOK'
      BY DEF FlashInv, TypeOK, Stages
  <1>2. Stage' /\ ErasedSoFar'
      BY DEF FlashInv, TypeOK, Stage, ErasedSoFar, command_address
  <1>3. ProgramsErased'
      BY DEF FlashInv, TypeOK, Stage, ErasedSoFar, ProgramsErased, command_address
  <1>4. VerifiedIsImage'
      BY DEF FlashInv, Stage, VerifiedIsImage, View, Cell
  <1> QED BY <1>1, <1>2, <1>3, <1>4 DEF FlashInv

(* ... and the others. *)
LEMMA QuietInv ==
  ASSUME FlashInv,
         \/ Install \/ \E s \in Sectors : CollectErase(s) \/ CollectWrite(s)
         \/ Compare \/ RefusalMissed \/ Verify
  PROVE  FlashInv'
  <1> USE DEF plan, target
  <1>1. CASE Install
    <2>1. swap' \in BOOLEAN /\ prefetch' \in {"off", "unsaved"}
        BY <1>1 DEF Install, FlashInv, TypeOK
    <2>2. TypeOK'
        BY <1>1, <2>1 DEF Install, FlashInv, TypeOK, Stages
    <2>3. Stage' /\ ErasedSoFar' /\ ProgramsErased'
        BY <1>1 DEF Install, FlashInv, Stage, ErasedSoFar, ProgramsErased
    <2>4. VerifiedIsImage'
        BY <1>1 DEF Install, FlashInv, VerifiedIsImage, View, Cell
    <2> QED BY <2>2, <2>3, <2>4 DEF FlashInv
  <1>2. CASE \E s \in Sectors : CollectErase(s) \/ CollectWrite(s)
    <2> USE DEF CollectErase, CollectWrite
    <2>1. TypeOK'
        BY <1>2 DEF FlashInv, TypeOK
    <2>2. Stage' /\ ErasedSoFar' /\ ProgramsErased' /\ VerifiedIsImage'
        BY <1>2 DEF FlashInv, Stage, ErasedSoFar, ProgramsErased, VerifiedIsImage
    <2> QED BY <2>1, <2>2 DEF FlashInv
  <1>3. CASE Compare
    <2> USE DEF Compare
    <2>1. Min(todo) \in regions
        BY <1>3, InFlash, NextSector DEF FlashInv, Stage
    <2>2. keep' \in {keep, keep \cup {Min(todo)}}
        BY <1>3
    <2>3. TypeOK'
        BY <1>3, <2>1, <2>2 DEF FlashInv, TypeOK
    <2>4. Stage' /\ ErasedSoFar' /\ ProgramsErased'
        BY <1>3 DEF FlashInv, Stage, ErasedSoFar, ProgramsErased
    <2>5. VerifiedIsImage'
        BY <1>3 DEF FlashInv, VerifiedIsImage, View, Cell
    <2> QED BY <2>3, <2>4, <2>5 DEF FlashInv
  <1>4. CASE RefusalMissed
    <2>1. TypeOK'
        BY <1>4 DEF RefusalMissed, FlashInv, TypeOK
    <2>2. Stage' /\ ErasedSoFar' /\ ProgramsErased'
        BY <1>4 DEF RefusalMissed, FlashInv, Stage, ErasedSoFar, ProgramsErased
    <2>3. VerifiedIsImage'
        BY <1>4 DEF RefusalMissed, FlashInv, VerifiedIsImage, View, Cell
    <2> QED BY <2>1, <2>2, <2>3 DEF FlashInv
  <1>5. CASE Verify
    <2> USE DEF Verify, safe_shutdown
    <2>1. TypeOK'
        BY <1>5 DEF FlashInv, TypeOK, Stages
    <2>2. Stage' /\ ErasedSoFar' /\ ProgramsErased'
        BY <1>5 DEF FlashInv, Stage, ErasedSoFar, ProgramsErased
    <2>3. VerifiedIsImage'
        BY <1>5 DEF VerifyAnswers, VerifiedIsImage, View, Cell
    <2> QED BY <2>1, <2>2, <2>3 DEF FlashInv
  <1> QED BY <1>1, <1>2, <1>3, <1>4, <1>5

(* The steps that erase or program. *)
LEMMA BlankInv == ASSUME FlashInv, BlankErase \/ BlankFail PROVE FlashInv'
  <1> DEFINE s == Min(todo)
  <1>1. s \in todo /\ todo \subseteq Sectors /\ flash \in [Sectors -> Contents] /\ Merges(s, 1)
      BY InFlash, EraseFacts DEF FlashInv, BlankErase, BlankFail
  <1>2. Erased(s, 1) \/ EraseBroke(s, 1)
      BY DEF BlankErase, BlankFail
  <1>3. flash' \in [Sectors -> Contents]
      BY <1>1, <1>2, ErasedFacts, BrokeFacts
  <1>4. missed' \in BOOLEAN
      BY DEF BlankErase, BlankFail, Erased, FlashInv, TypeOK
  <1>5. TypeOK'
      BY <1>3, <1>4 DEF BlankErase, BlankFail, FlashInv, TypeOK, Stages, plan, target
  <1>6. Stage' /\ ErasedSoFar' /\ ProgramsErased' /\ VerifiedIsImage'
      BY DEF BlankErase, BlankFail, FlashInv, Stage, ErasedSoFar, ProgramsErased,
             VerifiedIsImage, plan, target
  <1> QED BY <1>5, <1>6 DEF FlashInv

LEMMA EraseInv == ASSUME FlashInv, EraseNext \/ EraseFail PROVE FlashInv'
  <1> DEFINE s == Min(todo)
             n == EraseCommand(s)
  <1>1. /\ s \in todo /\ todo \subseteq Sectors /\ flash \in [Sectors -> Contents]
        /\ n \in Nat /\ n >= 1 /\ Merges(s, n) /\ pc = "erase"
        /\ {s + k : k \in 0 .. EraseLen(s) - 1} = s .. s + n - 1
      BY InFlash, EraseFacts, FlashAssumption DEF FlashInv, EraseNext, EraseFail
  <1>2. Erased(s, n) \/ EraseBroke(s, n)
      BY DEF EraseNext, EraseFail
  <1>3. flash' \in [Sectors -> Contents]
      BY <1>1, <1>2, ErasedFacts, BrokeFacts
  <1>4. missed' \in BOOLEAN
      BY DEF EraseNext, EraseFail, Erased, FlashInv, TypeOK
  <1>5. TypeOK'
    <2>1. todo' \subseteq todo /\ multi' \in BOOLEAN
        BY <1>1 DEF EraseNext, EraseFail, FlashInv, TypeOK
    <2>2. /\ phase' \in {phase, "failed"} /\ prefetch' \in {prefetch, "on", "unsaved"}
          /\ pc' \in {"erase", "end"}
        BY <1>1 DEF EraseNext, EraseFail, safe_shutdown
    <2> QED BY <1>3, <1>4, <2>1, <2>2
               DEF EraseNext, EraseFail, FlashInv, TypeOK, Stages, plan, target
  <1>6. Stage' /\ ProgramsErased' /\ VerifiedIsImage'
      BY <1>1 DEF EraseNext, EraseFail, FlashInv, Stage, ProgramsErased, VerifiedIsImage, plan, target
  <1>7. ErasedSoFar'
    <2> SUFFICES ASSUME pc' = "erase", ~missed', NEW t \in keep' \ todo'
                 PROVE  flash'[command_address(t)'] = "erased"
        BY DEF ErasedSoFar
    <2>1. EraseNext /\ Erased(s, n) /\ ~missed
        BY <1>1 DEF EraseNext, EraseFail, Erased
    <2>2. keep' = keep /\ todo' = todo \ (s .. s + n - 1) /\ command_address(t)' = command_address(t)
        BY <1>1, <2>1 DEF EraseNext, plan, command_address
    <2>3. t \in Sectors /\ command_address(t) \in Sectors
        BY <2>2, InFlash, AddressFacts DEF FlashInv
    <2>4. flash'[command_address(t)] =
            IF command_address(t) \in {command_address(r) : r \in s .. s + n - 1}
            THEN "erased" ELSE flash[command_address(t)]
        BY <1>1, <2>1, <2>3, ErasedFacts
    <2>5. t \notin todo => flash[command_address(t)] = "erased"
        BY <1>1, <2>1, <2>2 DEF FlashInv, ErasedSoFar
    <2> QED BY <2>2, <2>4, <2>5
  <1> QED BY <1>5, <1>6, <1>7 DEF FlashInv

LEMMA ProgramInv == ASSUME FlashInv, ProgramNext \/ ProgramFail PROVE FlashInv'
  <1> DEFINE s == Min(todo)
  <1>1. /\ s \in todo /\ todo \subseteq Sectors /\ flash \in [Sectors -> Contents]
        /\ pc = "program"
      BY InFlash, NextSector DEF FlashInv, ProgramNext, ProgramFail
  <1>2. \E written \in {"image", "other"} : flash' = [flash EXCEPT ![command_address(s)] = written]
      BY DEF ProgramNext, ProgramFail, program
  <1>3. flash' \in [Sectors -> Contents]
      BY <1>1, <1>2 DEF Contents
  <1>4. TypeOK'
      BY <1>3 DEF ProgramNext, ProgramFail, safe_shutdown, FlashInv, TypeOK, Stages, plan, target
  <1>5. Stage' /\ ErasedSoFar' /\ VerifiedIsImage'
      BY <1>1 DEF ProgramNext, ProgramFail, FlashInv, Stage, ErasedSoFar, VerifiedIsImage, plan, target
  <1>6. ProgramsErased'
    <2> SUFFICES ASSUME pc' = "program", ~missed', NEW t \in todo'
                 PROVE  flash'[command_address(t)'] = "erased"
        BY DEF ProgramsErased
    <2>1. ProgramNext
        BY DEF ProgramFail
    <2>2. t \in todo /\ t # s /\ ~missed /\ command_address(t)' = command_address(t)
        BY <2>1 DEF ProgramNext, plan, command_address
    <2>3. command_address(t) # command_address(s)
        BY <1>1, <2>2, AddressFacts
    <2> QED BY <1>1, <1>2, <2>2, <2>3, AddressFacts DEF FlashInv, ProgramsErased
  <1> QED BY <1>4, <1>5, <1>6 DEF FlashInv

LEMMA NextInv == ASSUME FlashInv, [Next]_vars PROVE FlashInv'
  <1>1. CASE WebBegin \/ GdbBegin
    <2>1. \A lo, hi \in Sectors : lo .. hi \in SUBSET Sectors
        BY HalfFacts DEF Sectors
    <2> QED BY <1>1, <2>1, BeginInv DEF WebBegin, GdbBegin
  <1>2. CASE UNCHANGED vars
    <2>1. TypeOK'
        BY <1>2 DEF FlashInv, TypeOK, vars, plan, target
    <2>2. Stage' /\ ErasedSoFar' /\ ProgramsErased'
        BY <1>2 DEF FlashInv, Stage, ErasedSoFar, ProgramsErased,
                    command_address, vars, plan, target
    <2>3. VerifiedIsImage'
        BY <1>2 DEF FlashInv, VerifiedIsImage, View, Cell, vars, plan, target
    <2> QED BY <2>1, <2>2, <2>3 DEF FlashInv
  <1> QED BY <1>1, <1>2, LeaveInv, MoveInv, QuietInv, BlankInv, EraseInv, ProgramInv DEF Next, Step

(* The invariant holds of every session. *)
THEOREM FlashInvariant == Spec => []FlashInv
  BY InitInv, NextInv, PTL DEF Spec

-----------------------------------------------------------------------------
(* The sectors a command reaches are those of its addresses, or all of them *)
(* the ones exchanged with these: what GDB erased stays erased while the    *)
(* rest is written, and nothing else has changed.                           *)
Untouched ==
  /\ pc \in {"install", "endinit", "collect"} => flash = was
  /\ pc \in {"install", "endinit", "collect", "blank", "apply"} => keep = {}
  /\ pc \in {"install", "endinit"} => blank = {}

(* Past the erases that GDB asked for, without a failure. *)
Onward ==
  pc \in {"apply", "compare", "erase", "program"} \/ (pc = "end" /\ phase # "failed")

BlankErased ==
  /\ ~missed /\ ~Misread /\ pc = "blank" => \A s \in blank \ todo : View(s) = "erased"
  /\ ~missed /\ ~Misread /\ Onward => \A s \in blank : View(s) = "erased"
  /\ result = "ok" => pc = "idle"

SwapInv == Untouched /\ OnlyKeptChange /\ BlankErased /\ LoadLeavesErased

(* A command on the sectors of T changes only what their addresses reach. *)
LEMMA CommandKeeps ==
  ASSUME TypeOK, swapped' = swapped, NEW T \in SUBSET Sectors,
         \A c \in Sectors : c \notin {command_address(t) : t \in T} => flash'[c] = flash[c]
  PROVE  \A s \in Sectors :
           (IF Misread THEN Exchange(s) ELSE s) \notin T =>
             flash'[Cell(s)] = flash[Cell(s)] /\ View(s)' = View(s)
  <1> SUFFICES ASSUME NEW s \in Sectors, (IF Misread THEN Exchange(s) ELSE s) \notin T
               PROVE  flash'[Cell(s)] = flash[Cell(s)] /\ View(s)' = View(s)
      OBVIOUS
  <1> DEFINE x == IF Misread THEN Exchange(s) ELSE s
  <1>0. x \in Sectors /\ command_address(x) = Cell(s) /\ x \notin T
      BY AddressFacts DEF TypeOK
  <1> HIDE DEF x
  <1>1. Cell(s) \in Sectors /\ \A t \in T : command_address(t) # Cell(s)
      BY <1>0, AddressFacts
  <1>2. Cell(s)' = Cell(s)
      BY DEF Cell
  <1> QED BY <1>1, <1>2 DEF View

LEMMA QuietSwap ==
  ASSUME FlashInv, SwapInv,
         \/ Install \/ InstallFail \/ EndinitFail \/ PrepareFail \/ CollectAbort \/ EndHalted \/ End
         \/ Prepare \/ CollectDone \/ BlankDone \/ ApplyStart \/ ApplyRefused \/ Compared
         \/ Compare \/ RefusalMissed \/ EraseDone \/ Verify
  PROVE  SwapInv'
  <1> USE DEF Install, InstallFail, EndinitFail, PrepareFail, CollectAbort, EndHalted, End,
              Prepare, CollectDone, BlankDone, ApplyStart, ApplyRefused, Compared, Compare,
              RefusalMissed, EraseDone, Verify, end_locked, EndFailed, safe_shutdown, Leave,
              plan, target
  <1>1. UNCHANGED <<flash, swapped, was, blank>> /\ keep \subseteq keep'
      BY DEF SwapInv, Untouched
  <1>2. \A s : View(s)' = View(s) /\ Cell(s)' = Cell(s)
      BY <1>1 DEF View, Cell
  <1>3. pc # "install" => UNCHANGED swap
      OBVIOUS
  <1>4. Untouched'
      BY DEF SwapInv, Untouched
  <1>5. OnlyKeptChange'
    <2>1. CASE pc = "install"
        BY <1>1, <1>2, <2>1 DEF SwapInv, OnlyKeptChange, Untouched
    <2>2. CASE pc # "install"
      <3>1. Misread' <=> Misread
          BY <1>1, <1>3, <2>2 DEF Misread
      <3>2. \A s : Exchange(s)' = Exchange(s)
          BY DEF Exchange
      <3> QED BY <1>1, <1>2, <3>1, <3>2 DEF SwapInv, OnlyKeptChange
    <2> QED BY <2>1, <2>2
  <1> DEFINE E == \A s \in blank : View(s) = "erased"
  <1>6. E' <=> E
      BY <1>1, <1>2
  <1>7. /\ ~missed /\ ~Misread /\ Onward => E
        /\ ~missed /\ ~Misread /\ pc = "blank" /\ todo = {} => E
        /\ pc \in {"install", "endinit"} => E
        /\ result = "ok" => pc = "idle"
      BY DEF SwapInv, BlankErased, Untouched
  <1>8. missed => missed'
      OBVIOUS
  <1> HIDE DEF E
  <1>81. Misread => Misread' \/ pc = "install"
      BY <1>1, <1>3 DEF Misread
  <1>9. result' = "ok" /\ ~missed' /\ ~Misread' => E
    <2>1. result' = "ok" => (result = "ok" /\ pc = "idle") \/ Onward
        BY <1>7 DEF Onward
    <2> QED BY <1>7, <1>8, <1>81, <2>1
  <1>10. /\ ~missed' /\ ~Misread' /\ Onward' => E
         /\ pc' = "blank" => todo' = blank
         /\ result' = "ok" => pc' = "idle"
    <2>0. Onward' => Onward \/ pc = "endinit" \/ (pc = "blank" /\ todo = {})
        BY DEF Onward
    <2>1. ~missed' /\ ~Misread' /\ Onward' => E
        BY <1>7, <1>8, <1>81, <2>0
    <2>2. pc' = "blank" => todo' = blank
        OBVIOUS
    <2>3. result' = "ok" => pc' = "idle"
        BY <1>7
    <2> QED BY <2>1, <2>2, <2>3
  <1>11. BlankErased'
      BY <1>1, <1>6, <1>10 DEF BlankErased, E
  <1>12. LoadLeavesErased'
      BY <1>6, <1>9 DEF LoadLeavesErased, E
  <1> QED BY <1>4, <1>5, <1>11, <1>12 DEF SwapInv

LEMMA CollectSwap ==
  ASSUME FlashInv, SwapInv,
         WebBegin \/ GdbBegin \/ (\E s \in Sectors : CollectErase(s) \/ CollectWrite(s))
  PROVE  SwapInv'
  <1>1. CASE WebBegin \/ GdbBegin
    <2>1. /\ pc' = "install" /\ keep' = {} /\ blank' = {} /\ flash' = flash /\ was' = flash
          /\ swapped' = swapped /\ result' = "none"
        BY <1>1 DEF WebBegin, GdbBegin, Begin, target
    <2>2. Untouched' /\ BlankErased' /\ LoadLeavesErased'
        BY <2>1 DEF Untouched, BlankErased, Onward, LoadLeavesErased
    <2>3. OnlyKeptChange'
        BY <2>1 DEF OnlyKeptChange, Cell
    <2> QED BY <2>2, <2>3 DEF SwapInv
  <1>2. CASE \E s \in Sectors : CollectErase(s) \/ CollectWrite(s)
    <2>1. /\ pc = "collect" /\ flash = was
          /\ UNCHANGED <<flash, was, swapped, swap, pc, keep, result, missed>>
        BY <1>2 DEF CollectErase, CollectWrite, target, SwapInv, Untouched
    <2>2. Untouched' /\ BlankErased' /\ LoadLeavesErased'
        BY <2>1 DEF SwapInv, Untouched, BlankErased, Onward, LoadLeavesErased
    <2>3. OnlyKeptChange'
        BY <2>1 DEF OnlyKeptChange, Cell
    <2> QED BY <2>2, <2>3 DEF SwapInv
  <1> QED BY <1>1, <1>2

(* A command on sectors to be erased or written: OnlyKeptChange holds on.   *)
LEMMA CommandSwap ==
  ASSUME FlashInv, SwapInv, pc \notin {"idle", "install"}, NEW T \in SUBSET (keep \cup blank),
         \A c \in Sectors : c \notin {command_address(t) : t \in T} => flash'[c] = flash[c],
         UNCHANGED <<swapped, swap, was, keep, blank>>
  PROVE  /\ OnlyKeptChange'
         /\ ~Misread => \A s \in blank \ T : View(s)' = View(s)
  <1>1. TypeOK /\ T \in SUBSET Sectors /\ blank \subseteq Sectors
      BY InFlash DEF FlashInv
  <1>2. \A s \in Sectors :
          (IF Misread THEN Exchange(s) ELSE s) \notin T =>
            flash'[Cell(s)] = flash[Cell(s)] /\ View(s)' = View(s)
      BY <1>1, CommandKeeps
  <1>3. /\ \A s \in Sectors : Cell(s)' = Cell(s) /\ Exchange(s)' = Exchange(s)
        /\ Misread' <=> Misread
      BY DEF Cell, Exchange, Misread
  <1>4. OnlyKeptChange'
    <2> SUFFICES ASSUME NEW s \in Sectors, s \notin keep \cup blank,
                        Misread => Exchange(s) \notin keep \cup blank
                 PROVE  flash'[Cell(s)] = was[Cell(s)]
        BY <1>3 DEF OnlyKeptChange
    <2>1. (IF Misread THEN Exchange(s) ELSE s) \notin T
        OBVIOUS
    <2> QED BY <1>2, <2>1 DEF SwapInv, OnlyKeptChange
  <1> QED BY <1>1, <1>2, <1>4

LEMMA BlankSwap == ASSUME FlashInv, SwapInv, BlankErase \/ BlankFail PROVE SwapInv'
  <1> DEFINE s == Min(todo)
  <1>1. /\ s \in todo /\ todo \subseteq Sectors /\ flash \in [Sectors -> Contents] /\ Merges(s, 1)
        /\ pc = "blank" /\ s \in blank /\ s \in Nat
      BY InFlash, EraseFacts DEF FlashInv, Stage, BlankErase, BlankFail, Sectors
  <1>2. s .. s + 1 - 1 = {s}
      BY <1>1
  <1>3. UNCHANGED <<swapped, swap, was, keep, blank, result>> /\ result # "ok" /\ pc' \in {"blank", "end"}
      BY <1>1 DEF BlankErase, BlankFail, plan, target, SwapInv, BlankErased
  <1>4. Erased(s, 1) \/ EraseBroke(s, 1)
      BY DEF BlankErase, BlankFail
  <1>5. \A c \in Sectors : c \notin {command_address(t) : t \in {s}} => flash'[c] = flash[c]
      BY <1>1, <1>2, <1>4, ErasedFacts, BrokeFacts
  <1>6. OnlyKeptChange' /\ (~Misread => \A t \in blank \ {s} : View(t)' = View(t))
      BY <1>1, <1>3, <1>5, CommandSwap
  <1>7. Untouched' /\ LoadLeavesErased'
      BY <1>1, <1>3 DEF SwapInv, Untouched, LoadLeavesErased
  <1>8. BlankErased'
    <2>1. ~Onward'
        BY <1>1 DEF Onward, BlankErase, BlankFail
    <2>2. SUFFICES ASSUME ~missed', ~Misread', pc' = "blank", NEW t \in blank \ todo' PROVE View(t)' = "erased"
        BY <1>3, <2>1 DEF BlankErased
    <2>3. BlankErase /\ Erased(s, 1) /\ ~missed /\ ~Misread
        BY <1>1, <1>3, <2>2 DEF BlankErase, BlankFail, Erased, Misread
    <2>4. CASE t = s
      <3>1. command_address(s) = Cell(s) /\ Cell(s) \in Sectors
          BY <1>1, <2>3, AddressFacts
      <3>2. flash'[Cell(s)] = "erased"
          BY <1>1, <1>2, <2>3, <3>1, ErasedFacts
      <3> QED BY <1>3, <2>4, <3>2 DEF View, Cell
    <2>5. CASE t # s
      <3>1. t \in blank \ todo
          BY <2>2, <2>3, <2>5 DEF BlankErase
      <3> QED BY <1>1, <1>6, <2>3, <2>5, <3>1 DEF SwapInv, BlankErased
    <2> QED BY <2>4, <2>5
  <1> QED BY <1>6, <1>7, <1>8 DEF SwapInv

LEMMA WriteSwap ==
  ASSUME FlashInv, SwapInv, EraseNext \/ EraseFail \/ ProgramNext \/ ProgramFail
  PROVE  SwapInv'
  <1> DEFINE s == Min(todo)
             n == EraseCommand(s)
  <1>1. /\ s \in todo /\ todo \subseteq Sectors /\ flash \in [Sectors -> Contents]
        /\ n \in Nat /\ n >= 1 /\ Merges(s, n) /\ pc \in {"erase", "program"} /\ todo \subseteq keep
      BY InFlash, EraseFacts, FlashAssumption
         DEF FlashInv, Stage, EraseNext, EraseFail, ProgramNext, ProgramFail
  <1>2. s .. s + n - 1 \subseteq todo
      BY <1>1, CommandFacts
  <1>3. /\ UNCHANGED <<swapped, swap, was, keep, blank, result>> /\ result # "ok"
        /\ pc' = pc \/ (pc' = "end" /\ phase' = "failed")
        /\ missed => missed'
      BY <1>1 DEF EraseNext, EraseFail, ProgramNext, ProgramFail, Erased, plan, target, SwapInv,
                  BlankErased
  <1>4. \A c \in Sectors : c \notin {command_address(t) : t \in todo} => flash'[c] = flash[c]
    <2>1. CASE EraseNext \/ EraseFail
      <3>1. Erased(s, n) \/ EraseBroke(s, n)
          BY <2>1 DEF EraseNext, EraseFail
      <3>2. \A c \in Sectors : c \notin {command_address(t) : t \in s .. s + n - 1} => flash'[c] = flash[c]
          BY <1>1, <3>1, ErasedFacts, BrokeFacts
      <3> QED BY <1>2, <3>2
    <2>2. CASE ProgramNext \/ ProgramFail
        BY <1>1, <2>2 DEF ProgramNext, ProgramFail, program
    <2> QED BY <2>1, <2>2
  <1>5. OnlyKeptChange' /\ (~Misread => \A t \in blank : View(t)' = View(t))
    <2>1. blank \cap todo = {}
        BY <1>1 DEF FlashInv, TypeOK
    <2> QED BY <1>1, <1>3, <1>4, <2>1, CommandSwap
  <1>6. Untouched' /\ LoadLeavesErased'
      BY <1>1, <1>3 DEF SwapInv, Untouched, LoadLeavesErased
  <1>7. BlankErased'
      BY <1>1, <1>3, <1>5 DEF SwapInv, BlankErased, Onward, Misread
  <1> QED BY <1>5, <1>6, <1>7 DEF SwapInv

LEMMA InitSwap == Init => SwapInv
  BY DEF Init, SwapInv, Untouched, OnlyKeptChange, BlankErased, Onward, LoadLeavesErased

LEMMA NextSwap == ASSUME FlashInv, SwapInv, [Next]_vars PROVE SwapInv'
  <1>1. CASE UNCHANGED vars
    <2>1. /\ \A s : View(s)' = View(s) /\ Cell(s)' = Cell(s) /\ Exchange(s)' = Exchange(s)
          /\ Misread' <=> Misread
        BY <1>1 DEF View, Cell, Exchange, Misread, vars, plan, target
    <2>2. Untouched' /\ OnlyKeptChange'
        BY <1>1, <2>1 DEF SwapInv, Untouched, OnlyKeptChange, vars, plan, target
    <2>3. BlankErased' /\ LoadLeavesErased'
        BY <1>1, <2>1 DEF SwapInv, BlankErased, Onward, LoadLeavesErased, vars, plan, target
    <2> QED BY <2>2, <2>3 DEF SwapInv
  <1> QED BY <1>1, QuietSwap, CollectSwap, BlankSwap, WriteSwap DEF Next, Step

(* ... and so does this one, whether or not the read of SCU_SWAPCTRL fails. *)
THEOREM SwapInvariant == Spec => []SwapInv
  BY FlashInvariant, InitSwap, NextSwap, PTL DEF Spec

-----------------------------------------------------------------------------
(* Each step of a session leaves less to do: the stage comes first, within  *)
(* a stage the number of its sectors.                                       *)
LEMMA Count ==
  ASSUME NEW S \in SUBSET Sectors
  PROVE  /\ IsFiniteSet(S) /\ Cardinality(S) \in Nat /\ Cardinality(S) < NSectors + 1
         /\ \A T \in SUBSET S : T # S => Cardinality(T) < Cardinality(S)
  <1>1. IsFiniteSet(Sectors) /\ Cardinality(Sectors) = NSectors
      BY HalfFacts, FS_Interval DEF Sectors
  <1>2. IsFiniteSet(S) /\ Cardinality(S) \in Nat /\ Cardinality(S) <= NSectors
      BY <1>1, FS_Subset, FS_CardinalityType
  <1>3. \A T \in SUBSET S : T # S => Cardinality(T) < Cardinality(S)
      BY <1>2, FS_Subset, FS_CardinalityType
  <1> QED BY <1>2, <1>3, HalfFacts

LEMMA StageFalls ==
  ASSUME NEW a \in Nat, NEW b \in Nat, b < a, NEW c \in Nat, NEW d \in Nat, d < NSectors + 1
  PROVE  b * (NSectors + 1) + d < a * (NSectors + 1) + c
  <1> DEFINE m == NSectors + 1
  <1>1. m \in Nat /\ d < m
      BY HalfFacts
  <1> HIDE DEF m
  <1>2. b * m + m = (b + 1) * m /\ b * m \in Nat /\ a * m \in Nat
      BY <1>1
  <1>3. (b + 1) * m <= a * m
      BY <1>1
  <1>4. b * m + d < a * m + c
      BY <1>1, <1>2, <1>3
  <1> QED BY <1>4 DEF m

LEMMA LeftFalls ==
  ASSUME todo \subseteq Sectors, todo' \subseteq Sectors, pc \in Stages, pc' \in Stages,
         \/ StagesLeft[pc'] < StagesLeft[pc]
         \/ pc' = pc /\ todo' \subseteq todo /\ todo' # todo
  PROVE  Left' < Left
  <1>1. StagesLeft[pc] \in Nat /\ StagesLeft[pc'] \in Nat
      BY DEF StagesLeft, Stages
  <1>2. /\ Cardinality(todo) \in Nat /\ Cardinality(todo) < NSectors + 1
        /\ Cardinality(todo') \in Nat /\ Cardinality(todo') < NSectors + 1
        /\ todo' \subseteq todo /\ todo' # todo => Cardinality(todo') < Cardinality(todo)
      BY Count
  <1>3. CASE StagesLeft[pc'] < StagesLeft[pc]
      BY <1>1, <1>2, <1>3, StageFalls DEF Left
  <1>4. CASE pc' = pc /\ todo' \subseteq todo /\ todo' # todo
    <2>1. StagesLeft[pc] * (NSectors + 1) \in Nat
        BY <1>1, HalfFacts
    <2> QED BY <1>2, <1>4, <2>1 DEF Left
  <1> QED BY <1>3, <1>4

LEMMA StepLeft == ASSUME FlashInv, FlashInv', Step PROVE Left' < Left
  <1>1. todo \subseteq Sectors /\ todo' \subseteq Sectors /\ pc \in Stages /\ pc' \in Stages
      BY DEF FlashInv, TypeOK
  <1>2. \/ StagesLeft[pc'] < StagesLeft[pc]
        \/ pc' = pc /\ todo' \subseteq todo /\ todo' # todo
    <2>1. CASE Install \/ InstallFail \/ EndinitFail \/ Prepare \/ PrepareFail
      <3>1. \/ pc = "install" /\ pc' \in {"endinit", "idle"}
            \/ pc = "endinit" /\ pc' \in {"idle", "collect", "apply"}
          BY <2>1 DEF Install, InstallFail, EndinitFail, Prepare, PrepareFail, Leave
      <3> QED BY <3>1 DEF StagesLeft
    <2>2. CASE BlankFail \/ BlankDone \/ ApplyStart \/ ApplyRefused \/ Compared
        BY <2>2 DEF BlankFail, BlankDone, ApplyStart, ApplyRefused, Compared, StagesLeft
    <2>3. CASE EraseFail \/ EraseDone \/ ProgramFail \/ Verify \/ EndHalted \/ End
        BY <2>3 DEF EraseFail, EraseDone, ProgramFail, Verify, EndHalted, End, end_locked,
                    EndFailed, Leave, StagesLeft
    <2>4. CASE BlankErase \/ Compare \/ ProgramNext
      <3>1. todo # {} /\ pc' = pc /\ todo' = todo \ {Min(todo)}
          BY <2>4 DEF BlankErase, Compare, ProgramNext
      <3> QED BY <1>1, <3>1, NextSector
    <2>5. CASE EraseNext \/ RefusalMissed
      <3>1. todo # {} /\ pc' = pc
          BY <2>5 DEF EraseNext, RefusalMissed
      <3>2. Min(todo) \in todo /\ Min(todo) \in Nat
          BY <1>1, <3>1, NextSector DEF Sectors
      <3>3. PICK n \in Nat : n >= 1 /\ todo' = todo \ {Min(todo) + k : k \in 0 .. n - 1}
        <4>1. CASE EraseNext
          <5>1. EraseLen(Min(todo)) \in Nat /\ EraseLen(Min(todo)) >= 1
              BY <1>1, <3>1, EraseFacts, FlashAssumption
          <5> QED BY <4>1, <5>1 DEF EraseNext
        <4>2. CASE RefusalMissed
          <5>1. Run(Min(todo)) \in Nat /\ Run(Min(todo)) >= 1
              BY <1>1, <3>2, RunFacts, FlashAssumption
          <5> QED BY <4>2, <5>1 DEF RefusalMissed
        <4> QED BY <2>5, <4>1, <4>2
      <3>4. 0 \in 0 .. n - 1 /\ Min(todo) + 0 = Min(todo)
          BY <3>2, <3>3
      <3> QED BY <3>1, <3>2, <3>3, <3>4
    <2> QED BY <2>1, <2>2, <2>3, <2>4, <2>5 DEF Step
  <1> QED BY <1>1, <1>2, LeftFalls

-----------------------------------------------------------------------------
(* The results. *)

(* Types; the state of a session is what it should be. *)
THEOREM FlashTypeOK == Spec => []TypeOK
  <1>1. FlashInv => TypeOK
      BY DEF FlashInv
  <1> QED BY <1>1, FlashInvariant, PTL

(* What is reported as verified is the image, sector for sector. *)
THEOREM FlashVerifiedIsImage == Spec => []VerifiedIsImage
  <1>1. FlashInv => VerifiedIsImage
      BY DEF FlashInv
  <1> QED BY <1>1, FlashInvariant, PTL

(* No sector is programmed that an erase of the run has not reached. *)
THEOREM FlashProgramsErased == Spec => []ProgramsErased
  <1>1. FlashInv => ProgramsErased
      BY DEF FlashInv
  <1> QED BY <1>1, FlashInvariant, PTL

(* A session changes nothing but the sectors that differ and those GDB      *)
(* erased; after a misread swap, nothing but the ones exchanged with them.  *)
THEOREM FlashOnlyKeptChange == Spec => []OnlyKeptChange
  <1>1. SwapInv => OnlyKeptChange
      BY DEF SwapInv
  <1> QED BY <1>1, SwapInvariant, PTL

(* It leaves the latter erased when it ends well, unread errors apart. *)
THEOREM FlashLoadLeavesErased == Spec => []LoadLeavesErased
  <1>1. SwapInv => LoadLeavesErased
      BY DEF SwapInv
  <1> QED BY <1>1, SwapInvariant, PTL

(* A session cannot go in circles, however its erases are refused or fail. *)
THEOREM FlashDescends == Spec => SessionDescends
  <1>1. FlashInv /\ FlashInv' /\ [Next]_vars => [Step => Left' < Left]_vars
      BY StepLeft
  <1> QED BY <1>1, FlashInvariant, PTL DEF Spec, SessionDescends
=============================================================================
