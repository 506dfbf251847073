--------------------------- MODULE TriggersProofs ---------------------------
(***************************************************************************)
(* Proofs about Triggers, for any number of trigger slots, addresses and   *)
(* watchpoint sizes: no step leaves its triggers on record (StepTidy), a   *)
(* trigger without a record is one whose write failed or whose record was  *)
(* dropped (NoGhost), and what GDB was told is set is armed after any      *)
(* number of steps that lent its trigger out (Kept).                       *)
(***************************************************************************)
EXTENDS Triggers, FiniteSetTheorems, WellFoundedInduction, TLAPS

Typed == TypeOK /\ web \in Nat /\ faults \in Nat

(* When a step's records can exist, and what it has taken off its PC. *)
Tidy ==
  /\ at \in {"off", "idle", "run", "lift", "restore"} => \A n \in Slots : rec[n].kind # "step"
  /\ step.lifted.kind # "step"
  /\ at \in {"off", "idle", "run"} => step = NoStep
  /\ at = "lift" => step.lifted = Free
  /\ at = "off" => wanted = {}
  /\ at = "giveup" => faults > 0

(* Slot n, and the next one for a range, is what request r was given. *)
PlacedAt(r, n) ==
  /\ rec[n].addr = r.addr /\ hw[n].adr = r.addr
  /\ r.what = "break" => rec[n].kind = "user" /\ hw[n].evt = "code"
  /\ r.what = "watch" =>
       /\ rec[n].kind = "watch" /\ rec[n].size = r.size
       /\ hw[n].evt = IF r.size = 1 THEN "data" ELSE "range"
       /\ r.size > 1 => /\ n + 1 \in Slots /\ rec[n + 1].kind = "hi"
                        /\ hw[n + 1].adr = r.addr + r.size

Lent(r) == step.lifted.kind = "user" /\ r.what = "break" /\ r.addr = step.lifted.addr

Clean == faults = 0 /\ ~mixed

(* No address has two records, a range has its second trigger, and what    *)
(* stands at a range's end is no request's own.                            *)
Distinct == \A m, n \in Slots :
  rec[m].kind # "free" /\ rec[n].kind # "free" /\ rec[m].addr = rec[n].addr => m = n
Paired == \A n \in Slots :
  rec[n].kind = "watch" /\ rec[n].size > 1 => n + 1 \in Slots /\ rec[n + 1].kind = "hi"
Apart == \A n \in Slots : rec[n].kind = "hi" => \A q \in wanted : q.addr # rec[n].addr
OneEach == \A r, q \in wanted : r.addr = q.addr => r = q

(* A request that nothing dropped has its slots, or is lent to the step    *)
(* under way; then a slot is left to give it back, and only the step's own *)
(* triggers can stand at its address.                                      *)
Lendable ==
  /\ step.lifted.kind \in {"free", "user"}
  /\ step.lifted.kind = "user" =>
       /\ \E n \in Slots : rec[n].kind \in {"free", "step"}
       /\ \A n \in Holding(step.lifted.addr) : rec[n].kind = "step"
Kept2 ==
  /\ Distinct /\ Paired /\ Apart /\ OneEach /\ Lendable
  /\ \A r \in wanted \ wiped : Lent(r) \/ \E n \in Slots : PlacedAt(r, n)
Held == Clean => Kept2

TriggerInv == Typed /\ Tidy /\ NoGhost /\ Held

-----------------------------------------------------------------------------
(* Facts about slots. *)

LEMMA SlotFacts ==
  /\ Slots \subseteq Nat /\ Slots # {} /\ 0 \in Slots /\ NoSlot \notin Slots
  /\ Addrs \subseteq Nat /\ NoAddr \notin Nat /\ NumAddrs \in Nat \ {0}
  /\ \A s \in Sizes : s \in Nat /\ s # 0
  BY TriggerAssumption DEF Slots, Addrs, NoSlot, NoAddr

LEMMA MinIn ==
  ASSUME NEW S \in SUBSET Nat, S # {} PROVE Min(S) \in S
  <1>1. \A x, y \in Nat : <<y, x>> \in OpToRel(<, Nat) <=> y < x
      BY DEF OpToRel
  <1>2. PICK x \in S : \A y \in S : ~ (<<y, x>> \in OpToRel(<, Nat))
      BY NatLessThanWellFounded, WFMin
  <1>3. \A y \in S : x <= y
    <2> TAKE y \in S
    <2>1. x \in Nat /\ y \in Nat
        OBVIOUS
    <2>2. ~ (y < x)
        BY <1>1, <1>2, <2>1
    <2> QED BY <2>1, <2>2
  <1> QED BY <1>3 DEF Min

LEMMA SlotOfIn ==
  ASSUME NEW a
  PROVE  /\ Holding(a) # {} => SlotOf(a) \in Holding(a) /\ SlotOf(a) \in Slots /\ SlotOf(a) # NoSlot
         /\ Holding(a) = {} => SlotOf(a) = NoSlot
  <1>1. Holding(a) \in SUBSET Nat /\ Holding(a) \subseteq Slots
      BY SlotFacts DEF Holding
  <1> QED BY <1>1, MinIn, SlotFacts DEF SlotOf

LEMMA FreeIn ==
  /\ FreeSlots # {} => Min(FreeSlots) \in FreeSlots /\ Min(FreeSlots) \in Slots
  /\ FreePairs # {} => /\ Min(FreePairs) \in FreeSlots /\ Min(FreePairs) \in Slots
                       /\ Min(FreePairs) + 1 \in FreeSlots /\ Min(FreePairs) + 1 \in Slots
  <1>1. FreeSlots \in SUBSET Nat /\ FreeSlots \subseteq Slots
        /\ FreePairs \in SUBSET Nat /\ FreePairs \subseteq FreeSlots
      BY SlotFacts DEF FreeSlots, FreePairs
  <1>2. \A n \in FreePairs : n + 1 \in FreeSlots
      BY DEF FreePairs
  <1> QED BY <1>1, <1>2, MinIn

-----------------------------------------------------------------------------
(* What a call of the allocator can come to: well-typed registers and      *)
(* records, and no trigger without a record that had one before but the    *)
(* one whose write failed.                                                 *)

GhostsOf(h, r) == {n \in Slots : /\ h[n].evt # "off"
                                 /\ r[n].kind = "free" \/ r[n].addr # h[n].adr}

Sound(o) ==
  /\ o.hw \in [Slots -> Triggers] /\ o.rec \in [Slots -> Records] /\ o.bad \in SUBSET Slots
  /\ GhostsOf(o.hw, o.rec) \subseteq (Ghosts \ Changed(o)) \cup o.bad

LEMMA GhostsAgree == Ghosts = GhostsOf(hw, rec)
  BY DEF Ghosts, GhostsOf

LEMMA OutcomeFields ==
  ASSUME NEW h, NEW r, NEW slot, NEW bad
  PROVE  /\ Outcome(h, r, slot, bad).hw = h /\ Outcome(h, r, slot, bad).rec = r
         /\ Outcome(h, r, slot, bad).slot = slot /\ Outcome(h, r, slot, bad).bad = bad
  BY DEF Outcome

LEMMA RefusedSound ==
  ASSUME Typed
  PROVE  /\ Sound(Refused)
         /\ \A n \in {NoSlot} \cup Slots : Sound(Outcome(hw, rec, n, {}))
  BY GhostsAgree DEF Refused, Sound, Changed, Outcome, Typed, TypeOK

(* An outcome that rewrites the slots of T. *)
LEMMA SoundBy ==
  ASSUME NEW o, NEW T, o.hw \in [Slots -> Triggers], o.rec \in [Slots -> Records],
         o.bad \in SUBSET Slots, \A n \in Slots \ T : o.rec[n] = rec[n],
         GhostsOf(o.hw, o.rec) \subseteq (Ghosts \ T) \cup o.bad
  PROVE  Sound(o)
  BY DEF Sound, Changed

(* One slot rewritten. *)
LEMMA OneSlot ==
  ASSUME NEW h, NEW r, NEW n \in Slots,
         \A m \in Slots \ {n} : h[m] = hw[m] /\ r[m] = rec[m]
  PROVE  /\ GhostsOf(h, r) \subseteq Ghosts \cup {n}
         /\ h[n].evt = "off" \/ (r[n].kind # "free" /\ r[n].addr = h[n].adr) =>
              GhostsOf(h, r) \subseteq Ghosts \ {n}
  BY DEF GhostsOf, Ghosts

LEMMA TriggerTypes ==
  /\ Off \in Triggers /\ Unknown \in Triggers /\ Free \in Records
  /\ \A a \in Nat : Code(a) \in Triggers
  /\ \A a \in Nat, kind \in {"user", "step", "watch", "hi"} :
       [kind |-> kind, addr |-> a, size |-> 0] \in Records
  BY DEF Off, Unknown, Free, Code, Triggers, Records

(* A record and a trigger in a free slot. *)
Added(o, a, kind) ==
  /\ Holding(a) = {}
  /\ \E n \in FreeSlots :
       /\ o.hw = [hw EXCEPT ![n] = Code(a)]
       /\ o.rec = [rec EXCEPT ![n] = [kind |-> kind, addr |-> a, size |-> 0]]

(* tricore_bp_add. *)
LEMMA AddOutcomes ==
  ASSUME Typed, NEW a \in Nat, NEW kind \in {"user", "step", "watch", "hi"}, NEW o \in Add(a, kind)
  PROVE  /\ Sound(o)
         /\ \A n \in Slots : o.rec[n] = rec[n] \/ o.rec[n].kind = kind
         /\ o.bad = {} =>
              \/ o.hw = hw /\ o.rec = rec /\ Holding(a) # {}
              \/ o.hw = hw /\ o.rec = rec /\ Holding(a) = {} /\ FreeSlots = {} /\ o.slot = NoSlot
              \/ Added(o, a, kind)
  <1>1. CASE SlotOf(a) # NoSlot
    <2>1. o = Outcome(hw, rec, SlotOf(a), {}) /\ Holding(a) # {} /\ SlotOf(a) \in Slots
        BY <1>1, SlotOfIn DEF Add
    <2> QED BY <2>1, RefusedSound, OutcomeFields
  <1>2. CASE SlotOf(a) = NoSlot /\ FreeSlots = {}
    <2>1. o = Refused /\ Holding(a) = {}
        BY <1>2, SlotOfIn DEF Add
    <2> QED BY <1>2, <2>1, RefusedSound, OutcomeFields DEF Refused
  <1>3. CASE SlotOf(a) = NoSlot /\ FreeSlots # {}
    <2> DEFINE n == Min(FreeSlots)
               c == [kind |-> kind, addr |-> a, size |-> 0]
    <2>0. hw \in [Slots -> Triggers] /\ rec \in [Slots -> Records]
        BY DEF Typed, TypeOK
    <2>1. n \in FreeSlots /\ n \in Slots /\ Holding(a) = {}
        BY <1>3, FreeIn, SlotOfIn
    <2>2. c \in Records /\ Code(a) \in Triggers /\ Unknown \in Triggers
        BY TriggerTypes
    <2>3. CASE o = Outcome([hw EXCEPT ![n] = Code(a)], [rec EXCEPT ![n] = c], n, {})
      <3>1. o.hw = [hw EXCEPT ![n] = Code(a)] /\ o.rec = [rec EXCEPT ![n] = c] /\ o.bad = {}
          BY <2>3, OutcomeFields
      <3>2. c.kind # "free" /\ c.addr = Code(a).adr /\ c.kind = kind
          BY DEF Code
      <3> HIDE DEF c, n
      <3>3. /\ o.hw \in [Slots -> Triggers] /\ o.rec \in [Slots -> Records]
            /\ o.hw[n] = Code(a) /\ o.rec[n] = c
            /\ (\A m \in Slots \ {n} : o.hw[m] = hw[m] /\ o.rec[m] = rec[m])
          BY <2>0, <2>1, <2>2, <3>1
      <3>4. GhostsOf(o.hw, o.rec) \subseteq Ghosts \ {n}
          BY <2>1, <3>2, <3>3, OneSlot
      <3>5. Sound(o)
          BY <2>1, <3>1, <3>3, <3>4, SoundBy
      <3> QED BY <2>1, <3>1, <3>2, <3>3, <3>5 DEF Added, c
    <2>4. CASE o = Outcome([hw EXCEPT ![n] = Unknown], rec, NoSlot, {n})
      <3>1. o.hw = [hw EXCEPT ![n] = Unknown] /\ o.rec = rec /\ o.bad = {n}
          BY <2>4, OutcomeFields
      <3> HIDE DEF c, n
      <3>2. /\ o.hw \in [Slots -> Triggers] /\ o.rec \in [Slots -> Records]
            /\ (\A m \in Slots \ {n} : o.hw[m] = hw[m] /\ o.rec[m] = rec[m])
          BY <2>0, <2>1, <2>2, <3>1
      <3>3. GhostsOf(o.hw, o.rec) \subseteq Ghosts \cup {n}
          BY <2>1, <3>2, OneSlot
      <3>4. Sound(o)
          BY <2>1, <3>1, <3>2, <3>3 DEF Sound, Changed
      <3>5. (\A m \in Slots : o.rec[m] = rec[m]) /\ ~ (o.bad = {})
          BY <3>1
      <3> QED BY <3>4, <3>5
    <2> QED BY <1>3, <2>3, <2>4 DEF Add
  <1> QED BY <1>1, <1>2, <1>3

(* tricore_clear_trigger on some slots. *)
LEMMA ClearedOutcomes ==
  ASSUME Typed, NEW S \in SUBSET Slots, NEW o \in Cleared(S)
  PROVE  /\ Sound(o) /\ o.slot = NoSlot
         /\ o.rec = [n \in Slots |-> IF n \in S THEN Free ELSE rec[n]]
         /\ o.bad = {} => o.hw = [n \in Slots |-> IF n \in S THEN Off ELSE hw[n]]
  <1> DEFINE off == [n \in Slots |-> IF n \in S THEN Off ELSE hw[n]]
             gone == [n \in Slots |-> IF n \in S THEN Free ELSE rec[n]]
  <1>1. hw \in [Slots -> Triggers] /\ rec \in [Slots -> Records]
      BY DEF Typed, TypeOK
  <1>2. off \in [Slots -> Triggers] /\ gone \in [Slots -> Records]
      BY <1>1, TriggerTypes
  <1>3. GhostsOf(off, gone) \subseteq Ghosts \ S
      BY DEF GhostsOf, Ghosts, Off
  <1>33. \A n \in Slots \ S : gone[n] = rec[n]
      OBVIOUS
  <1>4. CASE o = Outcome(off, gone, NoSlot, {})
    <2>1. o.hw = off /\ o.rec = gone /\ o.slot = NoSlot /\ o.bad = {}
        BY <1>4, OutcomeFields
    <2>2. Sound(o)
      <3> HIDE DEF off, gone
      <3>1. /\ o.hw \in [Slots -> Triggers] /\ o.rec \in [Slots -> Records]
            /\ o.bad \in SUBSET Slots /\ \A n \in Slots \ S : o.rec[n] = rec[n]
          BY <1>2, <1>33, <2>1
      <3>2. GhostsOf(o.hw, o.rec) \subseteq (Ghosts \ S) \cup o.bad
          BY <1>3, <2>1
      <3> QED BY <3>1, <3>2, SoundBy
    <2> QED BY <2>1, <2>2
  <1>5. ASSUME NEW n \in S, o = Outcome([off EXCEPT ![n] = Unknown], gone, NoSlot, {n})
        PROVE  /\ Sound(o) /\ o.slot = NoSlot /\ o.rec = gone /\ o.bad = {n}
    <2>1. o.hw = [off EXCEPT ![n] = Unknown] /\ o.rec = gone /\ o.slot = NoSlot /\ o.bad = {n}
        BY <1>5, OutcomeFields
    <2> HIDE DEF off, gone
    <2>2. o.hw \in [Slots -> Triggers] /\ \A m \in Slots \ {n} : o.hw[m] = off[m]
        BY <1>2, <2>1, TriggerTypes
    <2>3. GhostsOf(o.hw, o.rec) \subseteq (Ghosts \ S) \cup {n}
        BY <1>3, <2>1, <2>2 DEF GhostsOf
    <2> QED BY <1>2, <1>33, <2>1, <2>2, <2>3, SoundBy
  <1>6. o = Outcome(off, gone, NoSlot, {})
        \/ \E n \in S : o = Outcome([off EXCEPT ![n] = Unknown], gone, NoSlot, {n})
      BY DEF Cleared
  <1>7. Sound(o) /\ o.slot = NoSlot /\ o.rec = gone /\ (o.bad = {} => o.hw = off)
    <2> HIDE DEF off, gone
    <2>1. CASE o = Outcome(off, gone, NoSlot, {})
        BY <1>4, <2>1, OutcomeFields
    <2>2. CASE \E n \in S : o = Outcome([off EXCEPT ![n] = Unknown], gone, NoSlot, {n})
      <3>1. Sound(o) /\ o.slot = NoSlot /\ o.rec = gone /\ o.bad # {}
          BY <1>5, <2>2
      <3> QED BY <3>1
    <2> QED BY <1>6, <2>1, <2>2
  <1> QED BY <1>7

(* tricore_bp_remove. *)
LEMMA RemoveOutcomes ==
  ASSUME Typed, NEW a, NEW o \in Remove(a)
  PROVE  /\ Sound(o)
         /\ Holding(a) = {} => o.hw = hw /\ o.rec = rec
         /\ Holding(a) # {} =>
              LET n == SlotOf(a)
                  S == {n} \cup (IF rec[n].kind = "watch" /\ rec[n].size > 1
                                 THEN {n + 1} \cap Slots ELSE {})
              IN  /\ o.rec = [m \in Slots |-> IF m \in S THEN Free ELSE rec[m]]
                  /\ o.bad = {} => o.hw = [m \in Slots |-> IF m \in S THEN Off ELSE hw[m]]
  <1>1. CASE Holding(a) = {}
    <2>1. o = Refused
        BY <1>1, SlotOfIn DEF Remove
    <2> QED BY <1>1, <2>1, RefusedSound, OutcomeFields DEF Refused
  <1>2. CASE Holding(a) # {}
    <2> DEFINE n == SlotOf(a)
               S == {n} \cup (IF rec[n].kind = "watch" /\ rec[n].size > 1
                              THEN {n + 1} \cap Slots ELSE {})
    <2>1. n # NoSlot /\ n \in Slots
        BY <1>2, SlotOfIn
    <2>2. o \in Cleared(S)
        BY <2>1 DEF Remove
    <2>3. S \in SUBSET Slots
        BY <2>1
    <2> HIDE DEF S
    <2>4. /\ Sound(o) /\ o.rec = [m \in Slots |-> IF m \in S THEN Free ELSE rec[m]]
          /\ o.bad = {} => o.hw = [m \in Slots |-> IF m \in S THEN Off ELSE hw[m]]
        BY <2>2, <2>3, ClearedOutcomes
    <2> QED BY <1>2, <2>4 DEF S
  <1> QED BY <1>1, <1>2

(* tricore_bp_add_watch. *)
LEMMA AddWatchOutcomes ==
  ASSUME Typed, NEW a \in Nat, NEW size \in Sizes, NEW o \in AddWatch(a, size)
  PROVE  /\ Sound(o)
         /\ \A n \in Slots : o.rec[n] = rec[n] \/ o.rec[n].kind \in {"watch", "hi"}
         /\ o.bad = {} =>
              \/ o.hw = hw /\ o.rec = rec /\ (Holding(a) # {} \/ o.slot = NoSlot)
              \/ /\ Holding(a) = {}
                 /\ \E n \in FreeSlots :
                      /\ size > 1 => n + 1 \in FreeSlots
                      /\ o.hw = Armed(n, a, size)
                      /\ o.rec = [m \in Slots |->
                           IF m = n THEN [kind |-> "watch", addr |-> a, size |-> size]
                           ELSE IF m = n + 1 /\ size > 1
                                THEN [kind |-> "hi", addr |-> a + size, size |-> 0]
                           ELSE rec[m]]
  <1> DEFINE room == IF size > 1 THEN FreePairs ELSE FreeSlots
             n == Min(room)
             held == [m \in Slots |->
                        IF m = n THEN [kind |-> "watch", addr |-> a, size |-> size]
                        ELSE IF m = n + 1 /\ size > 1
                             THEN [kind |-> "hi", addr |-> a + size, size |-> 0]
                        ELSE rec[m]]
  <1>1. CASE SlotOf(a) # NoSlot
    <2>1. o = Outcome(hw, rec, SlotOf(a), {}) /\ Holding(a) # {} /\ SlotOf(a) \in Slots
        BY <1>1, SlotOfIn DEF AddWatch
    <2> QED BY <2>1, RefusedSound, OutcomeFields
  <1>2. CASE SlotOf(a) = NoSlot /\ room = {}
    <2>1. o = Refused
        BY <1>2 DEF AddWatch
    <2> QED BY <2>1, RefusedSound, OutcomeFields DEF Refused
  <1>3. CASE SlotOf(a) = NoSlot /\ room # {}
    <2>1. n \in FreeSlots /\ n \in Slots /\ (size > 1 => n + 1 \in FreeSlots /\ n + 1 \in Slots)
        BY <1>3, FreeIn
    <2>2. Holding(a) = {}
        BY <1>3, SlotOfIn
    <2>3. size \in Nat /\ a + size \in Nat /\ n \in Nat
      <3>1. size \in Nat
          BY SlotFacts
      <3> HIDE DEF n
      <3> QED BY <2>1, <3>1, SlotFacts
    <2>4. o \in {Outcome(Armed(n, a, size), held, n, {}),
                 Outcome([Armed(n, a, size) EXCEPT ![n] = Unknown], rec, NoSlot, {n})}
               \cup {Outcome([Armed(n, a, size) EXCEPT ![m] = Unknown], held, n, {m}) :
                     m \in IF size > 1 THEN {n, n + 1} ELSE {}}
        BY <1>3 DEF AddWatch
    <2>5. hw \in [Slots -> Triggers] /\ rec \in [Slots -> Records]
        BY DEF Typed, TypeOK
    <2>6. held \in [Slots -> Records]
      <3>1. [kind |-> "watch", addr |-> a, size |-> size] \in Records
            /\ [kind |-> "hi", addr |-> a + size, size |-> 0] \in Records
          BY <2>3 DEF Records
      <3> QED BY <2>5, <3>1
    <2>7. Armed(n, a, size) \in [Slots -> Triggers]
      <3>1. \A b \in Nat : [evt |-> "off", adr |-> b] \in Triggers
            /\ [evt |-> IF size = 1 THEN "data" ELSE "range", adr |-> b] \in Triggers
          BY DEF Triggers
      <3> QED BY <2>3, <2>5, <3>1 DEF Armed
    <2>8. \A m \in Slots : held[m] = rec[m] \/ held[m].kind \in {"watch", "hi"}
        OBVIOUS
    <2>9. \A m \in Slots :
            /\ m = n => held[m].kind = "watch" /\ held[m].addr = a /\ Armed(n, a, size)[m].adr = a
            /\ m = n + 1 /\ size > 1 => Armed(n, a, size)[m].evt = "off"
            /\ m # n /\ ~(m = n + 1 /\ size > 1) => held[m] = rec[m] /\ Armed(n, a, size)[m] = hw[m]
        BY <2>3 DEF Armed
    <2>10. \/ o.bad = {} /\ o.hw = Armed(n, a, size) /\ o.rec = held
           \/ \E m \in Slots : /\ o.bad = {m}
                               /\ o.hw = [Armed(n, a, size) EXCEPT ![m] = Unknown]
                               /\ o.rec = held \/ (o.rec = rec /\ m = n)
      <3> HIDE DEF n, held
      <3>1. CASE o = Outcome(Armed(n, a, size), held, n, {})
          BY <3>1, OutcomeFields
      <3>2. CASE o = Outcome([Armed(n, a, size) EXCEPT ![n] = Unknown], rec, NoSlot, {n})
        <4>1. o.bad = {n} /\ o.rec = rec /\ o.hw = [Armed(n, a, size) EXCEPT ![n] = Unknown]
            BY <3>2, OutcomeFields
        <4> QED BY <2>1, <4>1
      <3>3. ASSUME NEW m \in IF size > 1 THEN {n, n + 1} ELSE {},
                   o = Outcome([Armed(n, a, size) EXCEPT ![m] = Unknown], held, n, {m})
            PROVE  m \in Slots /\ o.bad = {m} /\ o.rec = held
                   /\ o.hw = [Armed(n, a, size) EXCEPT ![m] = Unknown]
        <4>1. m \in Slots
            BY <2>1
        <4> QED BY <3>3, <4>1, OutcomeFields
      <3> QED BY <2>4, <3>1, <3>2, <3>3
    <2>11. o.bad = {} => o.hw = Armed(n, a, size) /\ o.rec = held
      <3> HIDE DEF n, held
      <3> QED BY <2>10
    <2> DEFINE T == {i \in Slots : i = n \/ (i = n + 1 /\ size > 1)}
    <2>12. GhostsOf(Armed(n, a, size), held) \subseteq Ghosts \ T
      <3> HIDE DEF n, held
      <3> QED BY <2>9 DEF GhostsOf, Ghosts
    <2>13. GhostsOf(Armed(n, a, size), rec) \subseteq Ghosts \cup {n}
      <3> HIDE DEF n, held
      <3> QED BY <2>9 DEF GhostsOf, Ghosts
    <2>14. Sound(o)
      <3>0. \A i \in Slots \ T : held[i] = rec[i]
          OBVIOUS
      <3> HIDE DEF n, held, T
      <3>1. CASE o.bad = {}
          BY <2>6, <2>7, <2>11, <2>12, <3>0, <3>1, SoundBy
      <3>2. ASSUME NEW m \in Slots, o.bad = {m}, o.hw = [Armed(n, a, size) EXCEPT ![m] = Unknown],
                   o.rec = held \/ (o.rec = rec /\ m = n)
            PROVE  Sound(o)
        <4>1. o.hw \in [Slots -> Triggers] /\ o.rec \in [Slots -> Records]
              /\ \A i \in Slots \ {m} : o.hw[i] = Armed(n, a, size)[i]
            BY <2>5, <2>6, <2>7, <3>2, TriggerTypes
        <4>2. CASE o.rec = held
          <5>1. GhostsOf(o.hw, o.rec) \subseteq (Ghosts \ T) \cup {m}
              BY <2>12, <4>1, <4>2 DEF GhostsOf
          <5> QED BY <3>0, <3>2, <4>1, <4>2, <5>1, SoundBy
        <4>3. CASE o.rec = rec /\ m = n
          <5>1. GhostsOf(o.hw, o.rec) \subseteq (Ghosts \ {}) \cup {m}
              BY <2>13, <4>1, <4>3 DEF GhostsOf
          <5> QED BY <3>2, <4>1, <4>3, <5>1, SoundBy
        <4> QED BY <3>2, <4>2, <4>3
      <3> QED BY <2>10, <3>1, <3>2
    <2>15. o.rec = held \/ o.rec = rec
      <3> HIDE DEF n, held
      <3> QED BY <2>10, <2>11
    <2> QED BY <2>1, <2>2, <2>8, <2>11, <2>14, <2>15
  <1> QED BY <1>1, <1>2, <1>3

-----------------------------------------------------------------------------
(* Types, and the triggers without a record. *)

RegTypes ==
  /\ rec \in [Slots -> Records] /\ hw \in [Slots -> Triggers]
  /\ web \in Nat /\ faults \in Nat /\ web + faults \in 0 .. MaxTrouble
  /\ wanted \subseteq Requests /\ wiped \subseteq wanted /\ strays \subseteq Slots

CtlTypes ==
  /\ at \in {"off", "idle", "lift", "fall", "branch", "go", "clear", "giveup", "restore", "run"}
  /\ step \in [pc : Addrs \cup {NoAddr}, branch : Addrs \cup {NoAddr},
              lifted : Records, goOn : BOOLEAN]
  /\ mixed \in BOOLEAN

LEMMA TypedParts == Typed <=> RegTypes /\ CtlTypes
  BY DEF Typed, TypeOK, RegTypes, CtlTypes

(* The bound on failures, in numbers. *)
LEMMA SumRange ==
  \A i, j, k \in Nat : i + j <= k => i + j \in 0 .. k /\ 0 <= j
  OBVIOUS

LEMMA FailureCount ==
  ASSUME NEW o
  PROVE  /\ Failures(o) \in {0, 1}
         /\ Failures(o) = 0 <=> o.bad = {}
  BY DEF Failures

(* A reset: what it cleared, and what a lost one left armed. *)
LEMMA DroppedSound ==
  ASSUME Typed, NEW o, Sound(o), NEW asked \in SUBSET Requests, Dropped(o, asked), web' \in Nat
  PROVE  RegTypes' /\ NoGhost' /\ (faults' = 0 => faults = 0) /\ wiped' = wanted'
  <1>1. /\ faults \in Nat /\ MaxTrouble \in Nat /\ rec \in [Slots -> Records]
        /\ o.hw \in [Slots -> Triggers] /\ o.rec \in [Slots -> Records]
      BY TriggerAssumption DEF Typed, TypeOK, Sound
  <1>2. /\ rec' = [n \in Slots |-> IF n \in Changed(o) THEN o.rec[n] ELSE Free]
        /\ wanted' = asked /\ wiped' = asked /\ web' + faults' <= MaxTrouble
      BY DEF Dropped
  <1>3. rec' \in [Slots -> Records]
      BY <1>1, <1>2, TriggerTypes
  <1>4. /\ hw' \in [Slots -> Triggers] /\ strays' \subseteq Slots /\ Ghosts' \subseteq strays'
        /\ faults' = faults + Failures(o) \/ faults' = faults + Failures(o) + 1
    <2>1. ASSUME NEW S \in {{}} \cup {{n} : n \in Written(o)}, strays' = S,
                 hw' = [n \in Slots |-> IF n \in S THEN Unknown ELSE Off]
          PROVE  hw' \in [Slots -> Triggers] /\ strays' \subseteq Slots /\ Ghosts' \subseteq strays'
      <3>1. S \subseteq Slots
          BY DEF Written, Changed, Sound
      <3>2. hw' \in [Slots -> Triggers] /\ \A n \in Slots \ S : hw'[n].evt = "off"
          BY <2>1, TriggerTypes DEF Off
      <3> QED BY <2>1, <3>1, <3>2 DEF Ghosts
    <2>2. ASSUME hw' = o.hw, strays' = {n \in Slots : o.hw[n].evt # "off"}
          PROVE  hw' \in [Slots -> Triggers] /\ strays' \subseteq Slots /\ Ghosts' \subseteq strays'
        BY <1>1, <2>2 DEF Ghosts
    <2> QED BY <2>1, <2>2 DEF Dropped
  <1>5. faults' \in Nat /\ (faults' = 0 => faults = 0)
      BY <1>1, <1>4, FailureCount
  <1>6. web' + faults' \in 0 .. MaxTrouble
      BY <1>1, <1>2, <1>5, SumRange
  <1> QED BY <1>2, <1>3, <1>4, <1>5, <1>6 DEF RegTypes, NoGhost

(* Any outcome that happens. *)
LEMMA CallSound ==
  ASSUME Typed, NoGhost, NEW o, Sound(o), NEW asked \in SUBSET Requests, Happens(o, asked)
  PROVE  RegTypes' /\ NoGhost' /\ (faults' = 0 => faults = 0) /\ wanted' = asked
  <1>1. CASE Undisturbed(o, asked)
    <2>1. /\ hw' = o.hw /\ rec' = o.rec /\ strays' = (strays \ Changed(o)) \cup o.bad
          /\ wanted' = asked /\ wiped' = wiped \cap asked
          /\ web' = web /\ faults' = faults + Failures(o) /\ web + faults' <= MaxTrouble
        BY <1>1 DEF Undisturbed
    <2>2. faults \in Nat /\ web \in Nat /\ MaxTrouble \in Nat /\ strays \subseteq Slots
        BY TriggerAssumption DEF Typed, TypeOK
    <2>3. web' \in Nat /\ faults' \in Nat /\ (faults' = 0 => faults = 0)
          /\ web' + faults' <= MaxTrouble
        BY <2>1, <2>2, FailureCount
    <2>4. web' + faults' \in 0 .. MaxTrouble
        BY <2>2, <2>3, SumRange
    <2>5. /\ rec' \in [Slots -> Records] /\ hw' \in [Slots -> Triggers]
          /\ strays' \subseteq Slots /\ wanted' \subseteq Requests /\ wiped' \subseteq wanted'
        BY <2>1, <2>2 DEF Sound
    <2>6. Ghosts' = GhostsOf(o.hw, o.rec)
        BY <2>1 DEF Ghosts, GhostsOf
    <2>7. Ghosts' \subseteq strays'
        BY <2>1, <2>6 DEF Sound, NoGhost
    <2> QED BY <2>1, <2>3, <2>4, <2>5, <2>7 DEF RegTypes, NoGhost
  <1>2. CASE Overtaken(o, asked)
    <2>1. web' \in Nat /\ Dropped(o, asked) /\ wanted' = asked
        BY <1>2 DEF Overtaken, Dropped, Typed
    <2> QED BY <2>1, DroppedSound
  <1> QED BY <1>1, <1>2 DEF Happens

(* Nothing written. *)
LEMMA QuietSound ==
  ASSUME Typed, NoGhost, UNCHANGED <<rec, hw, wanted, wiped, strays>>, web' \in Nat, faults' \in Nat,
         web' + faults' <= MaxTrouble
  PROVE  RegTypes' /\ NoGhost'
  <1>1. Ghosts' = Ghosts
      BY DEF Ghosts
  <1>2. /\ rec' \in [Slots -> Records] /\ hw' \in [Slots -> Triggers]
        /\ wanted' \subseteq Requests /\ wiped' \subseteq wanted' /\ strays' \subseteq Slots
      BY DEF Typed, TypeOK
  <1>3. web' + faults' \in 0 .. MaxTrouble
      BY TriggerAssumption, SumRange
  <1> QED BY <1>1, <1>2, <1>3 DEF RegTypes, NoGhost

(* Every call of a step is sound. *)
LEMMA SetSound ==
  ASSUME Typed, NEW r \in Requests, Set(r)
  PROVE  \E o, asked : Sound(o) /\ asked \in SUBSET Requests /\ Happens(o, asked)
  <1>1. r.addr \in Nat /\ (r.what = "watch" => r.size \in Sizes) /\ r.what \in {"break", "watch"}
      BY SlotFacts DEF Requests
  <1>2. PICK o \in IF r.what = "break" THEN Add(r.addr, "user") ELSE AddWatch(r.addr, r.size) :
          Happens(o, IF o.slot = NoSlot THEN wanted ELSE wanted \cup {r})
      BY DEF Set
  <1>3. Sound(o)
      BY <1>1, <1>2, AddOutcomes, AddWatchOutcomes
  <1>4. (IF o.slot = NoSlot THEN wanted ELSE wanted \cup {r}) \in SUBSET Requests
      BY DEF Typed, TypeOK
  <1> QED BY <1>2, <1>3, <1>4

LEMMA RemoveSound ==
  ASSUME Typed, NEW a, NEW asked, \E o \in Remove(a) : Happens(o, asked)
  PROVE  \E o : Sound(o) /\ Happens(o, asked)
  BY RemoveOutcomes

LEMMA KindSound ==
  ASSUME Typed, NEW kinds, NEW asked, \E o \in ClearKind(kinds) : Happens(o, asked)
  PROVE  \E o : Sound(o) /\ Happens(o, asked)
  BY ClearedOutcomes DEF ClearKind

LEMMA AddSound ==
  ASSUME Typed, NEW a \in Nat, NEW kind \in {"user", "step", "watch", "hi"}, NEW asked,
         \E o \in Add(a, kind) : Happens(o, asked)
  PROVE  \E o : Sound(o) /\ Happens(o, asked)
  BY AddOutcomes

LEMMA StepAddresses ==
  ASSUME Typed
  PROVE  /\ Fall \in Addrs /\ Fall \in Nat /\ step.lifted.addr \in Nat
         /\ step.branch \notin {NoAddr, Fall} => step.branch \in Nat
         /\ step.lifted.kind # "free" => step.lifted.kind \in {"user", "step", "watch", "hi"}
  <1>1. step.pc \in Addrs \cup {NoAddr} /\ step.branch \in Addrs \cup {NoAddr}
        /\ step.lifted \in Records
      BY DEF Typed, TypeOK
  <1>2. step.pc + 1 \in Int
    <2>1. CASE step.pc \in Addrs
      <3>1. step.pc \in Nat
          BY <2>1, SlotFacts
      <3> QED BY <3>1
    <2>2. CASE step.pc = NoAddr
      <3>1. step.pc = -1
          BY <2>2 DEF NoAddr
      <3> QED BY <3>1
    <2> QED BY <1>1, <2>1, <2>2
  <1>3. NumAddrs \in Nat \ {0}
      BY SlotFacts
  <1>4. \A i \in Int, k \in Nat \ {0} : i % k \in 0 .. k - 1
      OBVIOUS
  <1>5. Fall \in Addrs
      BY <1>2, <1>3, <1>4 DEF Fall, Addrs
  <1> QED BY <1>1, <1>5, SlotFacts DEF Records

(* tricore_disarm_reset_trigger. *)
LEMMA AttachSound ==
  ASSUME Typed, NoGhost, Attach
  PROVE  RegTypes' /\ NoGhost'
  <1>1. /\ UNCHANGED <<rec, web, wanted, wiped>>
        /\ \/ hw' = [hw EXCEPT ![0] = Off] /\ faults' = faults /\ strays' = strays
           \/ hw' = hw /\ faults' = faults /\ strays' = strays
           \/ /\ web + faults < MaxTrouble /\ faults' = faults + 1
              /\ hw' \in {hw, [hw EXCEPT ![0] = Unknown]} /\ strays' = strays \cup {0}
      BY DEF Attach
  <1>2. /\ hw \in [Slots -> Triggers] /\ rec \in [Slots -> Records] /\ 0 \in Slots
        /\ web \in Nat /\ faults \in Nat /\ MaxTrouble \in Nat /\ strays \subseteq Slots
        /\ wanted \subseteq Requests /\ wiped \subseteq wanted
      BY SlotFacts, TriggerAssumption DEF Typed, TypeOK
  <1>3. web + faults <= MaxTrouble
      BY <1>2 DEF Typed, TypeOK
  <1>4. web' \in Nat /\ faults' \in Nat /\ web' + faults' <= MaxTrouble
      BY <1>1, <1>2, <1>3
  <1>5. web' + faults' \in 0 .. MaxTrouble
      BY <1>2, <1>4, SumRange
  <1>6. hw' \in [Slots -> Triggers] /\ strays' \subseteq Slots
        /\ \A n \in Slots : (hw'[n] = hw[n] /\ n \in strays => n \in strays')
                           /\ (hw'[n] # hw[n] => hw'[n].evt = "off" \/ n \in strays')
      BY <1>1, <1>2, TriggerTypes DEF Off
  <1>7. Ghosts' \subseteq strays'
    <2>1. ASSUME NEW n \in Ghosts' PROVE n \in strays'
      <3>1. n \in Slots /\ hw'[n].evt # "off"
          BY DEF Ghosts
      <3>2. hw'[n] = hw[n] => n \in Ghosts
          BY <1>1 DEF Ghosts
      <3> QED BY <1>6, <3>1, <3>2 DEF NoGhost
    <2> QED BY <2>1
  <1> QED BY <1>1, <1>2, <1>4, <1>5, <1>6, <1>7 DEF RegTypes, NoGhost

(* The allocator's part of every step. *)
LEMMA RegistersKept ==
  ASSUME Typed, NoGhost, Next
  PROVE  RegTypes' /\ NoGhost'
  <1>0. /\ web \in Nat /\ faults \in Nat /\ MaxTrouble \in Nat /\ wanted \in SUBSET Requests
      BY TriggerAssumption DEF Typed, TypeOK
  <1>1. web + faults <= MaxTrouble
      BY <1>0 DEF Typed, TypeOK
  <1>2. ASSUME UNCHANGED calls PROVE RegTypes' /\ NoGhost'
    <2>1. web' \in Nat /\ faults' \in Nat /\ web' + faults' <= MaxTrouble
        BY <1>0, <1>1, <1>2 DEF calls
    <2> QED BY <1>2, <2>1, QuietSound DEF calls
  <1>3. ASSUME NEW asked \in SUBSET Requests, \E o : Sound(o) /\ Happens(o, asked)
        PROVE  RegTypes' /\ NoGhost'
      BY <1>3, CallSound
  <1>4. Sound(Refused)
      BY RefusedSound
  <1>5. ASSUME NEW r \in Requests, Set(r) \/ Clear(r) PROVE RegTypes' /\ NoGhost'
    <2>1. CASE Set(r)
        BY <1>3, <2>1, SetSound
    <2>2. CASE Clear(r)
      <3>1. \E o \in Remove(r.addr) : Happens(o, wanted \ {r})
          BY <2>2 DEF Clear
      <3>2. wanted \ {r} \in SUBSET Requests
          BY <1>0
      <3> QED BY <1>3, <3>1, <3>2, RemoveSound
    <2> QED BY <1>5, <2>1, <2>2
  <1>6. ASSUME NEW pc \in Addrs, NEW cont \in BOOLEAN, BeginStep(pc, cont)
        PROVE  RegTypes' /\ NoGhost'
      BY <1>0, <1>3, <1>6, KindSound DEF BeginStep
  <1>7. CASE Lift
    <2>1. (\E o \in Remove(step.pc) : Happens(o, wanted)) \/ UNCHANGED calls
        BY <1>7 DEF Lift
    <2> QED BY <1>0, <1>2, <1>3, <2>1, RemoveSound
  <1>8. CASE AddFall
      BY <1>0, <1>3, <1>8, AddSound, StepAddresses DEF AddFall
  <1>9. CASE AddBranch
    <2>1. CASE step.branch \notin {NoAddr, Fall}
      <3>1. \E o \in Add(step.branch, "step") : Happens(o, wanted)
          BY <1>9, <2>1 DEF AddBranch
      <3> QED BY <1>0, <1>3, <2>1, <3>1, AddSound, StepAddresses
    <2>2. CASE ~ (step.branch \notin {NoAddr, Fall})
        BY <1>2, <1>9, <2>2 DEF AddBranch
    <2> QED BY <2>1, <2>2
  <1>10. CASE Go
    <2>1. UNCHANGED <<rec, hw, web, wanted, wiped, strays>>
        BY <1>10 DEF Go
    <2>2. faults' = faults \/ (web + faults < MaxTrouble /\ faults' = faults + 1)
        BY <1>10 DEF Go
    <2>3. web' \in Nat /\ faults' \in Nat /\ web' + faults' <= MaxTrouble
        BY <1>0, <1>1, <2>1, <2>2
    <2> QED BY <2>1, <2>3, QuietSound
  <1>11. CASE EndClear
      BY <1>0, <1>3, <1>11, KindSound DEF EndClear
  <1>12. CASE Restore
    <2>1. CASE step.lifted.kind # "free"
      <3>1. \E o \in Add(step.lifted.addr, step.lifted.kind) : Happens(o, wanted)
          BY <1>12, <2>1 DEF Restore
      <3> QED BY <1>0, <1>3, <2>1, <3>1, AddSound, StepAddresses
    <2>2. CASE ~ (step.lifted.kind # "free")
        BY <1>2, <1>12, <2>2 DEF Restore
    <2> QED BY <2>1, <2>2
  <1>13. CASE Continue \/ Stop
      BY <1>2, <1>13 DEF Continue, Stop
  <1>14. CASE Detach
      BY <1>3, <1>14, KindSound DEF Detach
  <1>15. CASE Attach
      BY <1>15, AttachSound
  <1>16. CASE GdbReset
      BY <1>0, <1>4, <1>16, DroppedSound DEF GdbReset
  <1>17. CASE WebFlash
    <2>1. web' \in Nat /\ Dropped(Refused, wanted)
        BY <1>0, <1>17 DEF WebFlash, Overtaken
    <2> QED BY <1>0, <1>4, <2>1, DroppedSound
  <1>18. CASE Probe
    <2>1. /\ web + faults < MaxTrouble /\ web' = web + 1 /\ hw' = hw /\ faults' = faults
          /\ rec' = [n \in Slots |-> Free] /\ wanted' = wanted /\ wiped' = wanted
          /\ strays' = {n \in Slots : hw[n].evt # "off"}
        BY <1>18 DEF Probe
    <2>2. web' \in Nat /\ faults' \in Nat /\ web' + faults' <= MaxTrouble
        BY <1>0, <2>1
    <2>3. web' + faults' \in 0 .. MaxTrouble
        BY <1>0, <2>2, SumRange
    <2>4. rec' \in [Slots -> Records] /\ hw' \in [Slots -> Triggers]
        BY <2>1, TriggerTypes DEF Typed, TypeOK
    <2>5. Ghosts' \subseteq strays'
        BY <2>1 DEF Ghosts
    <2> QED BY <1>0, <2>1, <2>2, <2>3, <2>4, <2>5 DEF RegTypes, NoGhost
  <1> QED BY <1>5, <1>6, <1>7, <1>8, <1>9, <1>10, <1>11, <1>12, <1>13, <1>14, <1>15, <1>16,
             <1>17, <1>18 DEF Next

-----------------------------------------------------------------------------
(* Control: where a step is, and what of it is on record. *)

LEMMA ControlTypes ==
  ASSUME Typed, Next
  PROVE  CtlTypes'
  <1>0. /\ at \in {"off", "idle", "lift", "fall", "branch", "go", "clear", "giveup", "restore",
                  "run"}
        /\ step \in [pc : Addrs \cup {NoAddr}, branch : Addrs \cup {NoAddr},
                    lifted : Records, goOn : BOOLEAN]
        /\ mixed \in BOOLEAN /\ rec \in [Slots -> Records]
      BY DEF Typed, TypeOK
  <1>1. NoStep \in [pc : Addrs \cup {NoAddr}, branch : Addrs \cup {NoAddr},
                   lifted : Records, goOn : BOOLEAN]
      BY TriggerTypes DEF NoStep
  <1>2. ASSUME NEW r \in Requests, Set(r) PROVE CtlTypes'
    <2>1. mixed' = (mixed \/ Shared(r)) /\ Shared(r) \in BOOLEAN
        BY <1>2 DEF Set, Shared
    <2>2. mixed' \in BOOLEAN
        BY <1>0, <2>1, ZenonT(30)
    <2> QED BY <1>0, <1>2, <2>2 DEF Set, CtlTypes
  <1>3. ASSUME NEW r \in Requests, Clear(r) PROVE CtlTypes'
      BY <1>0, <1>3 DEF Clear, CtlTypes
  <1>4. ASSUME NEW pc \in Addrs, NEW cont \in BOOLEAN, BeginStep(pc, cont) PROVE CtlTypes'
    <2>1. PICK b \in Addrs \cup {NoAddr} :
            step' = [pc |-> pc, branch |-> b, lifted |-> Free, goOn |-> cont]
        BY <1>4 DEF BeginStep
    <2> QED BY <1>0, <1>4, <2>1, TriggerTypes DEF BeginStep, CtlTypes
  <1>5. CASE Lift
    <2>1. at' = "fall"
        BY <1>5 DEF Lift
    <2> DEFINE n == SlotOf(step.pc)
    <2>2. CASE n # NoSlot /\ rec[n].kind # "step"
      <3>1. step' = [step EXCEPT !.lifted = rec[n]] /\ mixed' = (mixed \/ rec[n].kind # "user")
          BY <1>5, <2>2 DEF Lift
      <3>2. rec[n] \in Records
          BY <1>0, <2>2, SlotOfIn
      <3>3. mixed' \in BOOLEAN
          BY <1>0, <3>1, ZenonT(30)
      <3>4. step' \in [pc : Addrs \cup {NoAddr}, branch : Addrs \cup {NoAddr},
                      lifted : Records, goOn : BOOLEAN]
          BY <1>0, <3>1, <3>2
      <3> QED BY <2>1, <3>3, <3>4 DEF CtlTypes
    <2>3. CASE ~ (n # NoSlot /\ rec[n].kind # "step")
      <3>1. step' = step /\ mixed' = mixed
          BY <1>5, <2>3 DEF Lift
      <3> QED BY <1>0, <2>1, <3>1 DEF CtlTypes
    <2> QED BY <2>2, <2>3
  <1>6. CASE AddFall \/ AddBranch
      BY <1>0, <1>6 DEF AddFall, AddBranch, CtlTypes
  <1>7. CASE Go \/ Continue \/ Stop \/ Attach
      BY <1>0, <1>7 DEF Go, Continue, Stop, Attach, CtlTypes
  <1>8. CASE EndClear
    <2>1. (at' = "restore" /\ step' = step) \/ (at' \in {"run", "idle"} /\ step' = NoStep)
        BY <1>8 DEF EndClear, Return
    <2>2. mixed' = mixed
        BY <1>8 DEF EndClear
    <2> QED BY <1>0, <1>1, <2>1, <2>2 DEF CtlTypes
  <1>9. CASE Restore
      BY <1>0, <1>1, <1>9 DEF Restore, Return, CtlTypes
  <1>10. CASE Detach \/ GdbReset \/ WebFlash \/ Probe
      BY <1>0, <1>10 DEF Detach, GdbReset, WebFlash, Probe, CtlTypes
  <1> QED BY <1>2, <1>3, <1>4, <1>5, <1>6, <1>7, <1>8, <1>9, <1>10 DEF Next

(* What a call leaves on record: its outcome, or less after a reset. *)
LEMMA HappensRecords ==
  ASSUME NEW o, NEW asked, Happens(o, asked)
  PROVE  wanted' = asked /\ \A n \in Slots : rec'[n] = o.rec[n] \/ rec'[n] = Free
  BY DEF Happens, Undisturbed, Overtaken, Dropped

LEMMA KindRecords ==
  ASSUME Typed, NEW kinds, NEW asked, \E o \in ClearKind(kinds) : Happens(o, asked)
  PROVE  /\ wanted' = asked
         /\ \A n \in Slots : rec'[n] = Free \/ (rec'[n] = rec[n] /\ rec[n].kind \notin kinds)
  <1> DEFINE S == {n \in Slots : rec[n].kind \in kinds}
  <1>1. PICK o \in Cleared(S) : Happens(o, asked)
      BY DEF ClearKind
  <1>2. S \in SUBSET Slots /\ \A n \in Slots : n \in S <=> rec[n].kind \in kinds
      OBVIOUS
  <1> HIDE DEF S
  <1>3. o.rec = [n \in Slots |-> IF n \in S THEN Free ELSE rec[n]]
      BY <1>2, ClearedOutcomes
  <1> QED BY <1>1, <1>2, <1>3, HappensRecords

LEMMA RemoveRecords ==
  ASSUME Typed, NEW a, NEW asked, \E o \in Remove(a) : Happens(o, asked)
  PROVE  wanted' = asked /\ \A n \in Slots : rec'[n] = rec[n] \/ rec'[n] = Free
  <1>1. PICK o \in Remove(a) : Happens(o, asked)
      OBVIOUS
  <1>2. CASE Holding(a) = {}
    <2>1. o.rec = rec
        BY <1>2, RemoveOutcomes
    <2> QED BY <1>1, <2>1, HappensRecords
  <1>3. CASE Holding(a) # {}
    <2> DEFINE m == SlotOf(a)
               S == {m} \cup (IF rec[m].kind = "watch" /\ rec[m].size > 1
                              THEN {m + 1} \cap Slots ELSE {})
    <2>1. o.rec = [n \in Slots |-> IF n \in S THEN Free ELSE rec[n]]
        BY <1>3, RemoveOutcomes
    <2> HIDE DEF S
    <2> QED BY <1>1, <2>1, HappensRecords
  <1> QED BY <1>2, <1>3

LEMMA AddRecords ==
  ASSUME Typed, NEW a \in Nat, NEW kind \in {"user", "step", "watch", "hi"}, NEW asked,
         \E o \in Add(a, kind) : Happens(o, asked)
  PROVE  /\ wanted' = asked
         /\ \A n \in Slots : rec'[n] = rec[n] \/ rec'[n] = Free \/ rec'[n].kind = kind
  <1>1. PICK o \in Add(a, kind) : Happens(o, asked)
      OBVIOUS
  <1>2. \A n \in Slots : o.rec[n] = rec[n] \/ o.rec[n].kind = kind
      BY AddOutcomes
  <1>3. wanted' = asked /\ \A n \in Slots : rec'[n] = o.rec[n] \/ rec'[n] = Free
      BY <1>1, HappensRecords
  <1> QED BY <1>2, <1>3

LEMMA SetRecords ==
  ASSUME Typed, NEW r \in Requests, Set(r)
  PROVE  \A n \in Slots : rec'[n] = rec[n] \/ rec'[n] = Free
                          \/ rec'[n].kind \in {"user", "watch", "hi"}
  <1>1. r.addr \in Nat /\ (r.what = "watch" => r.size \in Sizes) /\ r.what \in {"break", "watch"}
      BY SlotFacts DEF Requests
  <1>2. PICK o \in IF r.what = "break" THEN Add(r.addr, "user") ELSE AddWatch(r.addr, r.size) :
          Happens(o, IF o.slot = NoSlot THEN wanted ELSE wanted \cup {r})
      BY DEF Set
  <1>3. \A n \in Slots : o.rec[n] = rec[n] \/ o.rec[n].kind \in {"user", "watch", "hi"}
    <2>1. CASE r.what = "break"
      <3>1. \A n \in Slots : o.rec[n] = rec[n] \/ o.rec[n].kind = "user"
          BY <1>1, <1>2, <2>1, AddOutcomes
      <3> QED BY <3>1
    <2>2. CASE r.what = "watch"
        BY <1>1, <1>2, <2>2, AddWatchOutcomes
    <2> QED BY <1>1, <2>1, <2>2
  <1>4. \A n \in Slots : rec'[n] = o.rec[n] \/ rec'[n] = Free
      BY <1>2, HappensRecords
  <1> QED BY <1>3, <1>4

(* What is on record between steps, and the rest of Tidy. *)
LEMMA TidyKept ==
  ASSUME Typed, Tidy, Next
  PROVE  Tidy'
  <1>0. Free.kind = "free" /\ NoStep.lifted = Free
      BY DEF Free, NoStep
  <1>1. ASSUME NEW r \in Requests, Set(r) \/ Clear(r) PROVE Tidy'
    <2>1. at = "idle" /\ at' = "idle" /\ step' = step
        BY <1>1 DEF Set, Clear
    <2>2. \A n \in Slots : rec'[n] = rec[n] \/ rec'[n].kind \in {"free", "user", "watch", "hi"}
      <3>1. CASE Set(r)
        <4>1. \A n \in Slots : rec'[n] = rec[n] \/ rec'[n] = Free
                                \/ rec'[n].kind \in {"user", "watch", "hi"}
            BY <3>1, SetRecords
        <4> QED BY <1>0, <4>1
      <3>2. CASE Clear(r)
          BY <1>0, <3>2, RemoveRecords DEF Clear
      <3> QED BY <1>1, <3>1, <3>2
    <2>3. \A n \in Slots : rec'[n].kind # "step"
        BY <2>1, <2>2 DEF Tidy
    <2> QED BY <2>1, <2>3 DEF Tidy
  <1>2. ASSUME NEW pc \in Addrs, NEW cont \in BOOLEAN, BeginStep(pc, cont) PROVE Tidy'
    <2>1. at' = "lift" /\ step'.lifted = Free
        BY <1>2 DEF BeginStep
    <2>2. \A n \in Slots : rec'[n].kind # "step"
      <3>1. \A n \in Slots : rec'[n] = Free \/ (rec'[n] = rec[n] /\ rec[n].kind \notin {"step"})
          BY <1>2, KindRecords DEF BeginStep
      <3> QED BY <1>0, <3>1
    <2> QED BY <1>0, <2>1, <2>2 DEF Tidy
  <1>3. CASE Lift
    <2>1. at' = "fall" /\ (step' = step \/ \E n \in Slots : step'.lifted = rec[n])
      <3> DEFINE n == SlotOf(step.pc)
      <3>1. CASE n # NoSlot /\ rec[n].kind # "step"
        <4>1. step' = [step EXCEPT !.lifted = rec[n]] /\ n \in Slots /\ at' = "fall"
            BY <1>3, <3>1, SlotOfIn DEF Lift
        <4>2. step'.lifted = rec[n]
            BY <4>1 DEF Typed, TypeOK
        <4> QED BY <4>1, <4>2
      <3>2. CASE ~ (n # NoSlot /\ rec[n].kind # "step")
          BY <1>3, <3>2 DEF Lift
      <3> QED BY <3>1, <3>2
    <2>2. \A n \in Slots : rec[n].kind # "step"
        BY <1>3 DEF Lift, Tidy
    <2>3. step'.lifted.kind # "step"
        BY <2>1, <2>2 DEF Tidy
    <2> QED BY <2>1, <2>3 DEF Tidy
  <1>4. CASE AddFall \/ AddBranch
    <2>1. at' \in {"branch", "go"} /\ step' = step
        BY <1>4 DEF AddFall, AddBranch
    <2> QED BY <2>1 DEF Tidy
  <1>5. CASE Go
    <2>1. step' = step /\ (at' = "clear" \/ (at' = "giveup" /\ faults' = faults + 1))
        BY <1>5 DEF Go
    <2>2. at' = "giveup" => faults' > 0
      <3>1. faults \in Nat
          BY DEF Typed
      <3> QED BY <2>1, <3>1
    <2> QED BY <2>1, <2>2 DEF Tidy
  <1>6. CASE EndClear
    <2>1. \/ at' = "restore" /\ step' = step
          \/ at' \in {"run", "idle"} /\ step' = NoStep
        BY <1>6 DEF EndClear, Return
    <2>2. \A n \in Slots : rec'[n].kind # "step"
      <3>1. \A n \in Slots : rec'[n] = Free \/ (rec'[n] = rec[n] /\ rec[n].kind \notin {"step"})
          BY <1>6, KindRecords DEF EndClear
      <3> QED BY <1>0, <3>1
    <2> QED BY <1>0, <2>1, <2>2 DEF Tidy
  <1>7. CASE Restore
    <2>1. at' \in {"run", "idle"} /\ step' = NoStep /\ at = "restore"
        BY <1>7 DEF Restore, Return
    <2>2. \A n \in Slots : rec'[n] = rec[n] \/ rec'[n] = Free \/ rec'[n].kind = step.lifted.kind
      <3>1. CASE step.lifted.kind # "free"
        <4>1. \E o \in Add(step.lifted.addr, step.lifted.kind) : Happens(o, wanted)
            BY <1>7, <3>1 DEF Restore
        <4> QED BY <3>1, <4>1, AddRecords, StepAddresses
      <3>2. CASE ~ (step.lifted.kind # "free")
          BY <1>7, <3>2 DEF Restore, calls
      <3> QED BY <3>1, <3>2
    <2>3. \A n \in Slots : rec'[n].kind # "step"
        BY <1>0, <2>1, <2>2 DEF Tidy
    <2> QED BY <1>0, <2>1, <2>3 DEF Tidy
  <1>8. CASE Continue \/ Stop
    <2>1. at \in {"idle", "run"} /\ at' \in {"idle", "run"} /\ rec' = rec /\ step' = step
        BY <1>8 DEF Continue, Stop, calls
    <2> QED BY <2>1 DEF Tidy
  <1>9. CASE Detach
    <2>0. at = "idle" /\ at' = "off" /\ step' = step
        BY <1>9 DEF Detach
    <2>1. /\ wanted' = {}
          /\ \A n \in Slots : rec'[n] = Free
               \/ (rec'[n] = rec[n] /\ rec[n].kind \notin {"user", "step", "watch", "hi"})
        BY <1>9, KindRecords DEF Detach
    <2>2. \A n \in Slots : rec'[n].kind # "step"
        BY <1>0, <2>1
    <2> QED BY <2>0, <2>1, <2>2 DEF Tidy
  <1>10. CASE Attach
    <2>1. at = "off" /\ at' = "idle" /\ rec' = rec /\ step' = step
        BY <1>10 DEF Attach
    <2> QED BY <2>1 DEF Tidy
  <1>11. CASE GdbReset \/ WebFlash \/ Probe
    <2>1. at' = at /\ step' = step /\ wanted' = wanted
        BY <1>11 DEF GdbReset, WebFlash, Overtaken, Probe, Dropped
    <2>2. \A n \in Slots : rec'[n] = Free
      <3>1. Changed(Refused) = {}
          BY DEF Changed, Refused, Outcome
      <3> QED BY <1>11, <3>1 DEF GdbReset, WebFlash, Overtaken, Probe, Dropped
    <2>3. faults > 0 => faults' > 0
      <3>1. faults' = faults \/ faults' = faults + Failures(Refused)
            \/ faults' = faults + Failures(Refused) + 1
          BY <1>11 DEF GdbReset, WebFlash, Overtaken, Probe, Dropped
      <3>2. Failures(Refused) \in {0, 1} /\ faults \in Nat
          BY FailureCount DEF Typed
      <3> QED BY <3>1, <3>2
    <2> QED BY <1>0, <2>1, <2>2, <2>3 DEF Tidy
  <1> QED BY <1>1, <1>2, <1>3, <1>4, <1>5, <1>6, <1>7, <1>8, <1>9, <1>10, <1>11 DEF Next

-----------------------------------------------------------------------------
(* Requests and the slots they have, while nothing has failed. *)

LEMMA RequestFacts ==
  ASSUME NEW q \in Requests
  PROVE  /\ q.addr \in Nat /\ q.what \in {"break", "watch"} /\ q.size \in Nat
         /\ q.what = "break" => q.size = 0
         /\ q.what = "watch" => q.size \in Sizes /\ q.size # 0
  BY SlotFacts DEF Requests

(* What has gone wrong stays gone wrong. *)
LEMMA CleanBefore ==
  ASSUME Typed, NoGhost, Next, Clean'
  PROVE  Clean
  <1>0. faults \in Nat /\ wanted \in SUBSET Requests
      BY DEF Typed, TypeOK
  <1>1. ASSUME NEW asked \in SUBSET Requests, \E o : Sound(o) /\ Happens(o, asked), faults' = 0
        PROVE  faults = 0
      BY <1>1, CallSound
  <1>2. faults' = 0 => faults = 0
    <2> SUFFICES ASSUME faults' = 0 PROVE faults = 0
        OBVIOUS
    <2>1. ASSUME NEW r \in Requests, Set(r) \/ Clear(r) PROVE faults = 0
      <3>1. CASE Set(r)
          BY <1>1, <3>1, SetSound
      <3>2. CASE Clear(r)
        <4>1. \E o \in Remove(r.addr) : Happens(o, wanted \ {r})
            BY <3>2 DEF Clear
        <4>2. wanted \ {r} \in SUBSET Requests
            BY <1>0
        <4> QED BY <1>1, <4>1, <4>2, RemoveSound
      <3> QED BY <2>1, <3>1, <3>2
    <2>2. ASSUME NEW pc \in Addrs, NEW cont \in BOOLEAN, BeginStep(pc, cont) PROVE faults = 0
        BY <1>0, <1>1, <2>2, KindSound DEF BeginStep
    <2>3. Lift => faults = 0
      <3>1. Lift => (\E o \in Remove(step.pc) : Happens(o, wanted)) \/ faults' = faults
          BY DEF Lift, calls
      <3> QED BY <1>0, <1>1, <3>1, RemoveSound
    <2>4. AddFall => faults = 0
        BY <1>0, <1>1, AddSound, StepAddresses DEF AddFall
    <2>5. AddBranch => faults = 0
        BY <1>0, <1>1, AddSound, StepAddresses DEF AddBranch, calls
    <2>6. EndClear => faults = 0
        BY <1>0, <1>1, KindSound DEF EndClear
    <2>7. Detach => faults = 0
        BY <1>1, KindSound DEF Detach
    <2>8. Restore => faults = 0
        BY <1>0, <1>1, AddSound, StepAddresses DEF Restore, calls
    <2>9. Go \/ Continue \/ Stop \/ Attach \/ Probe => faults = 0
      <3>1. Go \/ Continue \/ Stop \/ Attach \/ Probe => faults' = faults \/ faults' = faults + 1
          BY DEF Go, Continue, Stop, Attach, Probe, calls
      <3> QED BY <1>0, <3>1
    <2>10. GdbReset \/ WebFlash => faults = 0
      <3>1. GdbReset \/ WebFlash => Dropped(Refused, wanted) /\ web' \in Nat
          BY DEF GdbReset, WebFlash, Overtaken, Typed
      <3> QED BY <1>0, <3>1, DroppedSound, RefusedSound
    <2> QED BY <2>1, <2>2, <2>3, <2>4, <2>5, <2>6, <2>7, <2>8, <2>9, <2>10 DEF Next
  <1>3. mixed => mixed'
    <2>1. \A r \in Requests : Set(r) => mixed' = (mixed \/ Shared(r))
        BY DEF Set
    <2>2. Lift => \/ mixed' = (mixed \/ rec[SlotOf(step.pc)].kind # "user")
                  \/ mixed' = mixed
        BY DEF Lift
    <2>3. (\E r \in Requests : Set(r)) \/ Lift \/ mixed' = mixed
        BY DEF Next, Clear, BeginStep, AddFall, AddBranch, Go, EndClear, Restore, Continue,
               Stop, Detach, Attach, GdbReset, WebFlash, Probe
    <2> QED BY <2>1, <2>2, <2>3, ZenonT(30)
  <1> QED BY <1>2, <1>3 DEF Clean

(* A request keeps its slots if nobody writes to them. *)
LEMMA PlacedStays ==
  ASSUME NEW q \in Requests, NEW m \in Slots, PlacedAt(q, m),
         \A i \in Slots : i = m \/ (i = m + 1 /\ rec[i].kind = "hi")
                            => rec'[i] = rec[i] /\ hw'[i] = hw[i]
  PROVE  PlacedAt(q, m)'
  <1>1. rec'[m] = rec[m] /\ hw'[m] = hw[m]
      OBVIOUS
  <1>2. m + 1 \in Slots /\ rec[m + 1].kind = "hi"
          => rec'[m + 1] = rec[m + 1] /\ hw'[m + 1] = hw[m + 1]
      OBVIOUS
  <1> QED BY <1>1, <1>2 DEF PlacedAt

LEMMA PlacedKind ==
  ASSUME NEW q \in Requests, NEW m \in Slots, PlacedAt(q, m)
  PROVE  rec[m].kind \in {"user", "watch"} /\ rec[m].addr = q.addr
  <1>1. q.what \in {"break", "watch"}
      BY RequestFacts
  <1>2. CASE q.what = "break"
      BY <1>2 DEF PlacedAt
  <1>3. CASE q.what = "watch"
      BY <1>3 DEF PlacedAt
  <1> QED BY <1>1, <1>2, <1>3

(* A record that is no range, for an address without one, in a free slot. *)
LEMMA RecordsAdd ==
  ASSUME Distinct, Paired, Apart, OneEach, NEW n \in Slots, NEW a, Holding(a) = {},
         rec[n].kind = "free", rec'[n].addr = a, rec'[n].kind \in {"user", "step"},
         \A i \in Slots \ {n} : rec'[i] = rec[i],
         wanted' \subseteq wanted \/ \E r : /\ wanted' \subseteq wanted \cup {r}
                                            /\ Holding(r.addr) = {}
                                            /\ \A q \in wanted : q.addr # r.addr
  PROVE  Distinct' /\ Paired' /\ Apart' /\ OneEach'
  <1>1. \A i \in Slots : rec[i].kind # "free" => rec[i].addr # a
      BY DEF Holding
  <1>2. Distinct'
    <2> SUFFICES ASSUME NEW i \in Slots, NEW j \in Slots, rec'[i].kind # "free",
                        rec'[j].kind # "free", rec'[i].addr = rec'[j].addr
                 PROVE  i = j
        BY DEF Distinct
    <2>1. CASE i = n
        BY <1>1, <2>1
    <2>2. CASE j = n
        BY <1>1, <2>2
    <2>3. CASE i # n /\ j # n
        BY <2>3 DEF Distinct
    <2> QED BY <2>1, <2>2, <2>3
  <1>3. Paired'
    <2> SUFFICES ASSUME NEW i \in Slots, rec'[i].kind = "watch", rec'[i].size > 1
                 PROVE  i + 1 \in Slots /\ rec'[i + 1].kind = "hi"
        BY DEF Paired
    <2>1. i # n /\ rec'[i] = rec[i]
        OBVIOUS
    <2>2. i + 1 \in Slots /\ rec[i + 1].kind = "hi"
        BY <2>1 DEF Paired
    <2> QED BY <2>2
  <1>4. Apart'
    <2> SUFFICES ASSUME NEW i \in Slots, rec'[i].kind = "hi", NEW q \in wanted'
                 PROVE  q.addr # rec'[i].addr
        BY DEF Apart
    <2>1. rec'[i] = rec[i]
        OBVIOUS
    <2>2. CASE q \in wanted
        BY <2>1, <2>2 DEF Apart
    <2>3. CASE q \notin wanted
        BY <2>1, <2>3 DEF Holding
    <2> QED BY <2>2, <2>3
  <1>5. OneEach'
      BY DEF OneEach
  <1> QED BY <1>2, <1>3, <1>4, <1>5

(* Records that go: a slot that ends no range, with the end of its own. *)
LEMMA RecordsLess ==
  ASSUME Distinct, Paired, Apart, OneEach, wanted' \subseteq wanted,
         NEW S \in SUBSET Slots, \A i \in S : rec'[i].kind = "free",
         \A i \in Slots \ S : rec'[i] = rec[i],
         \A i \in Slots : i + 1 \in S => i \in S \/ rec[i + 1].kind # "hi"
  PROVE  Distinct' /\ Paired' /\ Apart' /\ OneEach'
  <1>1. Distinct' /\ OneEach'
      BY DEF Distinct, OneEach
  <1>2. Paired'
    <2> SUFFICES ASSUME NEW i \in Slots, rec'[i].kind = "watch", rec'[i].size > 1
                 PROVE  i + 1 \in Slots /\ rec'[i + 1].kind = "hi"
        BY DEF Paired
    <2>1. i \notin S /\ rec'[i] = rec[i]
        OBVIOUS
    <2>2. i + 1 \in Slots /\ rec[i + 1].kind = "hi"
        BY <2>1 DEF Paired
    <2> QED BY <2>1, <2>2
  <1>3. Apart'
      BY DEF Apart
  <1> QED BY <1>1, <1>2, <1>3

(* Nothing changes for requests. *)
LEMMA SameKept ==
  ASSUME Kept2, UNCHANGED <<rec, hw, wanted, wiped>>, step'.lifted = step.lifted
  PROVE  Kept2'
  BY DEF Kept2, Distinct, Paired, Apart, OneEach, Lendable, Lent, PlacedAt, Holding

(* After a reset there are no records but those of the call it fell into,  *)
(* and no request holds any.                                               *)
LEMMA EmptyKept ==
  ASSUME OneEach', wiped' = wanted', \A n \in Slots : rec'[n].kind = "free",
         step'.lifted.kind \in {"free", "user"}
  PROVE  Kept2'
  <1>1. Distinct' /\ Paired' /\ Apart'
      BY DEF Distinct, Paired, Apart
  <1>2. Lendable'
      BY SlotFacts DEF Lendable, Holding
  <1> QED BY <1>1, <1>2 DEF Kept2

LEMMA OneNewKept ==
  ASSUME OneEach', wiped' = wanted', NEW n \in Slots, rec'[n].kind \in {"user", "step"},
         \A i \in Slots \ {n} : rec'[i].kind = "free",
         \/ step'.lifted.kind = "free"
         \/ step'.lifted.kind = "user" /\ rec'[n].kind = "step"
  PROVE  Kept2'
  <1>1. Distinct' /\ Paired' /\ Apart'
    <2>1. \A i \in Slots : rec'[i].kind # "free" => i = n
        OBVIOUS
    <2>2. \A i \in Slots : rec'[i].kind # "watch" /\ rec'[i].kind # "hi"
        OBVIOUS
    <2> QED BY <2>1, <2>2 DEF Distinct, Paired, Apart
  <1>2. Lendable'
      BY DEF Lendable, Holding
  <1> QED BY <1>1, <1>2 DEF Kept2

LEMMA DropLess ==
  ASSUME NEW o, NEW asked, Overtaken(o, asked),
         \A n \in Slots : o.rec[n] = rec[n] \/ o.rec[n] = Free
  PROVE  wiped' = wanted' /\ wanted' = asked /\ \A n \in Slots : rec'[n].kind = "free"
  BY DEF Overtaken, Dropped, Changed, Free

LEMMA DropAdd ==
  ASSUME Typed, NEW a \in Nat, NEW kind \in {"user", "step"}, NEW o \in Add(a, kind), NEW asked,
         Overtaken(o, asked), faults' = 0
  PROVE  /\ wiped' = wanted' /\ wanted' = asked
         /\ \/ \A n \in Slots : rec'[n].kind = "free"
            \/ \E n \in Slots : /\ rec'[n].kind = kind
                                /\ \A i \in Slots \ {n} : rec'[i].kind = "free"
  <1>1. /\ rec' = [n \in Slots |-> IF n \in Changed(o) THEN o.rec[n] ELSE Free]
        /\ wanted' = asked /\ wiped' = asked
        /\ faults' = faults + Failures(o) \/ faults' = faults + Failures(o) + 1
      BY DEF Overtaken, Dropped
  <1>2. faults \in Nat /\ rec \in [Slots -> Records]
      BY DEF Typed, TypeOK
  <1>3. o.bad = {}
      BY <1>1, <1>2, FailureCount
  <1>4. CASE o.rec = rec
      BY <1>1, <1>4 DEF Changed, Free
  <1>5. CASE Added(o, a, kind)
    <2>1. PICK n \in FreeSlots :
            o.rec = [rec EXCEPT ![n] = [kind |-> kind, addr |-> a, size |-> 0]]
        BY <1>5 DEF Added
    <2>2. n \in Slots /\ rec[n].kind = "free"
        BY <2>1 DEF FreeSlots
    <2>3. o.rec[n].kind = kind /\ \A i \in Slots \ {n} : o.rec[i] = rec[i]
        BY <1>2, <2>1, <2>2
    <2>4. rec'[n].kind = kind
        BY <1>1, <2>2, <2>3 DEF Changed
    <2>5. \A i \in Slots \ {n} : rec'[i].kind = "free"
        BY <1>1, <2>3 DEF Changed, Free
    <2> QED BY <1>1, <2>2, <2>4, <2>5
  <1> QED BY <1>1, <1>3, <1>4, <1>5, AddOutcomes

(* A clean call that nothing got into. *)
LEMMA CleanCall ==
  ASSUME Typed, NEW o, NEW asked, Undisturbed(o, asked), faults' = 0
  PROVE  /\ o.bad = {} /\ hw' = o.hw /\ rec' = o.rec
         /\ wanted' = asked /\ wiped' = wiped \cap asked
  <1>1. faults \in Nat /\ faults' = faults + Failures(o)
      BY DEF Typed, Undisturbed
  <1>2. o.bad = {}
      BY <1>1, FailureCount
  <1> QED BY <1>2 DEF Undisturbed

LEMMA WipedStays ==
  ASSUME Typed
  PROVE  wiped \cap wanted = wiped /\ wanted \subseteq Requests /\ wiped \subseteq wanted
  BY DEF Typed, TypeOK

LEMMA CleanKind ==
  ASSUME Typed, faults' = 0, NEW kinds, NEW asked, NEW o \in ClearKind(kinds),
         Undisturbed(o, asked)
  PROVE  /\ wanted' = asked /\ wiped' = wiped \cap asked
         /\ \A n \in Slots : /\ rec[n].kind \in kinds => rec'[n] = Free /\ hw'[n] = Off
                             /\ rec[n].kind \notin kinds => rec'[n] = rec[n] /\ hw'[n] = hw[n]
  <1> DEFINE S == {n \in Slots : rec[n].kind \in kinds}
  <1>1. o \in Cleared(S)
      BY DEF ClearKind
  <1>2. S \in SUBSET Slots /\ \A n \in Slots : n \in S <=> rec[n].kind \in kinds
      OBVIOUS
  <1> HIDE DEF S
  <1>3. /\ o.rec = [n \in Slots |-> IF n \in S THEN Free ELSE rec[n]]
        /\ o.bad = {} => o.hw = [n \in Slots |-> IF n \in S THEN Off ELSE hw[n]]
      BY <1>1, <1>2, ClearedOutcomes
  <1>4. o.bad = {} /\ hw' = o.hw /\ rec' = o.rec /\ wanted' = asked /\ wiped' = wiped \cap asked
      BY CleanCall
  <1> QED BY <1>2, <1>3, <1>4

LEMMA KindLess ==
  ASSUME Typed, NEW kinds, NEW o \in ClearKind(kinds)
  PROVE  \A n \in Slots : o.rec[n] = rec[n] \/ o.rec[n] = Free
  <1> DEFINE S == {n \in Slots : rec[n].kind \in kinds}
  <1>1. o \in Cleared(S) /\ S \in SUBSET Slots
      BY DEF ClearKind
  <1> HIDE DEF S
  <1>2. o.rec = [n \in Slots |-> IF n \in S THEN Free ELSE rec[n]]
      BY <1>1, ClearedOutcomes
  <1> QED BY <1>2

LEMMA RemoveLess ==
  ASSUME Typed, NEW a, NEW o \in Remove(a)
  PROVE  \A n \in Slots : o.rec[n] = rec[n] \/ o.rec[n] = Free
  <1>1. CASE Holding(a) = {}
      BY <1>1, RemoveOutcomes
  <1>2. CASE Holding(a) # {}
    <2> DEFINE m == SlotOf(a)
               S == {m} \cup (IF rec[m].kind = "watch" /\ rec[m].size > 1
                              THEN {m + 1} \cap Slots ELSE {})
    <2>1. o.rec = [n \in Slots |-> IF n \in S THEN Free ELSE rec[n]]
        BY <1>2, RemoveOutcomes
    <2> HIDE DEF S
    <2> QED BY <2>1
  <1> QED BY <1>1, <1>2

(* A breakpoint or a step's trigger: nothing, for there is one or no room, *)
(* or a free slot.                                                         *)
LEMMA CleanAdd ==
  ASSUME Typed, faults' = 0, NEW a \in Nat, NEW kind \in {"user", "step", "watch", "hi"},
         NEW o \in Add(a, kind), NEW asked, Undisturbed(o, asked)
  PROVE  \/ UNCHANGED <<rec, hw>> /\ (Holding(a) # {} \/ (FreeSlots = {} /\ o.slot = NoSlot))
         \/ /\ Holding(a) = {}
            /\ \E n \in Slots :
                 /\ rec[n].kind = "free"
                 /\ rec'[n] = [kind |-> kind, addr |-> a, size |-> 0] /\ hw'[n] = Code(a)
                 /\ \A i \in Slots \ {n} : rec'[i] = rec[i] /\ hw'[i] = hw[i]
  <1>2. o.bad = {} /\ hw' = o.hw /\ rec' = o.rec
      BY CleanCall
  <1>3. \/ UNCHANGED <<rec, hw>> /\ (Holding(a) # {} \/ (FreeSlots = {} /\ o.slot = NoSlot))
        \/ /\ Holding(a) = {}
           /\ \E n \in FreeSlots :
                /\ hw' = [hw EXCEPT ![n] = Code(a)]
                /\ rec' = [rec EXCEPT ![n] = [kind |-> kind, addr |-> a, size |-> 0]]
    <2>1. \/ o.hw = hw /\ o.rec = rec /\ Holding(a) # {}
          \/ o.hw = hw /\ o.rec = rec /\ Holding(a) = {} /\ FreeSlots = {} /\ o.slot = NoSlot
          \/ Added(o, a, kind)
        BY <1>2, AddOutcomes
    <2> QED BY <1>2, <2>1 DEF Added
  <1>4. ASSUME NEW n \in FreeSlots, hw' = [hw EXCEPT ![n] = Code(a)],
               rec' = [rec EXCEPT ![n] = [kind |-> kind, addr |-> a, size |-> 0]]
        PROVE  /\ n \in Slots /\ rec[n].kind = "free"
               /\ rec'[n] = [kind |-> kind, addr |-> a, size |-> 0] /\ hw'[n] = Code(a)
               /\ \A i \in Slots \ {n} : rec'[i] = rec[i] /\ hw'[i] = hw[i]
    <2>1. hw \in [Slots -> Triggers] /\ rec \in [Slots -> Records]
        BY DEF Typed, TypeOK
    <2> QED BY <1>4, <2>1 DEF FreeSlots
  <1> QED BY <1>3, <1>4

(* The step's triggers. *)
LEMMA StepAddKept ==
  ASSUME Typed, step' = step, faults' = 0, Kept2,
         NEW a \in Nat, \E o \in Add(a, "step") : Happens(o, wanted)
  PROVE  Kept2'
  <1>0. step.lifted.kind \in {"free", "user"} /\ OneEach
      BY DEF Kept2, Lendable
  <1>1. PICK o \in Add(a, "step") : Happens(o, wanted)
      OBVIOUS
  <1>2. CASE Overtaken(o, wanted)
    <2>1. /\ wiped' = wanted' /\ wanted' = wanted
          /\ \/ \A n \in Slots : rec'[n].kind = "free"
             \/ \E n \in Slots : /\ rec'[n].kind = "step"
                                 /\ \A i \in Slots \ {n} : rec'[i].kind = "free"
        BY <1>1, <1>2, DropAdd
    <2>2. OneEach'
        BY <1>0, <2>1 DEF OneEach
    <2> QED BY <1>0, <2>1, <2>2, EmptyKept, OneNewKept
  <1>3. CASE Undisturbed(o, wanted)
    <2>0. wanted' = wanted /\ wiped' = wiped
        BY <1>3, CleanCall, WipedStays
    <2>1. CASE UNCHANGED <<rec, hw>>
        BY <2>0, <2>1, SameKept
    <2>2. ASSUME Holding(a) = {}, NEW n \in Slots, rec[n].kind = "free",
                 rec'[n] = [kind |-> "step", addr |-> a, size |-> 0],
                 \A i \in Slots \ {n} : rec'[i] = rec[i] /\ hw'[i] = hw[i]
          PROVE  Kept2'
      <3>0. rec'[n].kind = "step" /\ rec'[n].addr = a
          BY <2>2
      <3>1. Distinct' /\ Paired' /\ Apart' /\ OneEach'
          BY <2>0, <2>2, <3>0, RecordsAdd DEF Kept2
      <3>2. ASSUME NEW q \in wanted, NEW m \in Slots, PlacedAt(q, m) PROVE PlacedAt(q, m)'
        <4>1. q \in Requests
            BY WipedStays
        <4>2. rec[m].kind # "free"
            BY <3>2, <4>1, PlacedKind
        <4> QED BY <2>2, <3>2, <4>1, <4>2, PlacedStays
      <3>3. \A q \in wanted \ wiped : Lent(q)' \/ \E m \in Slots : PlacedAt(q, m)'
        <4>1. \A q : Lent(q)' <=> Lent(q)
            BY DEF Lent
        <4> QED BY <3>2, <4>1 DEF Kept2
      <3>4. ASSUME step.lifted.kind = "user"
            PROVE  /\ \E i \in Slots : rec'[i].kind \in {"free", "step"}
                   /\ \A i \in Holding(step.lifted.addr)' : rec'[i].kind = "step"
        <4>1. \A i \in Holding(step.lifted.addr)' : rec'[i].kind = "step"
          <5> SUFFICES ASSUME NEW i \in Slots, rec'[i].kind # "free",
                              rec'[i].addr = step.lifted.addr
                       PROVE  rec'[i].kind = "step"
              BY DEF Holding
          <5>1. CASE i = n
              BY <3>0, <5>1
          <5>2. CASE i # n
            <6>1. rec'[i] = rec[i] /\ i \in Holding(step.lifted.addr)
                BY <2>2, <5>2 DEF Holding
            <6> QED BY <3>4, <6>1 DEF Kept2, Lendable
          <5> QED BY <5>1, <5>2
        <4> QED BY <3>0, <4>1
      <3>5. Lendable'
          BY <1>0, <3>4 DEF Lendable, Holding
      <3> QED BY <2>0, <3>1, <3>3, <3>5 DEF Kept2
    <2>3. \/ UNCHANGED <<rec, hw>>
          \/ /\ Holding(a) = {}
             /\ \E n \in Slots :
                  /\ rec[n].kind = "free"
                  /\ rec'[n] = [kind |-> "step", addr |-> a, size |-> 0]
                  /\ \A i \in Slots \ {n} : rec'[i] = rec[i] /\ hw'[i] = hw[i]
        BY <1>1, <1>3, CleanAdd
    <2> QED BY <2>1, <2>2, <2>3
  <1> QED BY <1>1, <1>2, <1>3 DEF Happens

(* What an address serves is one request. *)
LEMMA SetFacts ==
  ASSUME Typed, Tidy, NEW r \in Requests, Set(r), ~ mixed'
  PROVE  /\ step' = step /\ step.lifted.kind = "free" /\ r \notin wanted /\ r \notin wiped
         /\ r.size \in Nat /\ r.addr \in Nat
         /\ Holding(r.addr) = {} /\ Holding(r.addr + r.size) = {}
         /\ \A q \in wanted : q.addr # r.addr /\ q.addr # r.addr + r.size
  <1>1. step' = step /\ at = "idle" /\ r \notin wanted /\ mixed' = (mixed \/ Shared(r))
      BY DEF Set
  <1>2. ~ Shared(r)
      BY <1>1, ZenonT(30)
  <1> QED BY <1>1, <1>2, RequestFacts, WipedStays DEF Shared, Tidy, NoStep, Free

(* tricore_breakwatch_set: a breakpoint. *)
LEMMA SetBreakKept ==
  ASSUME Typed, Tidy, Kept2, NEW r \in Requests, Set(r), faults' = 0, ~ mixed', r.what = "break"
  PROVE  Kept2'
  <1>0. /\ step' = step /\ step.lifted.kind = "free" /\ r \notin wanted /\ r \notin wiped
        /\ r.addr \in Nat /\ Holding(r.addr) = {} /\ \A q \in wanted : q.addr # r.addr
      BY SetFacts
  <1>1. PICK o \in Add(r.addr, "user") :
          Happens(o, IF o.slot = NoSlot THEN wanted ELSE wanted \cup {r})
      BY DEF Set
  <1> DEFINE asked == IF o.slot = NoSlot THEN wanted ELSE wanted \cup {r}
  <1>2. asked \subseteq wanted \cup {r} /\ wanted \subseteq asked
      OBVIOUS
  <1>3. OneEach /\ wanted \subseteq Requests /\ wiped \subseteq wanted
      BY WipedStays DEF Kept2
  <1> HIDE DEF asked
  <1>4. CASE Overtaken(o, asked)
    <2>1. /\ wiped' = wanted' /\ wanted' = asked
          /\ \/ \A n \in Slots : rec'[n].kind = "free"
             \/ \E n \in Slots : /\ rec'[n].kind = "user"
                                 /\ \A i \in Slots \ {n} : rec'[i].kind = "free"
        BY <1>0, <1>1, <1>4, DropAdd
    <2>2. OneEach'
        BY <1>0, <1>2, <1>3, <2>1 DEF OneEach
    <2> QED BY <1>0, <2>1, <2>2, EmptyKept, OneNewKept
  <1>5. CASE Undisturbed(o, asked)
    <2>1. wanted' = asked /\ wiped' = wiped \cap asked
        BY <1>5, CleanCall
    <2>2. wiped' = wiped
        BY <1>2, <1>3, <2>1
    <2>3. \/ UNCHANGED <<rec, hw>> /\ o.slot = NoSlot
          \/ \E n \in Slots :
               /\ rec[n].kind = "free"
               /\ rec'[n] = [kind |-> "user", addr |-> r.addr, size |-> 0] /\ hw'[n] = Code(r.addr)
               /\ \A i \in Slots \ {n} : rec'[i] = rec[i] /\ hw'[i] = hw[i]
        BY <1>0, <1>1, <1>5, CleanAdd
    <2>4. CASE UNCHANGED <<rec, hw>> /\ o.slot = NoSlot
      <3>1. wanted' = wanted
          BY <2>1, <2>4 DEF asked
      <3> QED BY <1>0, <2>2, <2>4, <3>1, SameKept
    <2>5. ASSUME NEW n \in Slots, rec[n].kind = "free",
                 rec'[n] = [kind |-> "user", addr |-> r.addr, size |-> 0], hw'[n] = Code(r.addr),
                 \A i \in Slots \ {n} : rec'[i] = rec[i] /\ hw'[i] = hw[i]
          PROVE  Kept2'
      <3>1. rec'[n].kind = "user" /\ rec'[n].addr = r.addr
          BY <2>5
      <3>2. wanted' \subseteq wanted \cup {r}
          BY <1>2, <2>1
      <3>3. Distinct' /\ Paired' /\ Apart' /\ OneEach'
          BY <1>0, <2>5, <3>1, <3>2, RecordsAdd DEF Kept2
      <3>4. PlacedAt(r, n)'
          BY <2>5 DEF PlacedAt, Code
      <3>5. ASSUME NEW q \in wanted' \ wiped', q # r PROVE \E m \in Slots : PlacedAt(q, m)'
        <4>1. q \in wanted \ wiped /\ q \in Requests
            BY <1>3, <2>2, <3>2, <3>5
        <4>2. PICK m \in Slots : PlacedAt(q, m)
            BY <1>0, <4>1 DEF Kept2, Lent
        <4>3. rec[m].kind # "free"
            BY <4>1, <4>2, PlacedKind
        <4> QED BY <2>5, <4>1, <4>2, <4>3, PlacedStays
      <3> QED BY <1>0, <3>3, <3>4, <3>5 DEF Kept2, Lendable
    <2> QED BY <2>3, <2>4, <2>5
  <1> QED BY <1>1, <1>4, <1>5 DEF Happens, asked

(* The records of a new watchpoint, in place of free ones, with the others *)
(* as they were or gone.                                                   *)
LEMMA WatchRecords ==
  ASSUME Distinct, Paired, Apart, OneEach, NEW r \in Requests, NEW n \in Slots,
         Holding(r.addr) = {}, Holding(r.addr + r.size) = {}, r.size # 0,
         \A q \in wanted : q.addr # r.addr /\ q.addr # r.addr + r.size,
         wanted' \subseteq wanted \cup {r},
         rec[n].kind = "free", rec'[n] = [kind |-> "watch", addr |-> r.addr, size |-> r.size],
         r.size > 1 => /\ n + 1 \in Slots /\ rec[n + 1].kind = "free"
                       /\ rec'[n + 1] = [kind |-> "hi", addr |-> r.addr + r.size, size |-> 0],
         \/ \A i \in Slots : i # n /\ ~ (i = n + 1 /\ r.size > 1) => rec'[i] = rec[i]
         \/ \A i \in Slots : i # n /\ ~ (i = n + 1 /\ r.size > 1) => rec'[i].kind = "free"
  PROVE  Distinct' /\ Paired' /\ Apart' /\ OneEach'
  <1> DEFINE a == r.addr
             size == r.size
             T == {i \in Slots : i = n \/ (i = n + 1 /\ size > 1)}
  <1>0. a \in Nat /\ size \in Nat /\ size # 0 /\ a # a + size /\ n \in Nat /\ n # n + 1
    <2>1. a \in Nat /\ size \in Nat /\ size # 0
        BY RequestFacts
    <2>2. n \in Nat
        BY SlotFacts
    <2> QED BY <2>1, <2>2
  <1>1. \A i \in Slots : rec[i].kind # "free" => rec[i].addr # a /\ rec[i].addr # a + size
      BY DEF Holding
  <1>2. /\ rec'[n].kind = "watch" /\ rec'[n].addr = a
        /\ size > 1 => /\ n + 1 \in Slots /\ rec'[n + 1].kind = "hi"
                       /\ rec'[n + 1].addr = a + size
      OBVIOUS
  <1>3. \A i \in Slots \ T : rec'[i].kind = "free" \/ rec'[i] = rec[i]
      OBVIOUS
  <1>4. \A i \in T : rec[i].kind = "free" /\ (i = n \/ (i = n + 1 /\ size > 1))
      OBVIOUS
  <1>5. Distinct'
    <2> HIDE DEF a, size, T
    <2> SUFFICES ASSUME NEW i \in Slots, NEW j \in Slots, rec'[i].kind # "free",
                        rec'[j].kind # "free", rec'[i].addr = rec'[j].addr
                 PROVE  i = j
        BY DEF Distinct
    <2>1. CASE i \in T /\ j \in T
        BY <1>0, <1>2, <1>4, <2>1
    <2>2. CASE i \in T /\ j \notin T
        BY <1>1, <1>2, <1>3, <1>4, <2>2
    <2>3. CASE i \notin T /\ j \in T
        BY <1>1, <1>2, <1>3, <1>4, <2>3
    <2>4. CASE i \notin T /\ j \notin T
      <3>1. rec'[i] = rec[i] /\ rec'[j] = rec[j]
          BY <1>3, <2>4
      <3> QED BY <3>1 DEF Distinct
    <2> QED BY <2>1, <2>2, <2>3, <2>4
  <1>6. Paired'
    <2> SUFFICES ASSUME NEW i \in Slots, rec'[i].kind = "watch", rec'[i].size > 1
                 PROVE  i + 1 \in Slots /\ rec'[i + 1].kind = "hi"
        BY DEF Paired
    <2>1. CASE i \in T
      <3>1. i = n
          BY <1>2, <2>1
      <3>2. rec'[n].size = size
          OBVIOUS
      <3> QED BY <1>2, <3>1, <3>2
    <2>2. CASE i \notin T
      <3>1. rec'[i] = rec[i] /\ rec[i].kind # "free"
          BY <1>3, <2>2
      <3>2. i + 1 \in Slots /\ rec[i + 1].kind = "hi"
          BY <3>1 DEF Paired
      <3>3. i + 1 \notin T
          BY <1>4, <3>2
      <3>4. \A j \in Slots : j # n /\ ~ (j = n + 1 /\ r.size > 1) => rec'[j] = rec[j]
          BY <2>2
      <3> QED BY <3>2, <3>3, <3>4
    <2> QED BY <2>1, <2>2
  <1>7. Apart'
    <2> SUFFICES ASSUME NEW i \in Slots, rec'[i].kind = "hi", NEW q \in wanted'
                 PROVE  q.addr # rec'[i].addr
        BY DEF Apart
    <2>1. CASE i \in T
      <3>1. rec'[i].addr = a + size
          BY <1>2, <1>4, <2>1
      <3>2. q = r \/ q \in wanted
          OBVIOUS
      <3> QED BY <1>0, <3>1, <3>2
    <2>2. CASE i \notin T
      <3>1. rec'[i] = rec[i] /\ rec[i].kind = "hi"
          BY <1>3, <2>2
      <3>2. CASE q \in wanted
          BY <3>1, <3>2 DEF Apart
      <3>3. CASE q = r
          BY <1>1, <3>1, <3>3
      <3> QED BY <3>2, <3>3
    <2> QED BY <2>1, <2>2
  <1>8. OneEach'
      BY DEF OneEach
  <1> QED BY <1>5, <1>6, <1>7, <1>8

(* tricore_breakwatch_set: a watchpoint. *)
LEMMA SetWatchKept ==
  ASSUME Typed, Tidy, Kept2, NEW r \in Requests, Set(r), faults' = 0, ~ mixed', r.what = "watch"
  PROVE  Kept2'
  <1>0. /\ step' = step /\ step.lifted.kind = "free" /\ r \notin wanted /\ r \notin wiped
        /\ r.addr \in Nat /\ r.size \in Nat
        /\ Holding(r.addr) = {} /\ Holding(r.addr + r.size) = {}
        /\ \A q \in wanted : q.addr # r.addr /\ q.addr # r.addr + r.size
      BY SetFacts
  <1>1. PICK o \in AddWatch(r.addr, r.size) :
          Happens(o, IF o.slot = NoSlot THEN wanted ELSE wanted \cup {r})
      BY DEF Set
  <1> DEFINE asked == IF o.slot = NoSlot THEN wanted ELSE wanted \cup {r}
             a == r.addr
             size == r.size
  <1>2. asked \subseteq wanted \cup {r} /\ wanted \subseteq asked
      OBVIOUS
  <1>3. /\ OneEach /\ wanted \subseteq Requests /\ wiped \subseteq wanted
        /\ r.size \in Sizes /\ r.size # 0 /\ rec \in [Slots -> Records] /\ faults \in Nat
      BY WipedStays, RequestFacts DEF Kept2, Typed, TypeOK
  <1> HIDE DEF asked
  <1>4. /\ wanted' = asked /\ o.bad = {}
        /\ Undisturbed(o, asked) => wiped' = wiped /\ hw' = o.hw /\ rec' = o.rec
        /\ Overtaken(o, asked) =>
             /\ wiped' = asked
             /\ rec' = [i \in Slots |-> IF i \in Changed(o) THEN o.rec[i] ELSE Free]
    <2>1. CASE Undisturbed(o, asked)
      <3>1. /\ o.bad = {} /\ hw' = o.hw /\ rec' = o.rec
            /\ wanted' = asked /\ wiped' = wiped \cap asked
          BY <2>1, CleanCall
      <3>2. wiped' = wiped
          BY <1>2, <1>3, <3>1
      <3>3. Overtaken(o, asked) =>
             /\ wiped' = asked
             /\ rec' = [i \in Slots |-> IF i \in Changed(o) THEN o.rec[i] ELSE Free]
          BY DEF Overtaken, Dropped
      <3> QED BY <3>1, <3>2, <3>3
    <2>2. CASE Overtaken(o, asked)
      <3>1. /\ rec' = [n \in Slots |-> IF n \in Changed(o) THEN o.rec[n] ELSE Free]
            /\ wanted' = asked /\ wiped' = asked
            /\ faults' = faults + Failures(o) \/ faults' = faults + Failures(o) + 1
          BY <2>2 DEF Overtaken, Dropped
      <3>2. o.bad = {}
          BY <1>3, <3>1, FailureCount
      <3>3. Undisturbed(o, asked) => wiped' = wiped /\ hw' = o.hw /\ rec' = o.rec
        <4>1. wiped \cap asked = wiped
            BY <1>2, <1>3
        <4> QED BY <4>1 DEF Undisturbed
      <3> QED BY <3>1, <3>2, <3>3
    <2> QED BY <1>1, <2>1, <2>2 DEF Happens, asked
  <1>5. \/ o.hw = hw /\ o.rec = rec /\ o.slot = NoSlot
        \/ \E n \in FreeSlots :
             /\ size > 1 => n + 1 \in FreeSlots
             /\ o.hw = Armed(n, a, size)
             /\ o.rec = [m \in Slots |->
                  IF m = n THEN [kind |-> "watch", addr |-> a, size |-> size]
                  ELSE IF m = n + 1 /\ size > 1
                       THEN [kind |-> "hi", addr |-> a + size, size |-> 0]
                  ELSE rec[m]]
      BY <1>0, <1>1, <1>3, <1>4, AddWatchOutcomes
  <1>6. CASE o.hw = hw /\ o.rec = rec /\ o.slot = NoSlot
    <2>1. wanted' = wanted
        BY <1>4, <1>6 DEF asked
    <2>2. CASE Undisturbed(o, asked)
        BY <1>0, <1>4, <1>6, <2>1, <2>2, SameKept
    <2>3. CASE Overtaken(o, asked)
      <3>1. Changed(o) = {}
          BY <1>6 DEF Changed
      <3>2. \A n \in Slots : rec'[n].kind = "free"
          BY <1>4, <2>3, <3>1 DEF Free
      <3>3. OneEach' /\ wiped' = wanted'
          BY <1>3, <1>4, <2>1, <2>3 DEF OneEach
      <3> QED BY <1>0, <3>2, <3>3, EmptyKept
    <2> QED BY <1>1, <2>2, <2>3 DEF Happens, asked
  <1>7. ASSUME NEW n \in FreeSlots,
               size > 1 => n + 1 \in FreeSlots,
               o.hw = Armed(n, a, size),
               o.rec = [m \in Slots |->
                  IF m = n THEN [kind |-> "watch", addr |-> a, size |-> size]
                  ELSE IF m = n + 1 /\ size > 1
                       THEN [kind |-> "hi", addr |-> a + size, size |-> 0]
                  ELSE rec[m]]
        PROVE  Kept2'
    <2> DEFINE T == {i \in Slots : i = n \/ (i = n + 1 /\ size > 1)}
    <2>1. /\ n \in Slots /\ rec[n].kind = "free" /\ n # n + 1
          /\ size > 1 => n + 1 \in Slots /\ rec[n + 1].kind = "free"
      <3>1. \A i \in FreeSlots : i \in Slots /\ rec[i].kind = "free"
          BY DEF FreeSlots
      <3>2. \A i \in Slots : i # i + 1
          BY SlotFacts
      <3> HIDE DEF a, size
      <3> QED BY <1>7, <3>1, <3>2
    <2>2. /\ o.rec[n] = [kind |-> "watch", addr |-> a, size |-> size]
          /\ size > 1 => o.rec[n + 1] = [kind |-> "hi", addr |-> a + size, size |-> 0]
          /\ \A i \in Slots \ T : o.rec[i] = rec[i]
        BY <1>7, <2>1
    <2>3. Changed(o) = T
      <3>1. o.rec[n] # rec[n] /\ (size > 1 => o.rec[n + 1] # rec[n + 1])
        <4>1. o.rec[n].kind = "watch" /\ (size > 1 => o.rec[n + 1].kind = "hi")
            BY <2>2
        <4> QED BY <2>1, <4>1
      <3>2. \A i \in Slots : i \in T <=> (i = n \/ (i = n + 1 /\ size > 1))
          OBVIOUS
      <3> HIDE DEF T, a, size
      <3> QED BY <2>1, <2>2, <3>1, <3>2 DEF Changed, T
    <2>4. /\ rec'[n] = [kind |-> "watch", addr |-> a, size |-> size]
          /\ size > 1 => rec'[n + 1] = [kind |-> "hi", addr |-> a + size, size |-> 0]
          /\ \/ Undisturbed(o, asked) /\ \A i \in Slots \ T : rec'[i] = rec[i]
             \/ Overtaken(o, asked) /\ \A i \in Slots \ T : rec'[i].kind = "free"
      <3>0. n \in T /\ (size > 1 => n + 1 \in T) /\ T \subseteq Slots
          BY <2>1
      <3> HIDE DEF T, a, size
      <3>1. CASE Undisturbed(o, asked)
          BY <1>4, <2>2, <3>1
      <3>2. CASE Overtaken(o, asked)
        <4>1. \A i \in Slots : rec'[i] = IF i \in T THEN o.rec[i] ELSE Free
            BY <1>4, <2>3, <3>2
        <4> QED BY <2>1, <2>2, <3>0, <3>2, <4>1 DEF Free
      <3> QED BY <1>1, <3>1, <3>2 DEF Happens, asked
    <2>5. wanted' \subseteq wanted \cup {r}
        BY <1>2, <1>4
    <2>6. \/ \A i \in Slots : i # n /\ ~ (i = n + 1 /\ r.size > 1) => rec'[i] = rec[i]
          \/ \A i \in Slots : i # n /\ ~ (i = n + 1 /\ r.size > 1) => rec'[i].kind = "free"
        BY <2>4
    <2>7. Distinct' /\ Paired' /\ Apart' /\ OneEach'
      <3>1. Distinct /\ Paired /\ Apart /\ OneEach
          BY DEF Kept2
      <3>2. rec'[n] = [kind |-> "watch", addr |-> r.addr, size |-> r.size]
          BY <2>4
      <3>3. r.size > 1 => /\ n + 1 \in Slots /\ rec[n + 1].kind = "free"
                          /\ rec'[n + 1] = [kind |-> "hi", addr |-> r.addr + r.size, size |-> 0]
          BY <2>1, <2>4
      <3> HIDE DEF T, a, size
      <3> QED BY <1>0, <1>3, <2>1, <2>5, <2>6, <3>1, <3>2, <3>3, WatchRecords
    <2>8. CASE Overtaken(o, asked)
      <3>1. wiped' = wanted'
          BY <1>4, <2>8
      <3> QED BY <1>0, <2>7, <3>1 DEF Kept2, Lendable
    <2>9. CASE Undisturbed(o, asked)
      <3>1. wiped' = wiped /\ hw' = Armed(n, a, size) /\ rec' = o.rec
          BY <1>4, <1>7, <2>9
      <3>2. /\ hw'[n].adr = a /\ hw'[n].evt = IF size = 1 THEN "data" ELSE "range"
            /\ size > 1 => hw'[n + 1].adr = a + size
            /\ \A i \in Slots : i # n /\ ~ (i = n + 1 /\ size > 1)
                                => rec'[i] = rec[i] /\ hw'[i] = hw[i]
          BY <2>1, <2>2, <3>1 DEF Armed
      <3>3. PlacedAt(r, n)'
          BY <2>1, <2>4, <3>2 DEF PlacedAt
      <3>4. ASSUME NEW q \in wanted' \ wiped', q # r PROVE \E m \in Slots : PlacedAt(q, m)'
        <4>1. q \in wanted \ wiped /\ q \in Requests
            BY <1>3, <2>5, <3>1, <3>4
        <4>2. PICK m \in Slots : PlacedAt(q, m)
            BY <1>0, <4>1 DEF Kept2, Lent
        <4>3. rec[m].kind # "free"
            BY <4>1, <4>2, PlacedKind
        <4>4. \A i \in Slots : rec[i].kind # "free" => rec'[i] = rec[i] /\ hw'[i] = hw[i]
          <5> HIDE DEF a, size, T
          <5> QED BY <2>1, <3>2
        <4> QED BY <4>1, <4>2, <4>3, <4>4, PlacedStays
      <3> QED BY <1>0, <2>7, <2>1, <3>3, <3>4 DEF Kept2, Lendable
    <2> QED BY <2>4, <2>8, <2>9
  <1> QED BY <1>5, <1>6, <1>7

(* Only the record of one address, with its pair. *)
LEMMA CleanRemove ==
  ASSUME Typed, faults' = 0, Distinct, NEW n \in Slots, rec[n].kind # "free",
         NEW o \in Remove(rec[n].addr), NEW asked, Undisturbed(o, asked)
  PROVE  LET S == {n} \cup (IF rec[n].kind = "watch" /\ rec[n].size > 1
                            THEN {n + 1} \cap Slots ELSE {})
         IN  \A i \in Slots : /\ i \in S => rec'[i] = Free
                              /\ i \notin S => rec'[i] = rec[i] /\ hw'[i] = hw[i]
  <1> DEFINE a == rec[n].addr
  <1>1. n \in Holding(a) /\ Holding(a) \subseteq Slots
      BY DEF Holding
  <1>2. SlotOf(a) \in Holding(a)
      BY <1>1, SlotOfIn
  <1>3. SlotOf(a) = n
      BY <1>1, <1>2 DEF Distinct, Holding
  <1> DEFINE S == {n} \cup (IF rec[n].kind = "watch" /\ rec[n].size > 1
                            THEN {n + 1} \cap Slots ELSE {})
  <1>4. o \in Remove(a)
      OBVIOUS
  <1>5. o.rec = [m \in Slots |-> IF m \in S THEN Free ELSE rec[m]]
        /\ (o.bad = {} => o.hw = [m \in Slots |-> IF m \in S THEN Off ELSE hw[m]])
    <2> HIDE DEF a
    <2> QED BY <1>1, <1>3, <1>4, RemoveOutcomes
  <1>6. o.bad = {} /\ hw' = o.hw /\ rec' = o.rec
      BY CleanCall
  <1> HIDE DEF S, a
  <1>7. \A i \in Slots : /\ i \in S => rec'[i] = Free
                         /\ i \notin S => rec'[i] = rec[i] /\ hw'[i] = hw[i]
      BY <1>5, <1>6
  <1> QED BY <1>7 DEF S

(* tricore_breakwatch_clear: the request's own record, or what a reset     *)
(* left of it.                                                             *)
LEMMA ClearKept ==
  ASSUME Typed, Tidy, Kept2, NEW r \in Requests, Clear(r), faults' = 0
  PROVE  Kept2'
  <1>0. /\ step' = step /\ step.lifted.kind = "free" /\ r \in wanted
        /\ \E o \in Remove(r.addr) : Happens(o, wanted \ {r})
      BY DEF Clear, Tidy, NoStep, Free
  <1>1. PICK o \in Remove(r.addr) : Happens(o, wanted \ {r})
      BY <1>0
  <1>2. /\ Distinct /\ Paired /\ Apart /\ OneEach
        /\ wanted \subseteq Requests /\ wiped \subseteq wanted
        /\ \A q \in wanted \ wiped : \E m \in Slots : PlacedAt(q, m)
      BY <1>0, WipedStays DEF Kept2, Lent
  <1>3. CASE Overtaken(o, wanted \ {r})
    <2>1. /\ wiped' = wanted' /\ wanted' = wanted \ {r}
          /\ \A n \in Slots : rec'[n].kind = "free"
        BY <1>1, <1>3, RemoveLess, DropLess
    <2>2. OneEach'
        BY <1>2, <2>1 DEF OneEach
    <2> QED BY <1>0, <2>1, <2>2, EmptyKept
  <1>4. CASE Undisturbed(o, wanted \ {r})
    <2>0. wanted' = wanted \ {r} /\ wiped' = wiped \ {r} /\ wanted' \subseteq wanted
      <3>1. wanted' = wanted \ {r} /\ wiped' = wiped \cap (wanted \ {r})
          BY <1>4, CleanCall
      <3> QED BY <1>2, <3>1
    <2>1. PICK S \in SUBSET Slots :
            /\ \A i \in S : rec'[i].kind = "free"
            /\ \A i \in Slots \ S : rec'[i] = rec[i] /\ hw'[i] = hw[i]
            /\ \A i \in S : rec[i].addr = r.addr \/ rec[i].kind = "hi"
            /\ \A i \in Slots : i + 1 \in S => i \in S \/ rec[i + 1].kind # "hi"
      <3>1. CASE Holding(r.addr) = {}
        <4>1. o.hw = hw /\ o.rec = rec
            BY <1>1, <3>1, RemoveOutcomes
        <4>2. rec' = rec /\ hw' = hw
            BY <1>4, <4>1, CleanCall
        <4>3. {} \in SUBSET Slots
            OBVIOUS
        <4> QED BY <4>2, <4>3
      <3>2. CASE Holding(r.addr) # {}
        <4>1. PICK n \in Slots : rec[n].kind # "free" /\ rec[n].addr = r.addr
            BY <3>2 DEF Holding
        <4>2. rec[n].kind # "hi"
            BY <1>0, <1>2, <4>1 DEF Apart
        <4> DEFINE S == {n} \cup (IF rec[n].kind = "watch" /\ rec[n].size > 1
                                  THEN {n + 1} \cap Slots ELSE {})
        <4>3. \A i \in Slots : /\ i \in S => rec'[i] = Free
                               /\ i \notin S => rec'[i] = rec[i] /\ hw'[i] = hw[i]
            BY <1>1, <1>2, <1>4, <4>1, CleanRemove
        <4>4. S \in SUBSET Slots /\ n \in S /\ \A i \in S : i = n \/ (i = n + 1 /\ rec[i].kind = "hi")
            BY <1>2 DEF Paired
        <4>5. \A i \in Slots : i + 1 \in S => i \in S \/ rec[i + 1].kind # "hi"
          <5> SUFFICES ASSUME NEW i \in Slots, i + 1 \in S, rec[i + 1].kind = "hi" PROVE i \in S
              OBVIOUS
          <5> HIDE DEF S
          <5>1. i + 1 # n
              BY <4>2
          <5>2. i + 1 = n + 1
              BY <4>4, <5>1
          <5>3. i \in Nat /\ n \in Nat
              BY SlotFacts
          <5>4. i = n
              BY <5>2, <5>3
          <5> QED BY <4>4, <5>4
        <4> HIDE DEF S
        <4>6. \A i \in S : rec'[i].kind = "free"
            BY <4>3, <4>4 DEF Free
        <4>7. \A i \in S : rec[i].addr = r.addr \/ rec[i].kind = "hi"
            BY <4>1, <4>4
        <4> QED BY <4>3, <4>4, <4>5, <4>6, <4>7
      <3> QED BY <3>1, <3>2
    <2>2. Distinct' /\ Paired' /\ Apart' /\ OneEach'
        BY <1>2, <2>0, <2>1, RecordsLess
    <2>3. ASSUME NEW q \in wanted' \ wiped' PROVE \E m \in Slots : PlacedAt(q, m)'
      <3>1. q \in wanted \ wiped /\ q \in Requests /\ q # r
          BY <1>2, <2>0, <2>3
      <3>2. q.addr # r.addr
          BY <1>0, <1>2, <3>1 DEF OneEach
      <3>3. PICK m \in Slots : PlacedAt(q, m)
          BY <1>2, <3>1
      <3>4. rec[m].kind \in {"user", "watch"} /\ rec[m].addr = q.addr
          BY <3>1, <3>3, PlacedKind
      <3>5. m \notin S
          BY <2>1, <3>2, <3>4
      <3>6. m + 1 \in Slots /\ rec[m + 1].kind = "hi" => m + 1 \notin S
          BY <2>1, <3>5
      <3> QED BY <2>1, <3>1, <3>3, <3>5, <3>6, PlacedStays
    <2> QED BY <1>0, <2>2, <2>3 DEF Kept2, Lendable
  <1> QED BY <1>1, <1>3, <1>4 DEF Happens

(* The step takes the breakpoint off its PC. *)
LEMMA LiftKept ==
  ASSUME Typed, Tidy, Kept2, Lift, faults' = 0, ~ mixed'
  PROVE  Kept2'
  <1> DEFINE n == SlotOf(step.pc)
  <1>0. /\ step.lifted.kind = "free" /\ wanted \subseteq Requests
        /\ Distinct /\ Paired /\ Apart /\ OneEach
      BY WipedStays DEF Lift, Tidy, Free, Kept2
  <1>1. CASE ~ (n # NoSlot /\ rec[n].kind # "step")
    <2>1. UNCHANGED <<calls, step>>
        BY <1>1 DEF Lift
    <2> QED BY <1>0, <2>1, SameKept DEF calls
  <1>2. CASE n # NoSlot /\ rec[n].kind # "step"
    <2>1. /\ step' = [step EXCEPT !.lifted = rec[n]]
          /\ mixed' = (mixed \/ rec[n].kind # "user")
          /\ \E o \in Remove(step.pc) : Happens(o, wanted)
        BY <1>2 DEF Lift
    <2>2. rec[n].kind = "user"
        BY <2>1, ZenonT(30)
    <2>3. n \in Slots /\ rec[n].addr = step.pc
        BY <1>2, SlotOfIn DEF Holding
    <2>4. step'.lifted = rec[n]
        BY <2>1 DEF Typed, TypeOK
    <2> HIDE DEF n
    <2>5. PICK o \in Remove(step.pc) : Happens(o, wanted)
        BY <2>1
    <2>6. CASE Overtaken(o, wanted)
      <3>1. wiped' = wanted' /\ wanted' = wanted /\ \A i \in Slots : rec'[i].kind = "free"
          BY <2>5, <2>6, RemoveLess, DropLess
      <3>2. OneEach'
          BY <1>0, <3>1 DEF OneEach
      <3> QED BY <2>2, <2>4, <3>1, <3>2, EmptyKept
    <2>7. CASE Undisturbed(o, wanted)
      <3>0. wanted' = wanted /\ wiped' = wiped
          BY <2>7, CleanCall, WipedStays
      <3>1. rec'[n] = Free /\ \A i \in Slots \ {n} : rec'[i] = rec[i] /\ hw'[i] = hw[i]
        <4> DEFINE S == {n} \cup (IF rec[n].kind = "watch" /\ rec[n].size > 1
                                  THEN {n + 1} \cap Slots ELSE {})
        <4>1. \A i \in Slots : /\ i \in S => rec'[i] = Free
                               /\ i \notin S => rec'[i] = rec[i] /\ hw'[i] = hw[i]
            BY <1>0, <2>2, <2>3, <2>5, <2>7, CleanRemove
        <4>2. S = {n}
            BY <2>2
        <4> QED BY <2>3, <4>1, <4>2
      <3>2. rec'[n].kind = "free"
          BY <3>1 DEF Free
      <3>3. Distinct' /\ Paired' /\ Apart' /\ OneEach'
        <4>1. \A i \in Slots : i + 1 \in {n} => i \in {n} \/ rec[i + 1].kind # "hi"
            BY <2>2
        <4>2. {n} \in SUBSET Slots /\ \A i \in {n} : rec'[i].kind = "free"
            BY <2>3, <3>2
        <4> QED BY <1>0, <3>0, <3>1, <4>1, <4>2, RecordsLess
      <3>4. ASSUME NEW q \in wanted \ wiped PROVE Lent(q)' \/ \E m \in Slots : PlacedAt(q, m)'
        <4>1. PICK m \in Slots : PlacedAt(q, m)
            BY <1>0 DEF Kept2, Lent
        <4>2. q \in Requests
            BY <1>0
        <4>3. CASE m = n
          <5>1. q.addr = rec[n].addr
              BY <4>1, <4>3 DEF PlacedAt
          <5>2. q.what = "break"
            <6>1. q.what = "watch" => rec[n].kind = "watch"
                BY <4>1, <4>3 DEF PlacedAt
            <6> QED BY <2>2, <4>2, <6>1, RequestFacts
          <5> QED BY <2>2, <2>4, <5>1, <5>2 DEF Lent
        <4>4. CASE m # n
          <5>1. \A i \in Slots : rec[i].kind = "hi" => i # n
              BY <2>2
          <5> QED BY <3>1, <4>1, <4>2, <4>4, <5>1, PlacedStays
        <4> QED BY <4>3, <4>4
      <3>5. Holding(step.lifted.addr)' = {}
        <4> SUFFICES ASSUME NEW i \in Slots, rec'[i].kind # "free", rec'[i].addr = rec[n].addr
                     PROVE  FALSE
            BY <2>4 DEF Holding
        <4>1. i # n
            BY <3>2
        <4>2. rec'[i] = rec[i]
            BY <3>1, <4>1
        <4>3. rec[n].kind # "free"
            BY <2>2
        <4> QED BY <1>0, <2>3, <4>1, <4>2, <4>3 DEF Distinct
      <3>6. Lendable'
          BY <2>2, <2>3, <2>4, <3>2, <3>5 DEF Lendable
      <3> QED BY <3>0, <3>3, <3>4, <3>6 DEF Kept2
    <2> QED BY <2>5, <2>6, <2>7 DEF Happens
  <1> QED BY <1>1, <1>2

(* The step's triggers go. *)
LEMMA EndClearKept ==
  ASSUME Typed, Kept2, step' = step, faults' = 0,
         \E o \in ClearKind({"step"}) : Happens(o, wanted)
  PROVE  Kept2'
  <1>0. Distinct /\ Paired /\ Apart /\ OneEach /\ step.lifted.kind \in {"free", "user"}
      BY DEF Kept2, Lendable
  <1>1. PICK o \in ClearKind({"step"}) : Happens(o, wanted)
      OBVIOUS
  <1>2. CASE Overtaken(o, wanted)
    <2>1. wiped' = wanted' /\ wanted' = wanted /\ \A i \in Slots : rec'[i].kind = "free"
        BY <1>1, <1>2, KindLess, DropLess
    <2>2. OneEach'
        BY <1>0, <2>1 DEF OneEach
    <2> QED BY <1>0, <2>1, <2>2, EmptyKept
  <1>3. CASE Undisturbed(o, wanted)
    <2>1. /\ wanted' = wanted /\ wiped' = wiped
          /\ \A n \in Slots : /\ rec[n].kind = "step" => rec'[n].kind = "free"
                              /\ rec[n].kind # "step" => rec'[n] = rec[n] /\ hw'[n] = hw[n]
      <3>1. /\ wanted' = wanted /\ wiped' = wiped \cap wanted
            /\ \A n \in Slots :
                 /\ rec[n].kind \in {"step"} => rec'[n] = Free /\ hw'[n] = Off
                 /\ rec[n].kind \notin {"step"} => rec'[n] = rec[n] /\ hw'[n] = hw[n]
          BY <1>1, <1>3, CleanKind
      <3> QED BY <3>1, WipedStays DEF Free
    <2>2. Distinct' /\ Paired' /\ Apart' /\ OneEach'
      <3> DEFINE S == {n \in Slots : rec[n].kind = "step"}
      <3>1. /\ S \in SUBSET Slots /\ \A i \in S : rec'[i].kind = "free"
            /\ \A i \in Slots \ S : rec'[i] = rec[i]
            /\ \A i \in Slots : i + 1 \in S => i \in S \/ rec[i + 1].kind # "hi"
          BY <2>1
      <3> HIDE DEF S
      <3> QED BY <1>0, <2>1, <3>1, RecordsLess
    <2>3. ASSUME NEW q \in wanted \ wiped PROVE Lent(q)' \/ \E m \in Slots : PlacedAt(q, m)'
      <3>1. CASE Lent(q)
          BY <3>1 DEF Lent
      <3>2. ASSUME NEW m \in Slots, PlacedAt(q, m) PROVE PlacedAt(q, m)'
        <4>1. q \in Requests
            BY WipedStays
        <4>2. rec[m].kind \in {"user", "watch"}
            BY <3>2, <4>1, PlacedKind
        <4> QED BY <2>1, <3>2, <4>1, <4>2, PlacedStays
      <3> QED BY <3>1, <3>2 DEF Kept2
    <2>4. ASSUME step.lifted.kind = "user"
          PROVE  /\ \E i \in Slots : rec'[i].kind \in {"free", "step"}
                 /\ Holding(step.lifted.addr)' = {}
      <3>1. PICK i \in Slots : rec[i].kind \in {"free", "step"}
          BY <2>4 DEF Kept2, Lendable
      <3>2. rec'[i].kind = "free"
          BY <2>1, <3>1
      <3>3. \A j \in Slots : rec[j].kind # "free" /\ rec[j].addr = step.lifted.addr
                             => rec[j].kind = "step"
          BY <2>4 DEF Kept2, Lendable, Holding
      <3>4. Holding(step.lifted.addr)' = {}
          BY <2>1, <3>3 DEF Holding
      <3> QED BY <3>2, <3>4
    <2>5. Lendable'
        BY <1>0, <2>4 DEF Lendable
    <2> QED BY <2>1, <2>2, <2>3, <2>5 DEF Kept2
  <1> QED BY <1>1, <1>2, <1>3 DEF Happens

(* The breakpoint is given back. *)
LEMMA RestoreKept ==
  ASSUME Typed, Tidy, Kept2, Restore, faults' = 0
  PROVE  Kept2'
  <1>0. /\ wanted \subseteq Requests /\ step'.lifted.kind = "free" /\ at = "restore"
        /\ step.lifted.kind \in {"free", "user"}
        /\ Distinct /\ Paired /\ Apart /\ OneEach
      BY WipedStays DEF Restore, Return, NoStep, Free, Kept2, Lendable
  <1>1. CASE step.lifted.kind = "free"
    <2>1. UNCHANGED <<rec, hw, wanted, wiped>>
        BY <1>1 DEF Restore, calls
    <2>2. \A q : ~ Lent(q)
        BY <1>1 DEF Lent
    <2> QED BY <1>0, <2>1, <2>2 DEF Kept2, Distinct, Paired, Apart, OneEach, Lendable, PlacedAt
  <1>2. CASE step.lifted.kind = "user"
    <2> DEFINE a == step.lifted.addr
    <2>0. a \in Nat
        BY StepAddresses
    <2>1. PICK o \in Add(a, "user") : Happens(o, wanted)
        BY <1>2 DEF Restore
    <2>2. \A i \in Slots : rec[i].kind # "step"
        BY <1>0 DEF Tidy
    <2>3. Holding(a) = {} /\ FreeSlots # {}
        BY <1>2, <2>2 DEF Kept2, Lendable, FreeSlots, Holding
    <2>4. CASE Overtaken(o, wanted)
      <3>1. /\ wiped' = wanted' /\ wanted' = wanted
            /\ \/ \A n \in Slots : rec'[n].kind = "free"
               \/ \E n \in Slots : /\ rec'[n].kind = "user"
                                   /\ \A i \in Slots \ {n} : rec'[i].kind = "free"
        <4> HIDE DEF a
        <4> QED BY <2>0, <2>1, <2>4, DropAdd
      <3>2. OneEach'
          BY <1>0, <3>1 DEF OneEach
      <3> QED BY <1>0, <3>1, <3>2, EmptyKept, OneNewKept
    <2>5. CASE Undisturbed(o, wanted)
      <3>0. wanted' = wanted /\ wiped' = wiped
          BY <2>5, CleanCall, WipedStays
      <3>1. PICK n \in Slots :
              /\ rec[n].kind = "free"
              /\ rec'[n] = [kind |-> "user", addr |-> a, size |-> 0] /\ hw'[n] = Code(a)
              /\ \A i \in Slots \ {n} : rec'[i] = rec[i] /\ hw'[i] = hw[i]
        <4> HIDE DEF a
        <4> QED BY <2>0, <2>1, <2>3, <2>5, CleanAdd
      <3>2. Distinct' /\ Paired' /\ Apart' /\ OneEach'
        <4>1. rec'[n].kind = "user" /\ rec'[n].addr = a
            BY <3>1
        <4> HIDE DEF a
        <4> QED BY <1>0, <2>3, <3>0, <3>1, <4>1, RecordsAdd
      <3>3. ASSUME NEW q \in wanted \ wiped PROVE \E m \in Slots : PlacedAt(q, m)'
        <4>1. CASE Lent(q)
          <5>1. PlacedAt(q, n)'
              BY <3>1, <4>1 DEF Lent, PlacedAt, Code
          <5> QED BY <5>1
        <4>2. ASSUME NEW m \in Slots, PlacedAt(q, m) PROVE PlacedAt(q, m)'
          <5>1. q \in Requests
              BY <1>0
          <5>2. rec[m].kind # "free"
              BY <4>2, <5>1, PlacedKind
          <5> QED BY <3>1, <4>2, <5>1, <5>2, PlacedStays
        <4> QED BY <4>1, <4>2 DEF Kept2
      <3> QED BY <1>0, <3>0, <3>2, <3>3 DEF Kept2, Lendable
    <2> QED BY <2>1, <2>4, <2>5 DEF Happens
  <1> QED BY <1>0, <1>1, <1>2

LEMMA HeldKept ==
  ASSUME Typed, Tidy, NoGhost, Held, Next
  PROVE  Held'
  <1> SUFFICES ASSUME Clean' PROVE Kept2'
      BY DEF Held
  <1>0. Clean /\ faults' = 0 /\ ~ mixed'
      BY CleanBefore DEF Clean
  <1>00. Kept2 /\ OneEach /\ step.lifted.kind \in {"free", "user"}
      BY <1>0 DEF Held, Kept2, Lendable
  <1>1. ASSUME NEW r \in Requests, Set(r) PROVE Kept2'
      BY <1>0, <1>00, <1>1, SetBreakKept, SetWatchKept, RequestFacts
  <1>2. ASSUME NEW r \in Requests, Clear(r) PROVE Kept2'
      BY <1>0, <1>00, <1>2, ClearKept
  <1>3. ASSUME NEW pc \in Addrs, NEW cont \in BOOLEAN, BeginStep(pc, cont) PROVE Kept2'
    <2>1. step'.lifted = Free /\ step.lifted = Free /\ \A n \in Slots : rec[n].kind # "step"
        BY <1>3 DEF BeginStep, Tidy, NoStep
    <2>2. PICK o \in ClearKind({"step"}) : Happens(o, wanted)
        BY <1>3 DEF BeginStep
    <2>3. CASE Overtaken(o, wanted)
      <3>1. wiped' = wanted' /\ wanted' = wanted /\ \A i \in Slots : rec'[i].kind = "free"
          BY <2>2, <2>3, KindLess, DropLess
      <3>2. OneEach'
          BY <1>00, <3>1 DEF OneEach
      <3> QED BY <2>1, <3>1, <3>2, EmptyKept DEF Free
    <2>4. CASE Undisturbed(o, wanted)
      <3>1. /\ wanted' = wanted /\ wiped' = wiped
            /\ \A n \in Slots : rec'[n] = rec[n] /\ hw'[n] = hw[n]
        <4>1. /\ wanted' = wanted /\ wiped' = wiped \cap wanted
              /\ \A n \in Slots :
                   /\ rec[n].kind \in {"step"} => rec'[n] = Free /\ hw'[n] = Off
                   /\ rec[n].kind \notin {"step"} => rec'[n] = rec[n] /\ hw'[n] = hw[n]
            BY <1>0, <2>2, <2>4, CleanKind
        <4> QED BY <2>1, <4>1, WipedStays
      <3>2. RegTypes' /\ rec \in [Slots -> Records] /\ hw \in [Slots -> Triggers]
          BY RegistersKept DEF Typed, TypeOK
      <3>3. rec' = rec /\ hw' = hw
          BY <3>1, <3>2 DEF RegTypes
      <3> QED BY <1>00, <2>1, <3>1, <3>3, SameKept
    <2> QED BY <2>2, <2>3, <2>4 DEF Happens
  <1>4. CASE Lift
      BY <1>0, <1>00, <1>4, LiftKept
  <1>5. CASE AddFall
    <2>1. step' = step /\ \E o \in Add(Fall, "step") : Happens(o, wanted)
        BY <1>5 DEF AddFall
    <2> QED BY <1>0, <1>00, <2>1, StepAddKept, StepAddresses
  <1>6. CASE AddBranch
    <2>1. step' = step
        BY <1>6 DEF AddBranch
    <2>2. CASE step.branch \notin {NoAddr, Fall}
      <3>1. \E o \in Add(step.branch, "step") : Happens(o, wanted)
          BY <1>6, <2>2 DEF AddBranch
      <3> QED BY <1>0, <1>00, <2>1, <2>2, <3>1, StepAddKept, StepAddresses
    <2>3. CASE ~ (step.branch \notin {NoAddr, Fall})
      <3>1. UNCHANGED calls
          BY <1>6, <2>3 DEF AddBranch
      <3> QED BY <1>00, <2>1, <3>1, SameKept DEF calls
    <2> QED BY <2>2, <2>3
  <1>7. CASE Go \/ Continue \/ Stop
    <2>1. UNCHANGED <<rec, hw, wanted, wiped, step>>
        BY <1>7 DEF Go, Continue, Stop, calls
    <2> QED BY <1>00, <2>1, SameKept
  <1>8. CASE EndClear
    <2>1. at = "clear"
        BY <1>0, <1>8 DEF EndClear, Tidy, Clean
    <2>2. step' = step /\ \E o \in ClearKind({"step"}) : Happens(o, wanted)
        BY <1>8, <2>1 DEF EndClear
    <2> QED BY <1>0, <1>00, <2>2, EndClearKept
  <1>9. CASE Restore
      BY <1>0, <1>00, <1>9, RestoreKept
  <1>10. CASE Detach
    <2>1. /\ step' = step /\ step.lifted.kind = "free"
          /\ \E o \in ClearKind({"user", "step", "watch", "hi"}) : Happens(o, {})
        BY <1>10 DEF Detach, Tidy, NoStep, Free
    <2>2. /\ wanted' = {}
          /\ \A n \in Slots : rec'[n] = Free
               \/ (rec'[n] = rec[n] /\ rec[n].kind \notin {"user", "step", "watch", "hi"})
        BY <2>1, KindRecords
    <2>3. \A n \in Slots : rec'[n].kind = "free"
      <3>1. \A n \in Slots : rec[n].kind \in {"free", "user", "step", "watch", "hi"}
          BY DEF Typed, TypeOK, Records
      <3> QED BY <2>2, <3>1 DEF Free
    <2>4. OneEach' /\ wiped' = wanted'
      <3>1. RegTypes'
          BY RegistersKept
      <3> QED BY <2>2, <3>1 DEF OneEach, RegTypes
    <2> QED BY <2>1, <2>3, <2>4, EmptyKept
  <1>11. CASE Attach
    <2>1. /\ at = "off" /\ step = NoStep /\ step.lifted.kind = "free" /\ wanted = {}
          /\ UNCHANGED <<rec, wanted, wiped, step>>
        BY <1>11 DEF Attach, Tidy, NoStep, Free
    <2> QED BY <1>00, <2>1 DEF Kept2, Distinct, Paired, Apart, OneEach, Lendable
  <1>12. CASE GdbReset \/ WebFlash
    <2>1. Dropped(Refused, wanted) /\ step' = step
        BY <1>12 DEF GdbReset, WebFlash, Overtaken
    <2>2. Changed(Refused) = {}
        BY DEF Changed, Refused, Outcome
    <2>3. wiped' = wanted' /\ wanted' = wanted /\ \A n \in Slots : rec'[n].kind = "free"
        BY <2>1, <2>2 DEF Dropped, Free
    <2>4. OneEach'
        BY <1>00, <2>3 DEF OneEach
    <2> QED BY <1>00, <2>1, <2>3, <2>4, EmptyKept
  <1>13. CASE Probe
    <2>1. wiped' = wanted' /\ wanted' = wanted /\ step' = step
          /\ \A n \in Slots : rec'[n].kind = "free"
        BY <1>13 DEF Probe, Free
    <2>2. OneEach'
        BY <1>00, <2>1 DEF OneEach
    <2> QED BY <1>00, <2>1, <2>2, EmptyKept
  <1> QED BY <1>1, <1>2, <1>3, <1>4, <1>5, <1>6, <1>7, <1>8, <1>9, <1>10, <1>11, <1>12, <1>13
          DEF Next

-----------------------------------------------------------------------------
(* The theorems. *)

(* The invariant that every step of the debugger and of the web server     *)
(* keeps: types, the records of a step, which triggers may have lost their *)
(* record, and where each request has its trigger.                         *)
THEOREM TriggerInvariant == Spec => []TriggerInv
  <1>1. Init => TriggerInv
    <2> SUFFICES ASSUME Init PROVE TriggerInv
        OBVIOUS
    <2>1. /\ rec \in [Slots -> Records] /\ hw \in [Slots -> Triggers] /\ at = "off"
          /\ \A n \in Slots : rec[n].kind = "free" /\ hw[n].evt = "off"
        BY TriggerTypes DEF Init, Free, Off
    <2>2. /\ step = NoStep /\ wanted = {} /\ web = 0 /\ faults = 0 /\ step.lifted = Free
          /\ wiped = {} /\ strays = {} /\ mixed \in BOOLEAN
        BY DEF Init, NoStep
    <2>4. web \in Nat /\ faults \in Nat /\ web + faults <= MaxTrouble
        BY <2>2, TriggerAssumption
    <2>5. web + faults \in 0 .. MaxTrouble
        BY <2>2, TriggerAssumption
    <2>6. step \in [pc : Addrs \cup {NoAddr}, branch : Addrs \cup {NoAddr},
                   lifted : Records, goOn : BOOLEAN]
        BY <2>2, TriggerTypes DEF NoStep
    <2>7. Typed
        BY <2>1, <2>2, <2>4, <2>5, <2>6 DEF Typed, TypeOK
    <2>8. Tidy
        BY <2>1, <2>2 DEF Tidy, Free
    <2>9. NoGhost
        BY <2>1 DEF NoGhost, Ghosts
    <2>10. Held
        BY <2>1, <2>2 DEF Held, Kept2, Distinct, Paired, Apart, OneEach, Lendable, Free
    <2> QED BY <2>7, <2>8, <2>9, <2>10 DEF TriggerInv
  <1>2. TriggerInv /\ [Next]_vars => TriggerInv'
    <2> SUFFICES ASSUME TriggerInv, [Next]_vars PROVE TriggerInv'
        OBVIOUS
    <2>1. CASE Next
      <3>1. Typed /\ Tidy /\ NoGhost /\ Held
          BY DEF TriggerInv
      <3>2. RegTypes' /\ NoGhost' /\ CtlTypes' /\ Tidy' /\ Held'
          BY <2>1, <3>1, RegistersKept, ControlTypes, TidyKept, HeldKept
      <3>3. Typed'
          BY <3>2 DEF Typed, TypeOK, RegTypes, CtlTypes
      <3> QED BY <3>2, <3>3 DEF TriggerInv
    <2>2. CASE UNCHANGED vars
      <3>1. Typed' /\ Tidy'
          BY <2>2 DEF TriggerInv, vars, Typed, TypeOK, Tidy
      <3>2. NoGhost'
          BY <2>2 DEF TriggerInv, vars, NoGhost, Ghosts
      <3>3. Held'
        <4>1. Kept2 => Kept2'
            BY <2>2, SameKept DEF vars
        <4>2. Clean' <=> Clean
            BY <2>2 DEF vars, Clean
        <4> QED BY <4>1, <4>2 DEF TriggerInv, Held
      <3> QED BY <3>1, <3>2, <3>3 DEF TriggerInv
    <2> QED BY <2>1, <2>2
  <1> QED BY <1>1, <1>2, PTL DEF Spec

(* Whatever is armed has a record of its address, for any number of slots  *)
(* and of resets, probes and failures, but where a write failed, or a      *)
(* probe, a lost reset or a session inside a call took the record: what    *)
(* tricore_detach relies on to leave none of the debugger's triggers       *)
(* armed.                                                                  *)
THEOREM TriggersNoGhost == Spec => []NoGhost
  <1>1. TriggerInv => NoGhost
      BY DEF TriggerInv
  <1> QED BY <1>1, TriggerInvariant, PTL

(* No step leaves its triggers on record, by whichever of tricore_step's   *)
(* three exits it ends.                                                    *)
THEOREM TriggersStepTidy == Spec => []StepTidy
  <1>1. TriggerInv => StepTidy
      BY DEF TriggerInv, Tidy, StepTidy
  <1> QED BY <1>1, TriggerInvariant, PTL

(* While no write failed and no address served two purposes, every         *)
(* breakpoint and watchpoint that GDB was told is set, and that no reset   *)
(* or probe has dropped since, is armed whenever the core runs or GDB has  *)
(* it, also after any number of steps that took one off its address and    *)
(* gave it back with all slots taken.                                      *)
THEOREM TriggersKept == Spec => []Kept
  <1>1. TriggerInv => Kept
    <2> SUFFICES ASSUME TriggerInv, at \in {"idle", "run"}, Clean, NEW r \in wanted \ wiped
                 PROVE  SetFor(r)
        BY DEF Kept, Clean
    <2>1. Kept2 /\ step.lifted.kind = "free" /\ r \in Requests /\ hw \in [Slots -> Triggers]
        BY DEF TriggerInv, Held, Tidy, Typed, TypeOK, NoStep, Free
    <2>2. PICK n \in Slots : PlacedAt(r, n)
        BY <2>1 DEF Kept2, Lent
    <2>3. CASE r.what = "break"
      <3>1. hw[n].evt = "code" /\ hw[n].adr = r.addr /\ hw[n] \in Triggers
          BY <2>1, <2>2, <2>3 DEF PlacedAt
      <3>2. hw[n] = Code(r.addr)
          BY <3>1 DEF Triggers, Code
      <3> QED BY <2>3, <3>2 DEF SetFor
    <2>4. CASE r.what = "watch"
      <3>1. /\ hw[n].adr = r.addr /\ hw[n].evt = IF r.size = 1 THEN "data" ELSE "range"
            /\ r.size > 1 => n + 1 \in Slots /\ hw[n + 1].adr = r.addr + r.size
          BY <2>2, <2>4 DEF PlacedAt
      <3> QED BY <2>4, <3>1 DEF SetFor
    <2> QED BY <2>1, <2>3, <2>4, RequestFacts
  <1> QED BY <1>1, TriggerInvariant, PTL
=============================================================================
