-------------------------- MODULE LinkModesProofs --------------------------
(***************************************************************************)
(* What holds of the link's modes for every set of dividers and any number *)
(* of lost telegrams: whenever the DAP lock is free fabric and target      *)
(* agree on the mode, but for what GDB's unlocked reset does to them, and  *)
(* a trace that was cleaned up left the link narrow.                       *)
(*                                                                         *)
(* A lemma for each function of the code says what every outcome of it is, *)
(* the failures included; the invariant then ties the records of           *)
(* dap_wide.c to those of the trace session, which is what its clean-up,   *)
(* in three steps of the lock, relies on.                                  *)
(***************************************************************************)
EXTENDS LinkModes, TLAPS

(* What every outcome of a call leaves alone. *)
Same(l, m) ==
  /\ m.fast = l.fast /\ m.taps = l.taps /\ m.timing = l.timing
  /\ m.on = l.on /\ m.s_active = l.s_active /\ m.s_fast = l.s_fast

(* Both ends are in the same mode, or what parts them is on the record. *)
Agreed(l) == l.cold \/ l.crossed \/ l.gdb = "trst" \/ l.wide = l.tWide

(* What a telegram may leave, with GDB's reset at work beside it: nothing  *)
(* but narrow mode, at either end, and the two still agree.                *)
Drift(l, m) ==
  /\ m \in Links /\ Same(l, m) /\ (m.wide => l.wide) /\ (m.tWide => l.tWide)
  /\ Agreed(l) => Agreed(m)

(* A link at rest under the lock: both ends agree, and the records tell what *)
(* is not as an attach leaves it.                                            *)
Good(l) ==
  /\ l \in Links
  /\ Agreed(l)
  /\ ~l.on => ~l.tWide
  /\ l.fast => l.s_fast
  /\ l.timing => l.s_fast
  /\ l.taps => l.s_active \/ l.s_fast
  /\ l.wide => l.s_active

(* What fast mode changed is recorded. *)
Recorded(l) == l \in Links /\ (l.fast => l.s_fast) /\ (l.timing => l.s_fast)

(* A field of a link set to a value of its own leaves a link. *)
LEMMA LinkField ==
  ASSUME NEW l \in Links, NEW b \in BOOLEAN
  PROVE  /\ [l EXCEPT !.wide = b] \in Links /\ [l EXCEPT !.fast = b] \in Links
         /\ [l EXCEPT !.taps = b] \in Links /\ [l EXCEPT !.timing = b] \in Links
         /\ [l EXCEPT !.tWide = b] \in Links /\ [l EXCEPT !.on = b] \in Links
         /\ [l EXCEPT !.s_active = b] \in Links /\ [l EXCEPT !.s_fast = b] \in Links
         /\ [l EXCEPT !.cold = b] \in Links /\ [l EXCEPT !.crossed = b] \in Links
         /\ [l EXCEPT !.inUse = b] \in Links
         /\ \A d \in Divs : [l EXCEPT !.div = d] \in Links
  BY DEF Links

(* The two parts of a failure. *)
LEMMA FailedIs ==
  ASSUME NEW l
  PROVE  Failed(l).ok = FALSE /\ Failed(l).link = l
  BY DEF Failed

(* Drift adds up, and keeps a good link good. *)
LEMMA DriftAdds ==
  ASSUME NEW l, NEW m, NEW n, Drift(l, m), Drift(m, n)
  PROVE  Drift(l, n)
  BY DEF Drift, Same

LEMMA DriftGood ==
  ASSUME NEW l, Good(l), NEW m, Drift(l, m)
  PROVE  Good(m) /\ m.s_active = l.s_active /\ m.s_fast = l.s_fast
  BY DEF Drift, Same, Good

(* A lost telegram changes nothing but the count of them. *)
LEMMA LosingIs ==
  ASSUME NEW l \in Links, NEW m \in Losing(l)
  PROVE  Drift(l, m)
  <1>1. l.lost < MaxLost /\ m = [l EXCEPT !.lost = @ + 1]
      BY DEF Losing
  <1>2. l.lost + 1 \in 0 .. MaxLost
      BY <1>1, LinkAssumption DEF Links
  <1>3. m \in Links
      BY <1>1, <1>2 DEF Links
  <1> QED BY <1>1, <1>3 DEF Links, Same, Drift, Agreed

(* A reset of GDB's leaves the target narrow; the record tells if the fabric is not. *)
LEMMA GdbResetsIs ==
  ASSUME NEW l \in Links, NEW g \in {"idle", "again"}
  PROVE  Drift(l, [GdbResets(l) EXCEPT !.gdb = g])
  <1> DEFINE b == l.crossed \/ l.wide
             m == [l EXCEPT !.tWide = FALSE, !.crossed = b, !.gdb = g]
  <1>1. [GdbResets(l) EXCEPT !.gdb = g] = m
      BY DEF GdbResets, ResetTarget, Links
  <1>2. b \in BOOLEAN /\ (b <=> l.crossed \/ l.wide)
      OBVIOUS
  <1> HIDE DEF b
  <1>3. m \in Links
      BY <1>2 DEF Links
  <1>4. m.tWide = FALSE /\ m.wide = l.wide /\ m.crossed = b /\ Same(l, m)
      BY DEF Links, Same
  <1>5. l.wide \in BOOLEAN
      BY DEF Links
  <1> HIDE DEF m
  <1>6. Agreed(m)
      BY <1>2, <1>4, <1>5 DEF Agreed
  <1> QED BY <1>1, <1>3, <1>4, <1>6 DEF Drift

(* A write of GDB's unlocked attach. *)
LEMMA GdbWriteIs ==
  ASSUME NEW l \in Links, NEW m \in GdbWrite(l)
  PROVE  Drift(l, m)
  <1>1. CASE l.gdb = "idle"
    <2>1. m = [l EXCEPT !.gdb = "sync", !.inUse = TRUE, !.div = AttachDiv]
        BY <1>1 DEF GdbWrite
    <2>2. m \in Links
        BY <2>1, LinkAssumption DEF Links
    <2> QED BY <1>1, <2>1, <2>2 DEF Links, Same, Drift, Agreed
  <1>2. CASE l.gdb = "narrow"
    <2>1. m = [SetNarrow(l) EXCEPT !.gdb = "trst"]
        BY <1>2 DEF GdbWrite
    <2>2. m \in Links
        BY <2>1 DEF SetNarrow, Links
    <2>3. Same(l, m) /\ m.gdb = "trst" /\ m.wide = FALSE /\ m.tWide = l.tWide
        BY <2>1 DEF SetNarrow, Links, Same
    <2> QED BY <2>2, <2>3 DEF Drift, Agreed
  <1>3. CASE l.gdb = "trst"
      BY <1>3, GdbResetsIs DEF GdbWrite
  <1>4. CASE l.gdb = "out"
    <2>1. PICK next \in {"idle", "pin"} : m = [l EXCEPT !.gdb = next, !.inUse = FALSE]
        BY <1>4 DEF GdbWrite
    <2>2. m \in Links
        BY <2>1 DEF Links
    <2> QED BY <1>4, <2>1, <2>2 DEF Links, Same, Drift, Agreed
  <1>5. CASE l.gdb = "pin"
      BY <1>5, GdbResetsIs DEF GdbWrite
  <1>6. CASE l.gdb \notin {"idle", "narrow", "trst", "out", "pin"}
      BY <1>6 DEF GdbWrite
  <1> QED BY <1>1, <1>2, <1>3, <1>4, <1>5, <1>6

(* Several of them. *)
LEMMA MeddledIs ==
  ASSUME NEW l \in Links, NEW m \in Meddled(l)
  PROVE  Drift(l, m) /\ m \in Links
  <1>1. CASE m = l
      BY <1>1 DEF Drift, Same
  <1>2. CASE m \in GdbWrite(l)
      BY <1>2, GdbWriteIs DEF Drift
  <1>3. CASE \E n \in GdbWrite(l) : m \in GdbWrite(n)
    <2>1. PICK n \in GdbWrite(l) : m \in GdbWrite(n)
        BY <1>3
    <2>2. Drift(l, n) /\ n \in Links
        BY GdbWriteIs DEF Drift
    <2>3. Drift(n, m) /\ m \in Links
        BY <2>1, <2>2, GdbWriteIs DEF Drift
    <2> QED BY <2>2, <2>3, DriftAdds
  <1> QED BY <1>1, <1>2, <1>3 DEF Meddled

(* A request, answered only by a link that is heard. *)
LEMMA AskIs ==
  ASSUME NEW l \in Links, NEW o \in Ask(l)
  PROVE  /\ o.ok \in BOOLEAN /\ o.link \in Links /\ Drift(l, o.link)
         /\ o.ok => Hears(o.link)
  <1>1. PICK m \in Meddled(l) :
          o \in (IF m.inUse /\ Hears(m) THEN {Done(m)} ELSE {Failed(m)})
                \cup {Failed(n) : n \in Losing(m)}
      BY DEF Ask
  <1>2. m \in Links /\ Drift(l, m)
      BY MeddledIs
  <1>3. CASE o = Done(m) /\ Hears(m)
      BY <1>2, <1>3 DEF Done
  <1>4. CASE o = Failed(m)
      BY <1>2, <1>4 DEF Failed
  <1>5. CASE \E n \in Losing(m) : o = Failed(n)
    <2>1. PICK n \in Losing(m) : o = Failed(n)
        BY <1>5
    <2>2. Drift(m, n) /\ n \in Links
        BY <1>2, LosingIs DEF Drift
    <2>3. Drift(l, n)
        BY <1>2, <2>2, DriftAdds
    <2> QED BY <2>1, <2>2, <2>3 DEF Failed
  <1> QED BY <1>1, <1>3, <1>4, <1>5

(* So it keeps a good link good. *)
LEMMA AskGood ==
  ASSUME NEW l, Good(l), NEW o \in Ask(l)
  PROVE  /\ Good(o.link) /\ o.link.s_active = l.s_active /\ o.link.s_fast = l.s_fast
         /\ o.ok \in BOOLEAN
  <1>1. Drift(l, o.link) /\ o.ok \in BOOLEAN
      BY AskIs DEF Good
  <1> QED BY <1>1, DriftGood

(* GDB's own telegram: no write of its attach meanwhile. *)
LEMMA AskOwn ==
  ASSUME NEW l \in Links, l.gdb \in {"sync", "again"}, NEW o \in Ask(l)
  PROVE  o.link.gdb = l.gdb
  <1>1. Meddled(l) = {l}
      BY DEF Meddled, GdbWrite
  <1>2. \/ o = Done(l) \/ o = Failed(l)
        \/ \E n \in Losing(l) : o = Failed(n)
      BY <1>1 DEF Ask
  <1>3. \A n \in Losing(l) : n.gdb = l.gdb
      BY DEF Losing, Links
  <1> QED BY <1>2, <1>3 DEF Done, Failed

(* dap_dapisc_narrow: whichever telegram is lost, both ends are narrow after it. *)
LEMMA NarrowIs ==
  ASSUME NEW l \in Links, NEW o \in Narrow(l)
  PROVE  o.link \in Links /\ Same(l, o.link) /\ ~o.link.wide /\ ~o.link.tWide
  <1> DEFINE told == IF Hears(l) THEN {[l EXCEPT !.tWide = FALSE]} \cup Losing(l) ELSE {l}
  <1>1. PICK m \in told : o \in Bind(Ask(SetNarrow(m)), LAMBDA n : {Done(n)}, LAMBDA n : Ask(ResetTarget(n)))
      BY DEF Narrow
  <1>2. m \in Links /\ Same(l, m)
    <2>1. CASE m = [l EXCEPT !.tWide = FALSE]
      <3>1. m \in Links
          BY <2>1, LinkField
      <3> QED BY <2>1, <3>1 DEF Same, Links
    <2>2. CASE m \in Losing(l)
        BY <2>2, LosingIs DEF Drift
    <2>3. CASE m = l
        BY <2>3 DEF Same
    <2> QED BY <2>1, <2>2, <2>3
  <1> DEFINE s == SetNarrow(m)
  <1>3. s \in Links /\ Same(l, s) /\ s.wide = FALSE
      BY <1>2 DEF SetNarrow, Links, Same
  <1> HIDE DEF s
  <1>4. PICK a \in Ask(s) : o \in IF a.ok THEN {Done(a.link)} ELSE Ask(ResetTarget(a.link))
      BY <1>1 DEF Bind, s
  <1>5. a.link \in Links /\ Same(s, a.link) /\ ~a.link.wide /\ (a.ok => Hears(a.link))
      BY <1>3, AskIs DEF Drift
  <1>6. CASE a.ok
      BY <1>3, <1>4, <1>5, <1>6 DEF Done, Hears, Same, Links
  <1>7. CASE ~a.ok
    <2> DEFINE r == ResetTarget(a.link)
    <2>1. r \in Links /\ Same(a.link, r) /\ ~r.wide /\ ~r.tWide
        BY <1>5 DEF ResetTarget, Links, Same
    <2>2. o \in Ask(r)
        BY <1>4, <1>7
    <2> HIDE DEF r
    <2>3. o.link \in Links /\ Same(r, o.link) /\ ~o.link.wide /\ ~o.link.tWide
        BY <2>1, <2>2, AskIs DEF Drift
    <2> QED BY <1>3, <1>5, <2>1, <2>3 DEF Same
  <1> QED BY <1>6, <1>7

(* With the taps cleared nothing is left of wide mode but its record. *)
LEMMA NarrowGood ==
  ASSUME NEW l \in Links, NEW o \in Narrow(l), l.fast => l.s_fast, l.timing => l.s_fast,
         NEW m, m = [o.link EXCEPT !.taps = FALSE]
  PROVE  /\ Good(m) /\ m.s_fast = l.s_fast /\ m.s_active = l.s_active
         /\ m.on = l.on /\ ~m.wide /\ ~m.tWide /\ ~m.taps
  <1>1. o.link \in Links /\ Same(l, o.link) /\ ~o.link.wide /\ ~o.link.tWide
      BY NarrowIs
  <1>2. m \in Links
      BY <1>1, LinkField
  <1>3. ~m.wide /\ ~m.tWide /\ ~m.taps
      BY <1>1 DEF Same, Links
  <1>4. /\ m.fast = l.fast /\ m.timing = l.timing /\ m.s_fast = l.s_fast
        /\ m.s_active = l.s_active /\ m.on = l.on
      BY <1>1 DEF Same, Links
  <1>5. m.wide = m.tWide
      BY <1>2, <1>3 DEF Links
  <1> QED BY <1>2, <1>3, <1>4, <1>5 DEF Good, Agreed

(* dap_wide_exit: the link is good and no longer recorded as wide. *)
LEMMA WideExitIs ==
  ASSUME NEW l, Good(l), NEW m \in WideExit(l)
  PROVE  Good(m) /\ ~m.s_active /\ m.s_fast = l.s_fast /\ m.on = l.on
  <1>1. CASE l.s_active
    <2>1. PICK o \in Narrow(l) : m = [o.link EXCEPT !.taps = FALSE, !.s_active = FALSE]
        BY <1>1 DEF WideExit
    <2> DEFINE n == [o.link EXCEPT !.taps = FALSE]
    <2>2. /\ Good(n) /\ n.s_fast = l.s_fast /\ n.on = l.on /\ ~n.wide /\ ~n.taps
        BY NarrowGood DEF Good
    <2>3. m = [n EXCEPT !.s_active = FALSE]
        BY <2>1
    <2> HIDE DEF n
    <2>4. m \in Links
        BY <2>2, <2>3, LinkField DEF Good
    <2> QED BY <2>2, <2>3, <2>4 DEF Good, Agreed, Links
  <1>2. CASE ~l.s_active
      BY <1>2 DEF WideExit
  <1> QED BY <1>1, <1>2

(* The switch to wide mode: both ends go, or the answer was not heard. *)
LEMMA ModeChangeIs ==
  ASSUME NEW l, Good(l), Hears(l), NEW h \in ModeChange(l)
  PROVE  /\ h.ok \in BOOLEAN /\ h.link \in Links /\ Same(l, h.link)
         /\ h.ok => Agreed(h.link)
  <1> DEFINE wide == [l EXCEPT !.tWide = TRUE]
  <1>1. wide \in Links /\ Same(l, wide) /\ l \in Links
    <2>1. wide \in Links
        BY LinkField DEF Good
    <2> QED BY <2>1 DEF Same, Links, Good
  <1>2. \/ \E m \in Meddled(wide) : h = Done(SetWide(m))
        \/ \E m \in Losing(wide) \cup Losing(l) : h = Failed(m)
      BY DEF ModeChange
  <1> HIDE DEF wide
  <1>3. CASE \E m \in Meddled(wide) : h = Done(SetWide(m))
    <2>1. PICK m \in Meddled(wide) : h = Done(SetWide(m))
        BY <1>3
    <2>2. m \in Links /\ Same(wide, m)
        BY <1>1, MeddledIs DEF Drift
    <2> DEFINE b == m.crossed \/ ~m.tWide
               k == [m EXCEPT !.wide = TRUE, !.crossed = b]
    <2>3. SetWide(m) = k
        BY DEF SetWide
    <2>4. b \in BOOLEAN /\ (~m.tWide => b)
        OBVIOUS
    <2> HIDE DEF b
    <2>5. k \in Links
        BY <2>2, <2>4 DEF Links
    <2>6. k.wide = TRUE /\ k.tWide = m.tWide /\ k.crossed = b /\ Same(m, k)
        BY <2>2 DEF Links, Same
    <2>7. m.tWide \in BOOLEAN
        BY <2>2 DEF Links
    <2> HIDE DEF k
    <2>8. Agreed(k)
        BY <2>4, <2>6, <2>7 DEF Agreed
    <2>9. h.ok = TRUE /\ h.link = k
        BY <2>1, <2>3 DEF Done
    <2> QED BY <1>1, <2>2, <2>5, <2>6, <2>8, <2>9 DEF Same
  <1>4. CASE \E m \in Losing(wide) \cup Losing(l) : h = Failed(m)
    <2>1. PICK m \in Losing(wide) \cup Losing(l) : h = Failed(m)
        BY <1>4
    <2>2. m \in Links /\ (Same(wide, m) \/ Same(l, m))
        BY <1>1, LosingIs DEF Drift
    <2> QED BY <1>1, <2>1, <2>2 DEF Failed, Same
  <1> QED BY <1>2, <1>3, <1>4

(* The search for capture taps: wide mode recorded, or narrow at both ends. *)
LEMMA CalibratedIs ==
  ASSUME NEW k, Recorded(k), Agreed(k), k.on, ~k.s_active, NEW o \in Calibrated(k)
  PROVE  Good(o.link) /\ o.ok \in BOOLEAN /\ o.link.s_active = o.ok /\ o.link.s_fast = k.s_fast
  <1>1. PICK m \in Meddled(k) :
          \/ o = Done([m EXCEPT !.taps = TRUE, !.s_active = TRUE])
          \/ \E n \in Narrow(m) : o = Failed([n.link EXCEPT !.taps = FALSE])
      BY DEF Calibrated
  <1>2. m \in Links /\ Same(k, m) /\ Agreed(m)
      BY MeddledIs DEF Drift, Recorded
  <1>3. Recorded(m) /\ m.on /\ ~m.s_active /\ m.s_fast = k.s_fast
      BY <1>2 DEF Same, Recorded
  <1>4. CASE o = Done([m EXCEPT !.taps = TRUE, !.s_active = TRUE])
    <2> DEFINE r == [m EXCEPT !.taps = TRUE, !.s_active = TRUE]
    <2>1. r \in Links
        BY <1>2 DEF Links
    <2>2. /\ r.wide = m.wide /\ r.tWide = m.tWide /\ r.cold = m.cold /\ r.crossed = m.crossed
          /\ r.gdb = m.gdb /\ r.on = m.on /\ r.fast = m.fast /\ r.timing = m.timing
          /\ r.s_fast = m.s_fast /\ r.s_active = TRUE
        BY <1>2 DEF Links
    <2>3. o.ok = TRUE /\ o.link = r
        BY <1>4 DEF Done
    <2> HIDE DEF r
    <2>4. Good(r)
        BY <1>2, <1>3, <2>1, <2>2 DEF Good, Agreed, Recorded
    <2> QED BY <1>3, <2>2, <2>3, <2>4
  <1>5. CASE \E n \in Narrow(m) : o = Failed([n.link EXCEPT !.taps = FALSE])
    <2>1. PICK n \in Narrow(m) : o = Failed([n.link EXCEPT !.taps = FALSE])
        BY <1>5
    <2>2. /\ Good(o.link) /\ o.ok = FALSE /\ o.link.s_fast = m.s_fast
          /\ o.link.s_active = m.s_active
      <3>1. n \in Narrow(m) /\ m \in Links /\ (m.fast => m.s_fast) /\ (m.timing => m.s_fast)
          BY <1>2, <1>3 DEF Recorded
      <3> DEFINE f == [n.link EXCEPT !.taps = FALSE]
      <3>2. /\ Good(f) /\ f.s_fast = m.s_fast /\ f.s_active = m.s_active
          BY <3>1, NarrowGood
      <3>3. o.ok = FALSE /\ o.link = f
          BY <2>1, FailedIs
      <3> QED BY <3>2, <3>3
    <2>3. m.s_active = FALSE
        BY <1>2, <1>3 DEF Links
    <2> QED BY <1>3, <2>2, <2>3
  <1> QED BY <1>1, <1>4, <1>5

(* So after the switch both ends are wide and recorded so, or narrow. *)
LEMMA SwitchIs ==
  ASSUME NEW l, Good(l), ~l.s_active, Hears(l), NEW o \in Switch(l)
  PROVE  Good(o.link) /\ o.ok \in BOOLEAN /\ o.link.s_active = o.ok /\ o.link.s_fast = l.s_fast
  <1>1. PICK h \in ModeChange(l) :
          o \in IF h.ok THEN Calibrated(h.link) ELSE {Failed(n.link) : n \in Narrow(h.link)}
      BY DEF Switch, Bind
  <1> DEFINE k == h.link
  <1>2. h.ok \in BOOLEAN /\ k \in Links /\ Same(l, k) /\ (h.ok => Agreed(k))
      BY ModeChangeIs
  <1>3. Recorded(k) /\ k.on /\ ~k.s_active /\ k.s_fast = l.s_fast /\ (k.taps => k.s_fast)
      BY <1>2 DEF Good, Same, Recorded, Hears
  <1> HIDE DEF k
  <1>4. CASE h.ok
    <2>1. o \in Calibrated(k)
        BY <1>1, <1>4 DEF k
    <2> QED BY <1>2, <1>3, <1>4, <2>1, CalibratedIs
  <1>5. CASE ~h.ok
    <2>1. PICK n \in Narrow(k) : o = Failed(n.link)
        BY <1>1, <1>5 DEF k
    <2>2. n.link \in Links /\ Same(k, n.link) /\ ~n.link.wide /\ ~n.link.tWide
        BY <1>2, NarrowIs
    <2>3. n.link.wide = n.link.tWide
        BY <2>2 DEF Links
    <2>4. o.ok = FALSE /\ o.link = n.link
        BY <2>1, FailedIs
    <2>5. Good(n.link)
        BY <1>3, <2>2, <2>3 DEF Good, Agreed, Same, Recorded
    <2>6. n.link.s_active = FALSE /\ n.link.s_fast = l.s_fast
        BY <1>3, <2>2 DEF Same, Links
    <2> QED BY <2>4, <2>5, <2>6
  <1> QED BY <1>4, <1>5

(* dap_wide_enter succeeded exactly where wide mode is recorded. *)
LEMMA WideEnterIs ==
  ASSUME NEW l, Good(l), NEW div \in Divs, NEW o \in WideEnter(l, div)
  PROVE  Good(o.link) /\ o.ok \in BOOLEAN /\ o.link.s_active = o.ok /\ o.link.s_fast = l.s_fast
  <1>1. PICK m \in WideExit(l) :
          o \in IF ~m.inUse THEN {Failed(m)}
                ELSE Bind(Ask([m EXCEPT !.div = div]), LAMBDA n : {Failed(n)} \cup Switch(n), FailWith)
      BY DEF WideEnter
  <1>2. Good(m) /\ ~m.s_active /\ m.s_fast = l.s_fast
      BY WideExitIs
  <1>3. CASE ~m.inUse
    <2>1. o.ok = FALSE /\ o.link = m
        BY <1>1, <1>3, FailedIs
    <2>2. m.s_active = FALSE
        BY <1>2 DEF Good, Links
    <2> QED BY <1>2, <2>1, <2>2
  <1>4. CASE m.inUse
    <2> DEFINE d == [m EXCEPT !.div = div]
    <2>1. Good(d) /\ ~d.s_active /\ d.s_fast = l.s_fast
      <3>1. d \in Links
          BY <1>2, LinkField DEF Good
      <3> QED BY <1>2, <3>1 DEF Good, Agreed, Links
    <2>2. PICK a \in Ask(d) : o \in IF a.ok THEN {Failed(a.link)} \cup Switch(a.link) ELSE {Failed(a.link)}
        BY <1>1, <1>4 DEF Bind, FailWith
    <2> HIDE DEF d
    <2>3. a.ok => Hears(a.link)
        BY <2>1, <2>2, AskIs DEF Good
    <2>4. Good(a.link) /\ a.link.s_active = d.s_active /\ a.link.s_fast = d.s_fast
        BY <2>1, <2>2, AskGood
    <2>5. ~a.link.s_active /\ a.link.s_fast = l.s_fast
        BY <2>1, <2>4
    <2>6. CASE o = Failed(a.link)
      <3>1. o.ok = FALSE /\ o.link = a.link
          BY <2>6, FailedIs
      <3> QED BY <2>4, <2>5, <3>1 DEF Good, Links
    <2>7. CASE a.ok /\ o \in Switch(a.link)
        BY <2>3, <2>4, <2>5, <2>7, SwitchIs
    <2> QED BY <2>2, <2>6, <2>7
  <1> QED BY <1>3, <1>4

(***************************************************************************)
(* Fast mode and the attach.                                               *)
(***************************************************************************)
(* Fast mode off, the taps as wide mode wants them. *)
LEMMA AtDivIs ==
  ASSUME NEW l, Good(l)
  PROVE  /\ Good(AtDiv(l)) /\ AtDiv(l).s_active = l.s_active /\ AtDiv(l).s_fast = l.s_fast
         /\ ~AtDiv(l).fast /\ ~AtDiv(l).timing
         /\ AtDiv(l).taps = l.s_active
  <1>1. AtDiv(l) \in Links
      BY DEF AtDiv, Good, Links
  <1> QED BY <1>1 DEF AtDiv, Good, Agreed, Links

(* dap_fast_exit: fast mode is off and no longer recorded. *)
LEMMA FastExitIs ==
  ASSUME NEW l, Good(l)
  PROVE  /\ Good(FastExit(l)) /\ ~FastExit(l).s_fast
         /\ FastExit(l).s_active = l.s_active
  <1>1. CASE l.s_fast
    <2> DEFINE a == AtDiv(l)
    <2>1. /\ Good(a) /\ a.s_active = l.s_active /\ ~a.fast /\ ~a.timing
          /\ a.taps = l.s_active
        BY AtDivIs
    <2>2. FastExit(l) = [a EXCEPT !.s_fast = FALSE]
        BY <1>1 DEF FastExit
    <2> HIDE DEF a
    <2>3. [a EXCEPT !.s_fast = FALSE] \in Links
        BY <2>1, LinkField DEF Good
    <2> QED BY <2>1, <2>2, <2>3 DEF Good, Agreed, Links
  <1>2. CASE ~l.s_fast
      BY <1>2 DEF FastExit
  <1> QED BY <1>1, <1>2

(* What a search for a fast timing leaves, found or not. *)
LEMMA SearchEnds ==
  ASSUME NEW l, Good(l), NEW o \in Search(l)
  PROVE  Good(o.link) /\ o.link.s_active = l.s_active
  <1>1. CASE o = Failed(AtDiv(l))
    <2>1. o.link = AtDiv(l)
        BY <1>1, FailedIs
    <2> QED BY <2>1, AtDivIs
  <1>2. CASE o # Failed(AtDiv(l))
    <2>1. PICK best \in [taps : BOOLEAN, timing : BOOLEAN] :
            o = Done([l EXCEPT !.fast = TRUE, !.taps = best.taps, !.timing = best.timing,
                               !.s_fast = TRUE])
        BY <1>2 DEF Search
    <2> DEFINE n == [l EXCEPT !.fast = TRUE, !.taps = best.taps, !.timing = best.timing,
                              !.s_fast = TRUE]
    <2>2. o.link = n
        BY <2>1 DEF Done
    <2>3. n \in Links
        BY DEF Good, Links
    <2>4. Good(n) /\ n.s_active = l.s_active
        BY <2>3 DEF Good, Agreed, Links
    <2> QED BY <2>2, <2>4
  <1> QED BY <1>1, <1>2

(* dap_fast_enter keeps wide mode's record, whatever it finds. *)
LEMMA FastEnterIs ==
  ASSUME NEW l, Good(l), NEW o \in FastEnter(l)
  PROVE  Good(o.link) /\ o.link.s_active = l.s_active
  <1>1. \/ o = Failed(l) \/ o = Failed(AtDiv(l)) \/ o \in Search(l)
        \/ \E a \in Ask(l) : o \in Search(a.link) \/ o = Failed(a.link)
      BY DEF FastEnter, Bind, FailWith
  <1>2. CASE o = Failed(l) \/ o = Failed(AtDiv(l))
    <2>1. o.link = l \/ o.link = AtDiv(l)
        BY <1>2, FailedIs
    <2> QED BY <2>1, AtDivIs
  <1>3. CASE o \in Search(l)
      BY <1>3, SearchEnds
  <1>4. CASE \E a \in Ask(l) : o \in Search(a.link) \/ o = Failed(a.link)
    <2>1. PICK a \in Ask(l) : o \in Search(a.link) \/ o = Failed(a.link)
        BY <1>4
    <2>2. Good(a.link) /\ a.link.s_active = l.s_active
        BY AskGood
    <2>3. CASE o = Failed(a.link)
        BY <2>2, <2>3, FailedIs
    <2>4. CASE o \in Search(a.link)
        BY <2>2, <2>4, SearchEnds
    <2> QED BY <2>1, <2>3, <2>4
  <1> QED BY <1>1, <1>2, <1>3, <1>4

(* dap_phy_fpga_attach: both ends are narrow or were so, and no record changes. *)
LEMMA AttachIs ==
  ASSUME NEW l, Good(l), NEW o \in Attach(l)
  PROVE  Good(o.link) /\ o.link.s_active = l.s_active /\ o.link.s_fast = l.s_fast
  <1> DEFINE first == [l EXCEPT !.inUse = TRUE, !.div = AttachDiv]
             reset(m) == SetNarrow(ResetTarget(m))
             identify(m) == {Done(m), Failed(m)}
             again(m) == Bind(Ask(reset(m)), identify,
                              LAMBDA n : {Failed([n EXCEPT !.inUse = FALSE])})
             Kept(m) == Good(m) /\ m.s_active = l.s_active /\ m.s_fast = l.s_fast
  <1>1. Kept(first)
    <2>1. first \in Links
        BY LinkAssumption DEF Good, Links
    <2> QED BY <2>1 DEF Good, Agreed, Links
  <1>2. ASSUME NEW m, Kept(m), o \in identify(m)
        PROVE  Kept(o.link)
    <2> HIDE DEF Kept
    <2> QED BY <1>2 DEF Done, Failed
  <1>3. ASSUME NEW m, Kept(m), o \in again(m)
        PROVE  Kept(o.link)
    <2>1. Kept(reset(m))
      <3> DEFINE s == SetNarrow(ResetTarget(m))
      <3>1. s \in Links
          BY <1>3 DEF SetNarrow, ResetTarget, Good, Links
      <3>2. Same(m, s) /\ s.wide = FALSE /\ s.tWide = FALSE
          BY <1>3 DEF SetNarrow, ResetTarget, Good, Links, Same
      <3> HIDE DEF s
      <3>3. Good(s) /\ s.s_active = m.s_active /\ s.s_fast = m.s_fast
          BY <1>3, <3>1, <3>2 DEF Good, Agreed, Same
      <3> QED BY <1>3, <3>3 DEF s
    <2>2. PICK a \in Ask(reset(m)) :
            o \in IF a.ok THEN identify(a.link) ELSE {Failed([a.link EXCEPT !.inUse = FALSE])}
        BY <1>3 DEF Bind
    <2> HIDE DEF reset
    <2>3. Kept(a.link)
        BY <2>1, <2>2, AskGood
    <2>4. CASE o \in identify(a.link)
        BY <1>2, <2>3, <2>4
    <2>5. CASE o = Failed([a.link EXCEPT !.inUse = FALSE])
      <3> DEFINE n == [a.link EXCEPT !.inUse = FALSE]
      <3>1. n \in Links
          BY <2>3, LinkField DEF Good
      <3>2. Kept(n)
          BY <2>3, <3>1 DEF Good, Agreed, Links
      <3>3. o.link = n
          BY <2>5, FailedIs
      <3> QED BY <3>2, <3>3
    <2> QED BY <2>2, <2>4, <2>5
  <1>4. CASE l.wide
    <2>1. o \in again(first)
        BY <1>4 DEF Attach
    <2> HIDE DEF again, first
    <2> QED BY <1>1, <1>3, <2>1
  <1>5. CASE ~l.wide
    <2>1. PICK a \in Ask(first) : o \in IF a.ok THEN identify(a.link) ELSE again(a.link)
        BY <1>5 DEF Attach, Bind
    <2> HIDE DEF again, first, identify
    <2>2. Kept(a.link)
        BY <1>1, <2>1, AskGood
    <2> QED BY <1>2, <1>3, <2>1, <2>2
  <1> QED BY <1>4, <1>5

(***************************************************************************)
(* The inductive invariant: the link is good, and what the trace session   *)
(* has not cleaned up yet is recorded where its clean-up looks for it.     *)
(***************************************************************************)
Recall ==
  ~kept =>
    /\ link.s_active => s_wide
    /\ trace \in {"wide", "div", "idle"} => ~link.s_fast
    /\ trace \in {"div", "idle"} => ~s_wide

Phases == trace \in {"idle", "run", "check", "fast", "wide", "div"}
          /\ s_wide \in BOOLEAN /\ kept \in BOOLEAN

Inv == Good(link) /\ Phases /\ Recall

(* The invariant holds at boot. *)
LEMMA InitInv == Init => Inv
  <1> SUFFICES ASSUME Init PROVE Inv
      OBVIOUS
  <1>1. link \in Links
      BY LinkAssumption DEF Init, Links
  <1> QED BY <1>1 DEF Init, Inv, Good, Agreed, Phases, Recall

(* A change of the clock keeps a good link good. *)
LEMMA SetDiv ==
  ASSUME NEW l, Good(l), NEW d \in Divs, NEW m, m = [l EXCEPT !.div = d]
  PROVE  Good(m) /\ m.s_active = l.s_active /\ m.s_fast = l.s_fast
  <1>1. m \in Links
      BY LinkField DEF Good
  <1> QED BY <1>1 DEF Good, Agreed, Links

(* So does a fabric taken into use or out of it. *)
LEMMA SetUse ==
  ASSUME NEW l, Good(l), NEW b \in BOOLEAN, NEW m, m = [l EXCEPT !.inUse = b]
  PROVE  Good(m) /\ m.s_active = l.s_active /\ m.s_fast = l.s_fast
  <1>1. m \in Links
      BY LinkField DEF Good
  <1> QED BY <1>1 DEF Good, Agreed, Links

(* A step of another user of the link: the session's records stay, wide    *)
(* mode may have been left, fast mode's record was not touched.            *)
LEMMA OthersInv ==
  ASSUME Inv, Others, Good(link'), link'.s_active => link.s_active, link'.s_fast = link.s_fast
  PROVE  Inv'
  BY DEF Inv, Others, Phases, Recall

(* dap_mcds_start keeps the invariant, whichever of its steps failed. *)
LEMMA StartInv ==
  ASSUME Inv, NEW wide \in BOOLEAN, NEW fast \in BOOLEAN, NEW div \in Divs, Start(wide, fast, div)
  PROVE  Inv'
  <1>1. PICK w \in IF link.inUse /\ wide THEN WideEnter(link, div) ELSE {Failed(link)} :
        \E f \in IF link.inUse /\ fast THEN FastEnter([w.link EXCEPT !.div = div])
                 ELSE {Failed(IF link.inUse THEN [w.link EXCEPT !.div = div] ELSE link)} :
          /\ link' = f.link
          /\ s_wide' = w.ok
          /\ trace' = "check" \/ (trace' = "run" /\ Hears(f.link))
          /\ kept' = kept
      BY DEF Start
  <1>2. PICK f \in IF link.inUse /\ fast THEN FastEnter([w.link EXCEPT !.div = div])
                   ELSE {Failed(IF link.inUse THEN [w.link EXCEPT !.div = div] ELSE link)} :
          /\ link' = f.link
          /\ s_wide' = w.ok
          /\ trace' \in {"run", "check"}
          /\ kept' = kept
      BY <1>1
  <1>3. Good(link) /\ trace = "idle" /\ (~kept => ~link.s_active /\ ~s_wide)
      BY DEF Inv, Recall, Start
  <1>4. Good(w.link) /\ w.ok \in BOOLEAN /\ (~kept => (w.link.s_active => w.ok))
    <2>1. CASE link.inUse /\ wide
        BY <1>3, <2>1, WideEnterIs
    <2>2. CASE ~(link.inUse /\ wide)
      <3>1. w.ok = FALSE /\ w.link = link
          BY <2>2, FailedIs
      <3> QED BY <1>3, <3>1
    <2> QED BY <2>1, <2>2
  <1> DEFINE d == [w.link EXCEPT !.div = div]
  <1>5. Good(d) /\ d.s_active = w.link.s_active
      BY <1>4, SetDiv
  <1>6. Good(f.link) /\ (~kept => (f.link.s_active => w.ok))
    <2>1. CASE link.inUse /\ fast
      <3>1. f \in FastEnter(d)
          BY <2>1
      <3> HIDE DEF d
      <3> QED BY <1>4, <1>5, <3>1, FastEnterIs
    <2>2. CASE ~(link.inUse /\ fast)
      <3>1. f.link = d \/ f.link = link
          BY <2>2, FailedIs
      <3> HIDE DEF d
      <3> QED BY <1>3, <1>4, <1>5, <3>1
    <2> QED BY <2>1, <2>2
  <1> QED BY <1>2, <1>4, <1>6 DEF Inv, Phases, Recall

(* The clean-up looks whether the fabric is in use, and is skipped if not. *)
LEMMA FailedCheckInv == Inv /\ FailedCheck => Inv'
  <1> SUFFICES ASSUME Inv, FailedCheck PROVE Inv'
      OBVIOUS
  <1>1. link' = link /\ s_wide' = s_wide /\ trace = "check" /\ trace' \in {"fast", "idle"}
      BY DEF FailedCheck
  <1>2. trace' = "idle" => kept'
      BY DEF FailedCheck
  <1>3. kept' \in BOOLEAN /\ (~kept' => ~kept)
      BY DEF FailedCheck, Inv, Phases
  <1> QED BY <1>1, <1>2, <1>3 DEF Inv, Phases, Recall

(* The clean-up's first step: fast mode. *)
LEMMA FailedFastInv == Inv /\ FailedFast => Inv'
  BY FastExitIs DEF Inv, FailedFast, Phases, Recall

(* Its second step: wide mode, if the session is still in it. *)
LEMMA FailedWideInv == Inv /\ FailedWide => Inv'
  <1> SUFFICES ASSUME Inv, FailedWide PROVE Inv'
      OBVIOUS
  <1>1. CASE s_wide
    <2>1. Good(link') /\ ~link'.s_active /\ link'.s_fast = link.s_fast
        BY <1>1, WideExitIs DEF Inv, FailedWide
    <2> QED BY <2>1 DEF Inv, FailedWide, Phases, Recall
  <1>2. CASE ~s_wide
      BY <1>2 DEF Inv, FailedWide, Phases, Recall
  <1> QED BY <1>1, <1>2

(* Its last step: the clock. *)
LEMMA FailedDivInv == Inv /\ FailedDiv => Inv'
  <1> SUFFICES ASSUME Inv, FailedDiv PROVE Inv'
      OBVIOUS
  <1>1. Good(link') /\ link'.s_active = link.s_active /\ link'.s_fast = link.s_fast
      BY LinkAssumption, SetDiv DEF Inv, FailedDiv
  <1> QED BY <1>1 DEF Inv, FailedDiv, Phases, Recall

(* dap_mcds_stop, the three in one. *)
LEMMA StopInv == Inv /\ Stop => Inv'
  <1> SUFFICES ASSUME Inv, Stop PROVE Inv'
      OBVIOUS
  <1>1. CASE link.inUse
    <2> DEFINE x == FastExit(link)
    <2>1. Good(x) /\ ~x.s_fast /\ x.s_active = link.s_active
        BY FastExitIs DEF Inv
    <2>2. PICK m \in IF s_wide THEN WideExit(x) ELSE {x} : link' = [m EXCEPT !.div = AttachDiv]
        BY <1>1 DEF Stop
    <2>3. s_wide' = FALSE /\ kept' = kept /\ trace' = "idle"
        BY <1>1 DEF Stop
    <2> HIDE DEF x
    <2>4. Good(m) /\ ~m.s_fast /\ (~kept => ~m.s_active)
      <3>1. CASE s_wide
          BY <2>1, <2>2, <3>1, WideExitIs
      <3>2. CASE ~s_wide
          BY <2>1, <2>2, <3>2 DEF Inv, Recall
      <3> QED BY <3>1, <3>2
    <2>5. Good(link') /\ ~link'.s_fast /\ (~kept => ~link'.s_active)
        BY <2>2, <2>4, LinkAssumption, SetDiv
    <2> QED BY <2>3, <2>5 DEF Inv, Phases, Recall
  <1>2. CASE ~link.inUse
      BY <1>2 DEF Inv, Stop, Phases, Recall
  <1> QED BY <1>1, <1>2

(* A probe, under a running trace or not, keeps the invariant. *)
LEMMA ProbeInv == Inv /\ Probe => Inv'
  <1> SUFFICES ASSUME Inv, Probe PROVE Inv'
      OBVIOUS
  <1>1. PICK o \in Attach(link) : link' = [o.link EXCEPT !.inUse = @ /\ o.ok]
      BY DEF Probe
  <1>2. Good(o.link) /\ o.link.s_active = link.s_active /\ o.link.s_fast = link.s_fast
      BY AttachIs DEF Inv
  <1> DEFINE b == o.link.inUse /\ o.ok
  <1>3. link' = [o.link EXCEPT !.inUse = b] /\ b \in BOOLEAN
      BY <1>1
  <1> HIDE DEF b
  <1>4. Good(link') /\ link'.s_active = link.s_active /\ link'.s_fast = link.s_fast
      BY <1>2, <1>3, SetUse
  <1> QED BY <1>4, OthersInv DEF Probe

(* So does GDB's reset: a write of its attach, *)
LEMMA GdbWritesInv == Inv /\ GdbWrites => Inv'
  <1> SUFFICES ASSUME Inv, GdbWrites PROVE Inv'
      OBVIOUS
  <1>1. Drift(link, link')
      BY GdbWriteIs DEF GdbWrites, Inv, Good
  <1>2. Good(link') /\ link'.s_active = link.s_active /\ link'.s_fast = link.s_fast
      BY <1>1, DriftGood DEF Inv
  <1> QED BY <1>2, OthersInv DEF GdbWrites

(* and a telegram, after which it is at its next step. *)
LEMMA GdbAsksInv == Inv /\ GdbAsks => Inv'
  <1> SUFFICES ASSUME Inv, GdbAsks PROVE Inv'
      OBVIOUS
  <1>1. PICK o \in IF link.wide THEN {Failed(link)} ELSE Ask(link) :
        \E next \in IF o.ok THEN {"idle", "pin", "out"}
                   ELSE IF link.gdb = "sync" THEN {"narrow"} ELSE {"out"} :
          link' = [o.link EXCEPT !.gdb = next]
      BY DEF GdbAsks
  <1>2. PICK next \in {"idle", "pin", "out", "narrow"} : link' = [o.link EXCEPT !.gdb = next]
      BY <1>1
  <1>3. link \in Links /\ link.gdb \in {"sync", "again"} /\ Good(link)
      BY DEF GdbAsks, Inv, Good
  <1>4. /\ Good(o.link) /\ o.link.s_active = link.s_active /\ o.link.s_fast = link.s_fast
        /\ o.link.gdb = link.gdb
    <2>1. CASE link.wide
      <3>1. o.link = link
          BY <1>1, <2>1, FailedIs
      <3> QED BY <1>3, <3>1
    <2>2. CASE ~link.wide
      <3>1. o \in Ask(link)
          BY <1>1, <2>2
      <3>2. Good(o.link) /\ o.link.s_active = link.s_active /\ o.link.s_fast = link.s_fast
          BY <1>3, <3>1, AskGood
      <3>3. o.link.gdb = link.gdb
          BY <1>3, <3>1, AskOwn
      <3> QED BY <3>2, <3>3
    <2> QED BY <2>1, <2>2
  <1>5. Good(link') /\ link'.s_active = link.s_active /\ link'.s_fast = link.s_fast
    <2>1. link' \in Links
        BY <1>2, <1>4 DEF Good, Links
    <2>2. o.link.gdb # "trst"
        BY <1>3, <1>4
    <2> QED BY <1>2, <1>4, <2>1, <2>2 DEF Good, Agreed, Links
  <1> QED BY <1>5, OthersInv DEF GdbAsks

(* What a diagnostic may do to the link between two steps of the session. *)
Tame(m) == Good(m) /\ (m.s_active => link.s_active) /\ m.s_fast = link.s_fast

(* Wide mode entered where it succeeded is left again, and a failure left it. *)
LEMMA EnterTame ==
  ASSUME NEW l, Tame(l), NEW d \in Divs, NEW w \in WideEnter(l, d)
  PROVE  Good(w.link) /\ w.ok \in BOOLEAN /\ w.link.s_fast = link.s_fast /\ (~w.ok => Tame(w.link))
  <1>1. /\ Good(w.link) /\ w.ok \in BOOLEAN /\ w.link.s_active = w.ok
        /\ w.link.s_fast = l.s_fast
      BY WideEnterIs DEF Tame
  <1> QED BY <1>1 DEF Tame

(* Wide mode left by a diagnostic. *)
LEMMA ExitTame ==
  ASSUME NEW l, Good(l), l.s_fast = link.s_fast, NEW m \in WideExit(l)
  PROVE  Tame(m)
  BY WideExitIs DEF Tame

(* The clock changed by a diagnostic. *)
LEMMA DivTame ==
  ASSUME NEW l, Tame(l), NEW d \in Divs, NEW m, m = [l EXCEPT !.div = d]
  PROVE  Tame(m)
  BY SetDiv DEF Tame

(* dap_fpga_bench keeps the invariant. *)
LEMMA BenchInv ==
  ASSUME Inv, NEW wide \in BOOLEAN, NEW div \in Divs, Bench(wide, div)
  PROVE  Inv'
  <1> DEFINE Enter(m) == IF wide THEN WideEnter(m, div) ELSE {Done(m)}
  <1>1. PICK a \in IF link.inUse THEN {Done(link)} ELSE Attach(link) :
        \E w \in IF ~a.ok THEN {Failed([a.link EXCEPT !.div = AttachDiv])}
                 ELSE Bind(Ask([a.link EXCEPT !.div = AttachDiv]),
                           LAMBDA m : IF wide THEN WideEnter(m, div) ELSE {Done(m)}, FailWith) :
          IF ~w.ok THEN link' = w.link
          ELSE \E skew \in BOOLEAN :
                 LET off == [w.link EXCEPT !.fast = FALSE,
                                           !.timing = @ /\ ~skew, !.taps = @ /\ ~skew]
                 IN  \E m \in IF wide THEN WideExit(off) ELSE {off} :
                       link' = [m EXCEPT !.div = AttachDiv]
      BY DEF Bench
  <1> DEFINE d == [a.link EXCEPT !.div = AttachDiv]
  <1>2. PICK w \in IF ~a.ok THEN {Failed(d)}
                   ELSE UNION {IF o.ok THEN Enter(o.link) ELSE {Failed(o.link)} : o \in Ask(d)} :
          IF ~w.ok THEN link' = w.link
          ELSE \E skew \in BOOLEAN :
                 LET off == [w.link EXCEPT !.fast = FALSE,
                                           !.timing = @ /\ ~skew, !.taps = @ /\ ~skew]
                 IN  \E m \in IF wide THEN WideExit(off) ELSE {off} :
                       link' = [m EXCEPT !.div = AttachDiv]
      BY <1>1 DEF Bind, FailWith
  <1>3. Tame(a.link)
    <2>1. CASE link.inUse
      <3>1. a.link = link
        <4>1. a = Done(link)
            BY <2>1
        <4> QED BY <4>1 DEF Done
      <3> QED BY <3>1 DEF Tame, Inv
    <2>2. CASE ~link.inUse
        BY <1>1, <2>2, AttachIs DEF Tame, Inv
    <2> QED BY <2>1, <2>2
  <1>4. Tame(d)
      BY <1>3, LinkAssumption, DivTame
  <1> HIDE DEF d
  <1>5. /\ Good(w.link) /\ w.ok \in BOOLEAN /\ w.link.s_fast = link.s_fast
        /\ ~w.ok \/ ~wide => Tame(w.link)
    <2>1. CASE w = Failed(d)
        BY <1>4, <2>1, FailedIs DEF Tame
    <2>2. CASE w # Failed(d)
      <3>1. PICK o \in Ask(d) : w \in IF o.ok THEN Enter(o.link) ELSE {Failed(o.link)}
          BY <1>2, <2>2
      <3>2. Tame(o.link)
          BY <1>4, AskGood DEF Tame
      <3>3. CASE w = Failed(o.link)
          BY <3>2, <3>3, FailedIs DEF Tame
      <3>4. CASE wide /\ w \in WideEnter(o.link, div)
          BY <3>2, <3>4, EnterTame
      <3>5. CASE ~wide /\ w = Done(o.link)
          BY <3>2, <3>5 DEF Done, Tame
      <3> QED BY <3>1, <3>3, <3>4, <3>5
    <2> QED BY <2>1, <2>2
  <1>6. Tame(link')
    <2>1. CASE ~w.ok
        BY <1>2, <1>5, <2>1
    <2>2. CASE w.ok
      <3>0. PICK skew \in BOOLEAN :
              LET off == [w.link EXCEPT !.fast = FALSE,
                                        !.timing = @ /\ ~skew, !.taps = @ /\ ~skew]
              IN  \E m \in IF wide THEN WideExit(off) ELSE {off} :
                    link' = [m EXCEPT !.div = AttachDiv]
          BY <1>2, <2>2
      <3> DEFINE off == [w.link EXCEPT !.fast = FALSE,
                                       !.timing = @ /\ ~skew, !.taps = @ /\ ~skew]
      <3>1. PICK m \in IF wide THEN WideExit(off) ELSE {off} : link' = [m EXCEPT !.div = AttachDiv]
          BY <3>0
      <3>2. off \in Links
        <4> DEFINE t == w.link.timing /\ ~skew
                   p == w.link.taps /\ ~skew
        <4>1. t \in BOOLEAN /\ p \in BOOLEAN /\ w.link \in Links
            BY <1>5 DEF Good
        <4>2. off = [w.link EXCEPT !.fast = FALSE, !.timing = t, !.taps = p]
            OBVIOUS
        <4> HIDE DEF t, p, off
        <4> QED BY <4>1, <4>2 DEF Links
      <3>3. Good(off) /\ off.s_active = w.link.s_active /\ off.s_fast = w.link.s_fast
          BY <1>5, <3>2 DEF Good, Agreed, Links
      <3> HIDE DEF off
      <3>4. Tame(m)
        <4>1. CASE wide
            BY <1>5, <3>1, <3>3, <4>1, ExitTame
        <4>2. CASE ~wide
            BY <1>5, <3>1, <3>3, <4>2 DEF Tame
        <4> QED BY <4>1, <4>2
      <3> QED BY <3>1, <3>4, LinkAssumption, DivTame
    <2> QED BY <1>5, <2>1, <2>2
  <1> QED BY <1>6, OthersInv DEF Bench, Tame

(* dap_probe_fpga_route_check keeps the invariant. *)
LEMMA RouteCheckInv ==
  ASSUME Inv, NEW wide \in BOOLEAN, RouteCheck(wide)
  PROVE  Inv'
  <1>1. PICK a \in Attach(link) :
          \/ link' = [a.link EXCEPT !.inUse = FALSE]
          \/ LET swept == [a.link EXCEPT !.div = SweepDiv]
             IN  IF ~wide THEN link' = swept
                 ELSE \E w \in WideEnter(swept, AttachDiv) :
                        IF w.ok THEN \E m \in WideExit(w.link) :
                                       link' = [m EXCEPT !.div = SweepDiv]
                        ELSE link' = w.link
      BY DEF RouteCheck
  <1>2. Tame(a.link)
      BY AttachIs DEF Inv, Tame
  <1> DEFINE swept == [a.link EXCEPT !.div = SweepDiv]
  <1>3. Tame(swept)
      BY <1>2, LinkAssumption, DivTame
  <1>4. Tame(link')
    <2>1. CASE link' = [a.link EXCEPT !.inUse = FALSE]
        BY <1>2, <2>1, SetUse DEF Tame
    <2>2. CASE ~wide /\ link' = swept
        BY <1>3, <2>2
    <2>3. CASE \E w \in WideEnter(swept, AttachDiv) :
                 IF w.ok THEN \E m \in WideExit(w.link) : link' = [m EXCEPT !.div = SweepDiv]
                 ELSE link' = w.link
      <3> HIDE DEF swept
      <3>1. PICK w \in WideEnter(swept, AttachDiv) :
                 IF w.ok THEN \E m \in WideExit(w.link) : link' = [m EXCEPT !.div = SweepDiv]
                 ELSE link' = w.link
          BY <2>3
      <3>2. /\ Good(w.link) /\ w.ok \in BOOLEAN /\ w.link.s_fast = link.s_fast
            /\ ~w.ok => Tame(w.link)
          BY <1>3, LinkAssumption, EnterTame
      <3>3. CASE w.ok
        <4>1. PICK m \in WideExit(w.link) : link' = [m EXCEPT !.div = SweepDiv]
            BY <3>1, <3>3
        <4>2. Tame(m)
            BY <3>2, ExitTame
        <4> QED BY <4>1, <4>2, LinkAssumption, DivTame
      <3>4. CASE ~w.ok
          BY <3>1, <3>2, <3>4
      <3> QED BY <3>3, <3>4
    <2> QED BY <1>1, <2>1, <2>2, <2>3
  <1> QED BY <1>4, OthersInv DEF RouteCheck, Tame

(* The target's power keeps the invariant. *)
LEMMA PowerInv == Inv /\ (PowerDown \/ PowerUp) => Inv'
  <1> SUFFICES ASSUME Inv, PowerDown \/ PowerUp PROVE Inv'
      OBVIOUS
  <1>1. Good(link') /\ link'.s_active = link.s_active /\ link'.s_fast = link.s_fast
    <2>1. link' \in Links
        BY DEF Inv, Good, Links, PowerDown, PowerUp
    <2> QED BY <2>1 DEF Inv, Good, Agreed, Links, PowerDown, PowerUp
  <1> QED BY <1>1, OthersInv DEF PowerDown, PowerUp

(* The invariant is inductive. *)
LEMMA NextInv == Inv /\ [Next]_vars => Inv'
  <1> SUFFICES ASSUME Inv, [Next]_vars PROVE Inv'
      OBVIOUS
  <1>1. ASSUME NEW w \in BOOLEAN, NEW f \in BOOLEAN, NEW d \in Divs, Start(w, f, d) PROVE Inv'
      BY <1>1, StartInv
  <1>2. ASSUME NEW w \in BOOLEAN, NEW d \in Divs, Bench(w, d) PROVE Inv'
      BY <1>2, BenchInv
  <1>3. ASSUME NEW w \in BOOLEAN, RouteCheck(w) PROVE Inv'
      BY <1>3, RouteCheckInv
  <1>4. CASE UNCHANGED vars
      BY <1>4 DEF vars, Inv, Good, Agreed, Phases, Recall
  <1> QED BY <1>1, <1>2, <1>3, <1>4, FailedCheckInv, FailedFastInv, FailedWideInv, FailedDivInv,
             StopInv, ProbeInv, GdbWritesInv, GdbAsksInv, PowerInv DEF Next

(***************************************************************************)
(* The theorems.                                                           *)
(***************************************************************************)
(* Every state of the link satisfies the invariant. *)
THEOREM LinkInv == Spec => []Inv
  BY InitInv, NextInv, PTL DEF Spec

(* The types of link and session hold in every state. *)
THEOREM LinkTypeOK == Spec => []TypeOK
  <1>1. Inv => TypeOK
      BY DEF Inv, Good, Phases, TypeOK
  <1> QED BY <1>1, LinkInv, PTL

(* Whenever the lock is free a target that was not powered down is in the
   mode the fabric frames for: no telegram of a switch, an exit, an attach or
   a diagnostic can be lost so that the two part (dap_wide.c, dap_dapisc.c),
   and GDB's unlocked attach parts them only by a reset that meets a fabric
   set wide behind its back (tricore_bmp.c). *)
THEOREM LinkModesAgree == Spec => []ModesAgree
  <1>1. Inv => ModesAgree
      BY DEF Inv, Good, Agreed, ModesAgree
  <1> QED BY <1>1, LinkInv, PTL

(* A trace that is over and was cleaned up left no wide mode, fast mode, tap,
   timing or record behind, whatever failed and whatever probed or measured
   in between (dap_mcds.c's restore_link). *)
THEOREM LinkQuiet == Spec => []Quiet
  <1>1. Inv => Quiet
      BY DEF Inv, Good, Recall, Quiet
  <1> QED BY <1>1, LinkInv, PTL
=============================================================================
