--------------------------- MODULE TraceDrainProofs ---------------------------
(***************************************************************************)
(* The TRAM drain's type invariant, that no torn paragraph is published    *)
(* and that no gap is silent, for every size of the TRAM, of a paragraph,  *)
(* of a chain of block reads and of the output ring, and for every pace of *)
(* the writer.                                                             *)
(*                                                                         *)
(* The argument: a word of a chain is the paragraph's as long as the look  *)
(* at FIFONOW that follows its group has not reached the paragraph's place *)
(* again (BufOK); pass.moved is the distance of the looks from the start   *)
(* of the pass, counted modulo Total, which is the true one while no two   *)
(* looks are a lap apart (LooksOK); so the margin test of drain_to implies *)
(* the first.  What the host has or will get is told apart by StreamOK,    *)
(* which says of its last record what the next one must admit.             *)
(***************************************************************************)
EXTENDS TraceDrain, WellFoundedInduction, TLAPS

(***************************************************************************)
(* Division.                                                               *)
(***************************************************************************)
(* A quotient and a remainder. *)
LEMMA DivModOf ==
  ASSUME NEW n \in Nat, n > 0, NEW a \in Nat, NEW q, NEW r, q = a \div n, r = a % n
  PROVE  a = q * n + r /\ 0 <= r /\ r < n /\ q \in Nat
  BY SMTT(20)

(* The same, of the two expressions. *)
LEMMA DivMod ==
  ASSUME NEW n \in Nat \ {0}, NEW a \in Nat
  PROVE  a = (a \div n) * n + (a % n) /\ a \div n \in Nat /\ a % n \in 0 .. n - 1
  <1> DEFINE q == a \div n
             r == a % n
  <1>1. n \in Nat /\ n > 0 /\ r \in Int
      OBVIOUS
  <1>2. q = a \div n /\ r = a % n
      OBVIOUS
  <1> HIDE DEF q, r
  <1>3. a = q * n + r /\ 0 <= r /\ r < n /\ q \in Nat
      BY <1>1, <1>2, DivModOf
  <1>4. a = q * n + r /\ q \in Nat /\ r \in 0 .. n - 1
      BY <1>1, <1>3
  <1> QED BY <1>4 DEF q, r

(* A number has one quotient and one remainder. *)
LEMMA DivUnique ==
  ASSUME NEW n \in Nat \ {0}, NEW q \in Nat, NEW r \in 0 .. n - 1
  PROVE  (q * n + r) \div n = q /\ (q * n + r) % n = r
  <1> DEFINE a == q * n + r
  <1>0. q * n \in Nat
      OBVIOUS
  <1>1. a \in Nat
      BY <1>0
  <1>2. a = (a \div n) * n + (a % n) /\ a \div n \in Nat /\ a % n \in 0 .. n - 1
      BY <1>1, DivMod
  <1> HIDE DEF a
  <1>3. ASSUME NEW p \in Nat, NEW s \in 0 .. n - 1, p * n + s = q * n + r PROVE p = q
    <2>1. CASE p < q
      <3>1. p + 1 <= q
          BY <2>1
      <3>2. (p + 1) * n <= q * n
          BY <3>1
      <3>3. (p + 1) * n = p * n + n
          OBVIOUS
      <3> QED BY <1>3, <3>2, <3>3
    <2>2. CASE q < p
      <3>1. q + 1 <= p
          BY <2>2
      <3>2. (q + 1) * n <= p * n
          BY <3>1
      <3>3. (q + 1) * n = q * n + n
          OBVIOUS
      <3> QED BY <1>3, <3>2, <3>3
    <2> QED BY <2>1, <2>2
  <1>4. a \div n = q
      BY <1>2, <1>3 DEF a
  <1>5. a % n = r
      BY <1>2, <1>4 DEF a
  <1> QED BY <1>4, <1>5 DEF a

(* A larger number has no smaller quotient. *)
LEMMA DivMono ==
  ASSUME NEW n \in Nat \ {0}, NEW a \in Nat, NEW b \in Nat, a <= b
  PROVE  a \div n <= b \div n
  <1> DEFINE p == a \div n
             q == b \div n
             r == a % n
             s == b % n
  <1>1. a = p * n + r /\ p \in Nat /\ r \in 0 .. n - 1
      BY DivMod
  <1>2. b = q * n + s /\ q \in Nat /\ s \in 0 .. n - 1
      BY DivMod
  <1> HIDE DEF p, q, r, s
  <1>3. ASSUME q < p PROVE FALSE
    <2>1. (q + 1) * n <= p * n
        BY <1>1, <1>2, <1>3
    <2>2. (q + 1) * n = q * n + n
        BY <1>2
    <2> QED BY <1>1, <1>2, <2>1, <2>2
  <1>4. p <= q
      BY <1>1, <1>2, <1>3
  <1> QED BY <1>4 DEF p, q

(* A multiple bounds a number exactly when its factor bounds the quotient. *)
LEMMA DivLess ==
  ASSUME NEW n \in Nat \ {0}, NEW a \in Nat, NEW q \in Nat
  PROVE  a < q * n <=> a \div n < q
  <1> DEFINE p == a \div n
             r == a % n
  <1>1. a = p * n + r /\ p \in Nat /\ r \in 0 .. n - 1
      BY DivMod
  <1> HIDE DEF p, r
  <1>2. ASSUME p < q PROVE a < q * n
    <2>1. (p + 1) * n <= q * n
        BY <1>1, <1>2
    <2>2. (p + 1) * n = p * n + n
        BY <1>1
    <2> QED BY <1>1, <2>1, <2>2
  <1>3. ASSUME q <= p PROVE ~ (a < q * n)
    <2>1. q * n <= p * n
        BY <1>1, <1>3
    <2> QED BY <1>1, <2>1
  <1>4. a < q * n <=> p < q
      BY <1>1, <1>2, <1>3
  <1> QED BY <1>4 DEF p

(* Multiples keep the order of their factors. *)
LEMMA TimesMono ==
  ASSUME NEW n \in Nat, NEW a \in Nat, NEW b \in Nat, a <= b PROVE a * n <= b * n
  OBVIOUS

(* A remainder may be taken before adding. *)
LEMMA ModPlus ==
  ASSUME NEW n \in Nat \ {0}, NEW a \in Nat, NEW b \in Nat
  PROVE  ((a % n) + b) % n = (a + b) % n
  <1> DEFINE q == a \div n
             r == a % n
             p == (r + b) \div n
             s == (r + b) % n
  <1>1. a = q * n + r /\ q \in Nat /\ r \in 0 .. n - 1
      BY DivMod
  <1>2. r + b = p * n + s /\ p \in Nat /\ s \in 0 .. n - 1
    <2>1. r + b \in Nat
        BY <1>1
    <2> HIDE DEF r
    <2> QED BY <2>1, DivMod
  <1> HIDE DEF q, r, p, s
  <1>3. a + b = (q + p) * n + s /\ q + p \in Nat
      BY <1>1, <1>2
  <1>4. (a + b) % n = s
      BY <1>2, <1>3, DivUnique
  <1> QED BY <1>4 DEF s, r

(* The distance of two numbers less than n apart, from their remainders. *)
LEMMA Distance ==
  ASSUME NEW n \in Nat \ {0}, NEW a \in Nat, NEW b \in Nat, b <= a, a < b + n
  PROVE  ((a % n) + n - (b % n)) % n = a - b
  <1> DEFINE q == a \div n
             r == a % n
             p == b \div n
             s == b % n
  <1>1. a = q * n + r /\ q \in Nat /\ r \in 0 .. n - 1
      BY DivMod
  <1>2. b = p * n + s /\ p \in Nat /\ s \in 0 .. n - 1
      BY DivMod
  <1>3. p <= q
      BY DivMono
  <1> HIDE DEF q, r, p, s
  <1>4. q <= p + 1
    <2> SUFFICES ASSUME p + 2 <= q PROVE FALSE
        BY <1>1, <1>2
    <2>1. (p + 2) * n <= q * n
        BY <1>1, <1>2
    <2>2. (p + 2) * n = p * n + n + n
        BY <1>2
    <2> QED BY <1>1, <1>2, <2>1, <2>2
  <1>5. CASE q = p
    <2>1. r + n - s = 1 * n + (a - b) /\ a - b \in 0 .. n - 1
        BY <1>1, <1>2, <1>5
    <2>2. (1 * n + (a - b)) % n = a - b
        BY <2>1, DivUnique
    <2> QED BY <2>1, <2>2 DEF r, s
  <1>6. CASE q = p + 1
    <2>0. q * n = p * n + n
        BY <1>2, <1>6
    <2>1. r + n - s = 0 * n + (a - b) /\ a - b \in 0 .. n - 1
        BY <1>1, <1>2, <2>0
    <2>2. (0 * n + (a - b)) % n = a - b
        BY <2>1, DivUnique
    <2> QED BY <2>1, <2>2 DEF r, s
  <1> QED BY <1>1, <1>2, <1>3, <1>4, <1>5, <1>6

(* Two numbers less than n apart with one remainder are one number. *)
LEMMA SameMod ==
  ASSUME NEW n \in Nat \ {0}, NEW a \in Nat, NEW b \in Nat, b <= a, a < b + n, a % n = b % n
  PROVE  a = b
  <1>1. b % n \in Nat /\ (b % n) + n - (b % n) = 1 * n + 0
      BY DivMod
  <1>2. (1 * n + 0) % n = 0
      BY DivUnique
  <1>3. ((a % n) + n - (b % n)) % n = a - b
      BY Distance
  <1> QED BY <1>1, <1>2, <1>3

(* One more step crosses a multiple exactly when the remainder starts again. *)
LEMMA DivStep ==
  ASSUME NEW n \in Nat \ {0}, NEW a \in Nat
  PROVE  \/ (a + 1) \div n = a \div n /\ (a + 1) % n = (a % n) + 1
         \/ (a + 1) \div n = (a \div n) + 1 /\ (a + 1) % n = 0
  <1> DEFINE q == a \div n
             r == a % n
  <1>1. a = q * n + r /\ q \in Nat /\ r \in 0 .. n - 1
      BY DivMod
  <1> HIDE DEF q, r
  <1>2. CASE r + 1 < n
    <2>1. a + 1 = q * n + (r + 1) /\ r + 1 \in 0 .. n - 1
        BY <1>1, <1>2
    <2>2. (a + 1) \div n = q /\ (a + 1) % n = r + 1
        BY <1>1, <2>1, DivUnique
    <2> QED BY <2>2 DEF q, r
  <1>3. CASE r + 1 = n
    <2>0. (q + 1) * n = q * n + n
        BY <1>1
    <2>1. a + 1 = (q + 1) * n + 0 /\ q + 1 \in Nat /\ 0 \in 0 .. n - 1
        BY <1>1, <1>3, <2>0
    <2>2. ((q + 1) * n + 0) \div n = q + 1 /\ ((q + 1) * n + 0) % n = 0
        BY <2>1, DivUnique
    <2>3. (a + 1) \div n = q + 1 /\ (a + 1) % n = 0
        BY <2>1, <2>2
    <2> QED BY <2>3 DEF q, r
  <1> QED BY <1>1, <1>2, <1>3

(***************************************************************************)
(* The invariant.                                                          *)
(***************************************************************************)
(* What is assumed of the sizes, one by one. *)
LEMMA Constants ==
  /\ Total \in Nat \ {0} /\ 3 <= Total /\ Margin \in Nat \ {0} /\ Margin <= Total
  /\ Words \in Nat \ {0} /\ NowEvery \in Nat \ {0} /\ ChainPars \in Nat \ {0}
  /\ RingRecords \in Nat \ {0} /\ MaxWords \in Nat \ {0} /\ MaxFails \in Nat
  BY DrainAssumption

(* The locals of drain_to, and a record of the output ring. *)
PassType == [lost : Nat, toRead : Nat, margin : Nat, moved : Nat, prev : Nat,
             i : Nat, k : Nat, batch : Nat, now : Nat]

Record == [seq : Nat, par : Nat, lost : Nat, final : BOOLEAN, words : [1 .. Words -> Nat],
           num : Nat]

(* drain_to has paragraphs to read or to judge. *)
InPass == pc \in {"read", "judge"}

(* Types, and the TRAM index of the paragraph the drain is at. *)
Types ==
  /\ wrote \in 0 .. MaxWords /\ tracing \in BOOLEAN
  /\ pc \in {"poll", "read", "judge", "final", "stopped"} /\ finishing \in BOOLEAN
  /\ nextPar = nextAbs % Total /\ nextAbs \in Nat /\ pendingLost \in Nat /\ seq \in Nat
  /\ pass \in PassType /\ buf \in Seq(Nat) /\ samples \in Seq(Nat)
  /\ ring \in Seq(Record) /\ Len(ring) <= RingRecords /\ last \in Record \cup {NoRecord}
  /\ look \in Nat /\ look <= NowPar /\ overtaken \in BOOLEAN
  /\ nextAbs <= NowPar /\ \A g \in 1 .. Len(samples) : samples[g] <= NowPar

(* A pass reads from where the drain is up to the pointer it began with, by  *)
(* less than a lap; what it still has to read ends there.                    *)
PassOK ==
  IF InPass
  THEN /\ pass.toRead < Total /\ pass.i < pass.toRead /\ pass.margin = Total - pass.toRead
       /\ pass.batch \in 1 .. ChainPars /\ pass.k < pass.batch
       /\ pass.k <= pass.i /\ pass.k <= nextAbs
       /\ (pass.i - pass.k) + pass.batch <= pass.toRead
       /\ pass.now <= NowPar /\ pass.prev < Total
       /\ nextAbs + (pass.toRead - pass.i) <= pass.now
       /\ ~overtaken => nextAbs + (pass.toRead - pass.i) = pass.now
       /\ pc = "read" => pass.k = 0
  ELSE pass.batch = 0 /\ pass.i = 0 /\ pass.toRead = 0 /\ buf = <<>> /\ pass.now <= NowPar

(* FIFONOW follows each group of paragraphs, and the last. *)
ChainOK ==
  /\ pc = "read" =>
       /\ Len(samples) * NowEvery <= FullPars /\ Len(samples) * NowEvery < pass.batch
       /\ FullPars <= pass.batch /\ FullPars <= (Len(samples) + 1) * NowEvery
       /\ FullPars = pass.batch \/ FullPars = (Len(samples) + 1) * NowEvery
            => Len(buf) % Words = 0
  /\ pc = "judge" =>
       /\ Len(buf) = pass.batch * Words /\ pass.batch <= Len(samples) * NowEvery
       /\ samples # <<>> /\ (Len(samples) - 1) * NowEvery < pass.batch

(* Where a word of the chain comes from, and the look that judges it. *)
Par(j) == (j - 1) \div Words
Place(j) == (j - 1) % Words
Group(j) == (Par(j) \div NowEvery) + 1
Bound(g) == IF g <= Len(samples) THEN samples[g] ELSE NowPar
Base == nextAbs - pass.k

(* A word is the paragraph's if the writer has not reached the paragraph's   *)
(* place again by the look that follows it.                                  *)
BufOK ==
  InPass =>
    \A j \in 1 .. Len(buf) :
      Bound(Group(j)) < Base + Par(j) + Total => buf[j] = (Base + Par(j)) * Words + Place(j)

(* pass.moved is how far the pointer went since the pass began, up to the    *)
(* last look counted, as long as no two looks are a lap apart.               *)
Counted == pass.now + pass.moved

Near(a, b) == a <= b /\ b < a + Total

LooksOK ==
  InPass /\ ~overtaken =>
    /\ pass.prev = Counted % Total
    /\ \A g \in 1 .. Len(samples) - 1 : Near(samples[g], samples[g + 1])
    /\ look = IF samples = <<>> THEN Counted ELSE samples[Len(samples)]
    /\ pc = "read" /\ samples # <<>> => Near(Counted, samples[1])
    /\ pc = "judge" => IF pass.k % NowEvery = 0 THEN Near(Counted, GroupNow)
                                               ELSE Counted = GroupNow

(* A record on the way to the host: the words of one whole paragraph. *)
Intact(r, now) ==
  ~r.final => /\ r.num < now
              /\ \A w \in 1 .. Words : r.words[w] = r.num * Words + (w - 1)

(* Two records in a row: neighbours, or the host is told. *)
Told(r, s) == ~r.final /\ ~s.final => s.num = r.num + 1 \/ GapSeen(r, s)

(* What is lost and not yet on a record. *)
Lost == IF InPass THEN pass.lost ELSE pendingLost

(* The last record, and what a record would have to say that followed it.    *)
NextTold(r) ==
  ~r.final => /\ r.seq < seq
              /\ r.seq + 1 = seq => nextAbs = r.num + 1 \/ Lost > 0

(* The stream, from what the host took last to the end of the ring. *)
StreamOK ==
  /\ ~overtaken => \A j \in 1 .. Len(Stream) : Intact(Stream[j], NowPar)
  /\ \A j \in 1 .. Len(Stream) - 1 : Told(Stream[j], Stream[j + 1])
  /\ pc # "stopped" /\ Stream # <<>> => NextTold(Stream[Len(Stream)])

(* The inductive invariant. *)
DrainInv == Types /\ PassOK /\ ChainOK /\ BufOK /\ LooksOK /\ StreamOK

(***************************************************************************)
(* The trace unit's words and the stream.                                  *)
(***************************************************************************)
(* FIFONOW's paragraph is a number. *)
LEMMA NowParNat == ASSUME wrote \in Nat PROVE NowPar \in Nat
  BY Constants, DivMod DEF NowPar

(* The stream is the ring, after the record taken last if there is one. *)
LEMMA StreamSeq ==
  ASSUME ring \in Seq(Record), last \in Record \cup {NoRecord}
  PROVE  /\ Stream \in Seq(Record)
         /\ Len(Stream) = (IF last = NoRecord THEN 0 ELSE 1) + Len(ring)
         /\ \A j \in 1 .. Len(Stream) :
              Stream[j] = IF last = NoRecord THEN ring[j] ELSE IF j = 1 THEN last ELSE ring[j - 1]
  BY DEF Stream

(* A word of the TRAM is a word written, or none. *)
LEMMA TramWordNat ==
  ASSUME wrote \in 0 .. MaxWords, NEW p, NEW w
  PROVE  TramWord(p, w) \in Nat
  <1> DEFINE S == {x \in 0 .. wrote - 1 : x % Words = w /\ (x \div Words) % Total = p}
             D == {wrote - x : x \in S}
  <1>1. CASE S = {}
      BY <1>1, Constants DEF TramWord, NoWord
  <1>2. CASE S # {}
    <2>1. D \in SUBSET Nat /\ D # {}
        BY <1>2
    <2>2. PICK d \in D : \A e \in D : ~ (<<e, d>> \in OpToRel(<, Nat))
        BY <2>1, NatLessThanWellFounded, WFMin
    <2>3. PICK x \in S : d = wrote - x
        BY <2>2
    <2>4. \A y \in S : y <= x
      <3> TAKE y \in S
      <3>1. wrote - y \in D /\ wrote - y \in Nat /\ d \in Nat
          BY <2>1
      <3>2. ~ (wrote - y < d)
          BY <2>2, <3>1 DEF OpToRel
      <3> QED BY <2>3, <3>2
    <2>5. (CHOOSE z \in S : \A y \in S : y <= z) \in S
        BY <2>4
    <2>6. TramWord(p, w) = CHOOSE z \in S : \A y \in S : y <= z
        BY <1>2 DEF TramWord
    <2> QED BY <2>5, <2>6
  <1> QED BY <1>1, <1>2

(* A word of a paragraph that is complete and not yet overwritten. *)
LEMMA TramWordIs ==
  ASSUME wrote \in 0 .. MaxWords, NEW P \in Nat, P < NowPar, NowPar < P + Total,
         NEW w \in 0 .. Words - 1
  PROVE  TramWord(P % Total, w) = P * Words + w
  <1> DEFINE S == {x \in 0 .. wrote - 1 : x % Words = w /\ (x \div Words) % Total = P % Total}
             a == P * Words + w
  <1>1. a \in Nat /\ a \div Words = P /\ a % Words = w
      BY Constants, DivUnique
  <1>2. a \in S
    <2>1. a < wrote
      <3>1. CASE wrote <= a
        <4>1. wrote \div Words <= a \div Words
            BY <1>1, <3>1, Constants, DivMono
        <4> QED BY <1>1, <4>1, NowParNat DEF NowPar
      <3> QED BY <1>1, <3>1
    <2> QED BY <1>1, <2>1
  <1>3. ASSUME NEW x \in S PROVE x <= a
    <2> DEFINE p == x \div Words
    <2>1. x = p * Words + w /\ p \in Nat /\ p <= NowPar /\ p % Total = P % Total
      <3>1. x <= wrote /\ x \in Nat /\ x % Words = w /\ (x \div Words) % Total = P % Total
          BY <1>3
      <3> HIDE DEF S
      <3>2. x = (x \div Words) * Words + (x % Words) /\ x \div Words \in Nat
          BY <3>1, Constants, DivMod
      <3>3. x \div Words <= wrote \div Words
          BY <3>1, Constants, DivMono
      <3> QED BY <3>1, <3>2, <3>3 DEF NowPar
    <2> HIDE DEF p
    <2>2. p <= P
      <3>1. CASE P <= p
        <4>1. p < P + Total
            BY <2>1, NowParNat, Constants
        <4> QED BY <2>1, <3>1, <4>1, Constants, SameMod
      <3> QED BY <2>1, <3>1
    <2>3. p * Words <= P * Words
        BY <2>1, <2>2, Constants
    <2> QED BY <2>1, <2>3, Constants
  <1>4. ASSUME NEW z \in S, \A y \in S : y <= z PROVE z = a
    <2>1. z <= a /\ a <= z /\ z \in Nat
        BY <1>2, <1>3, <1>4
    <2> QED BY <1>1, <2>1
  <1>5. (CHOOSE z \in S : \A y \in S : y <= z) = a
      BY <1>2, <1>3, <1>4
  <1>6. TramWord(P % Total, w) = CHOOSE z \in S : \A y \in S : y <= z
      BY <1>2 DEF TramWord
  <1> QED BY <1>5, <1>6

(* The words of a chain are its full paragraphs and what follows them. *)
LEMMA FullParsIs ==
  ASSUME buf \in Seq(Nat)
  PROVE  /\ FullPars \in Nat /\ Len(buf) \in Nat
         /\ Len(buf) = FullPars * Words + (Len(buf) % Words)
         /\ Len(buf) % Words \in 0 .. Words - 1
  <1>1. Len(buf) \in Nat
      OBVIOUS
  <1> QED BY <1>1, Constants, DivMod DEF FullPars

(* The words of a paragraph of the chain. *)
LEMMA PlaceOf ==
  ASSUME NEW k \in Nat, NEW w \in 1 .. Words
  PROVE  Par(k * Words + w) = k /\ Place(k * Words + w) = w - 1
  <1>1. k * Words + w - 1 = k * Words + (w - 1) /\ w - 1 \in 0 .. Words - 1 /\ k * Words \in Nat
      BY Constants
  <1>2. (k * Words + (w - 1)) \div Words = k /\ (k * Words + (w - 1)) % Words = w - 1
      BY <1>1, Constants, DivUnique
  <1> QED BY <1>1, <1>2 DEF Par, Place

-----------------------------------------------------------------------------
(* The stream, when no record is added. *)
LEMMA StreamStays ==
  ASSUME Types, StreamOK, UNCHANGED <<ring, last, seq>>, overtaken => overtaken',
         wrote' \in Nat, NowPar <= NowPar',
         pc' # "stopped" => /\ pc # "stopped"
                            /\ Lost' > 0 \/ (nextAbs' = nextAbs /\ (Lost > 0 => Lost' > 0))
  PROVE  StreamOK'
  <1>1. Stream' = Stream /\ Stream \in Seq(Record)
      BY StreamSeq DEF Types, Stream
  <1>2. NowPar \in Nat /\ NowPar' \in Nat
    <2>1. wrote \in Nat /\ wrote' \in Nat
        BY Constants DEF Types
    <2> QED BY <2>1, Constants, DivMod DEF NowPar
  <1>3. ASSUME ~overtaken', NEW j \in 1 .. Len(Stream) PROVE Intact(Stream[j], NowPar')
    <2>1. Intact(Stream[j], NowPar)
        BY <1>3 DEF StreamOK
    <2>2. Stream[j] \in Record
        BY <1>1
    <2> QED BY <1>2, <2>1, <2>2 DEF Intact, Record
  <1>4. \A j \in 1 .. Len(Stream) - 1 : Told(Stream[j], Stream[j + 1])
      BY DEF StreamOK
  <1>5. ASSUME pc' # "stopped", Stream # <<>> PROVE NextTold(Stream[Len(Stream)])'
    <2>1. NextTold(Stream[Len(Stream)])
        BY <1>5 DEF StreamOK
    <2> QED BY <1>1, <1>5, <2>1 DEF NextTold
  <1> QED BY <1>1, <1>3, <1>4, <1>5 DEF StreamOK

(* publish_flags: the record that follows the last tells of what is missing. *)
LEMMA StreamPublished ==
  ASSUME Types, StreamOK, NEW r \in Record, Publish(r), UNCHANGED <<last, wrote, overtaken>>,
         pc # "stopped", r.seq = seq,
         r.final \/ (r.num = nextAbs /\ r.lost = Lost),
         r.final => pc' = "stopped",
         ~overtaken => Intact(r, NowPar),
         ~r.final => nextAbs' = r.num + 1 /\ nextAbs' \in Nat
  PROVE  StreamOK' /\ ring' \in Seq(Record) /\ Len(ring') <= RingRecords
  <1> DEFINE n == Len(Stream)
  <1>1. ring \in Seq(Record) /\ Len(ring) <= RingRecords /\ Len(ring) \in Nat /\ seq \in Nat
      BY DEF Types
  <1>2. Stream \in Seq(Record) /\ n \in Nat
      BY StreamSeq DEF Types
  <1>3. NowPar' = NowPar
      BY DEF NowPar
  <1>4. n > 0 => NextTold(Stream[n])
      BY <1>2 DEF StreamOK
  <1>5. CASE Len(ring) < RingRecords
    <2>1. ring' = Append(ring, r) /\ seq' = seq + 1
        BY <1>5 DEF Publish
    <2>2. Stream' = Append(Stream, r)
        BY <1>1, <2>1 DEF Stream
    <2>3. Stream' \in Seq(Record) /\ Len(Stream') = n + 1
          /\ Stream'[n + 1] = r /\ \A j \in 1 .. n : Stream'[j] = Stream[j]
        BY <1>2, <2>2
    <2> HIDE DEF n
    <2>4. ~overtaken' => \A j \in 1 .. Len(Stream') : Intact(Stream'[j], NowPar)
      <3> SUFFICES ASSUME ~overtaken, NEW j \in 1 .. n + 1 PROVE Intact(Stream'[j], NowPar)
          BY <2>3
      <3>1. CASE j = n + 1
          BY <1>3, <2>3, <3>1 DEF Intact
      <3>2. CASE j \in 1 .. n
        <4>1. Intact(Stream[j], NowPar)
            BY <3>2 DEF StreamOK, n
        <4> QED BY <1>3, <2>3, <3>2, <4>1 DEF Intact
      <3> QED BY <1>2, <3>1, <3>2
    <2>5. \A j \in 1 .. n : Told(Stream'[j], Stream'[j + 1])
      <3> TAKE j \in 1 .. n
      <3>1. CASE j = n
        <4>1. NextTold(Stream[n])
            BY <1>2, <1>4, <3>1
        <4>2. Stream[n] \in Record
            BY <1>2, <3>1 DEF n
        <4> QED BY <1>1, <2>3, <3>1, <4>1, <4>2 DEF NextTold, Told, GapSeen, Record
      <3>2. CASE j \in 1 .. n - 1
        <4>1. Told(Stream[j], Stream[j + 1])
            BY <3>2 DEF StreamOK, n
        <4>2. j + 1 \in 1 .. n /\ j \in 1 .. n
            BY <1>2, <3>2
        <4> QED BY <2>3, <4>1, <4>2
      <3> QED BY <1>2, <3>1, <3>2
    <2>6. pc' # "stopped" => NextTold(Stream[Len(Stream)])'
      <3> SUFFICES ASSUME ~r.final PROVE NextTold(Stream[Len(Stream)])'
          OBVIOUS
      <3>1. r.seq + 1 = seq' /\ nextAbs' = r.num + 1 /\ r.seq < seq'
          BY <1>1, <2>1
      <3>2. Stream'[Len(Stream')] = r
          BY <2>3
      <3> QED BY <3>1, <3>2 DEF NextTold
    <2>7. Len(Stream') - 1 = n
        BY <1>2, <2>3
    <2>8. StreamOK'
        BY <1>3, <2>4, <2>5, <2>6, <2>7 DEF StreamOK
    <2>9. ring' \in Seq(Record) /\ Len(ring') = Len(ring) + 1
        BY <1>1, <2>1
    <2> QED BY <1>1, <1>5, <2>8, <2>9, Constants
  <1>6. CASE ~(Len(ring) < RingRecords)
    <2>1. ring' = ring /\ seq' = seq + 1
        BY <1>6 DEF Publish
    <2>2. Stream' = Stream
        BY <2>1 DEF Stream
    <2> HIDE DEF n
    <2>3. ~overtaken' => \A j \in 1 .. n : Intact(Stream[j], NowPar)
      <3> SUFFICES ASSUME ~overtaken, NEW j \in 1 .. n PROVE Intact(Stream'[j], NowPar)
          BY <2>2
      <3>1. Intact(Stream[j], NowPar)
          BY DEF StreamOK, n
      <3> QED BY <1>3, <2>2, <3>1 DEF Intact
    <2>4. \A j \in 1 .. n - 1 : Told(Stream'[j], Stream'[j + 1])
        BY <2>2 DEF StreamOK, n
    <2>5. n > 0 => NextTold(Stream[Len(Stream)])'
      <3> SUFFICES ASSUME n > 0 PROVE NextTold(Stream[Len(Stream)])'
          OBVIOUS
      <3>1. Stream[n] \in Record
          BY <1>2 DEF n
      <3>2. Stream[n].final \/ (Stream[n].seq < seq /\ Stream[n].seq \in Nat)
          BY <1>4, <3>1 DEF NextTold, Record
      <3>3. Stream[n].final \/ (Stream[n].seq < seq' /\ Stream[n].seq + 1 # seq')
          BY <1>1, <2>1, <3>2
      <3> QED BY <2>2, <3>3 DEF NextTold, n
    <2>6. Len(Stream') = n /\ (Stream' # <<>> => n > 0)
        BY <1>2, <2>2 DEF n
    <2>7. StreamOK'
        BY <1>3, <2>2, <2>3, <2>4, <2>5, <2>6 DEF StreamOK
    <2> QED BY <1>1, <2>1, <2>7
  <1> QED BY <1>1, <1>5, <1>6, Constants

(* The place of a word in a chain. *)
LEMMA GroupIs ==
  ASSUME NEW j \in Nat \ {0} PROVE Par(j) \in Nat /\ Place(j) \in Nat /\ Group(j) \in Nat \ {0}
  <1>1. Par(j) \in Nat /\ Place(j) \in Nat
    <2>1. j - 1 \in Nat
        OBVIOUS
    <2> QED BY <2>1, Constants, DivMod DEF Par, Place
  <1>2. Par(j) \div NowEvery \in Nat
      BY <1>1, Constants, DivMod
  <1> QED BY <1>1, <1>2 DEF Group

(***************************************************************************)
(* Every step keeps the invariant.                                         *)
(***************************************************************************)
(* trace_begin. *)
LEMMA DrainInit == Init => DrainInv
  <1> SUFFICES ASSUME Init PROVE DrainInv
      OBVIOUS
  <1>1. NowPar = 0 /\ 0 % Total = 0
    <2>1. (0 * Words + 0) \div Words = 0 /\ (0 * Total + 0) % Total = 0
        BY Constants, DivUnique
    <2> QED BY <2>1, Constants DEF Init, NowPar
  <1>2. Types
    <2>1. pass \in PassType
        BY DEF Init, NoPass, PassType
    <2>2. last \in Record \cup {NoRecord} /\ ring \in Seq(Record) /\ Len(ring) = 0
        BY DEF Init
    <2>3. buf \in Seq(Nat) /\ samples \in Seq(Nat) /\ Len(samples) = 0
        BY DEF Init
    <2>4. nextPar = nextAbs % Total /\ nextAbs = 0 /\ look = 0
        BY <1>1 DEF Init
    <2>5. tracing \in BOOLEAN /\ finishing \in BOOLEAN /\ overtaken \in BOOLEAN
        BY DEF Init
    <2>6. wrote \in 0 .. MaxWords /\ pc = "poll" /\ pendingLost = 0 /\ seq = 0
        BY Constants DEF Init
    <2> QED BY <1>1, <2>1, <2>2, <2>3, <2>4, <2>5, <2>6, Constants DEF Types
  <1>3. Stream = <<>>
      BY DEF Init, Stream
  <1>4. StreamOK
      BY <1>3 DEF StreamOK
  <1> QED BY <1>1, <1>2, <1>4, Constants
          DEF Init, DrainInv, PassOK, ChainOK, BufOK, LooksOK, InPass, NoPass

(* The numbers of paragraphs the lemmas on steps are about. *)
LEMMA NowBound == Types => NowPar \in Nat /\ wrote \in Nat /\ nextAbs \in Nat
  <1> SUFFICES ASSUME Types PROVE NowPar \in Nat /\ wrote \in Nat /\ nextAbs \in Nat
      OBVIOUS
  <1>1. wrote \in Nat /\ nextAbs \in Nat
      BY Constants DEF Types
  <1> QED BY <1>1, NowParNat

(* A step of the target, or one that leaves the drain alone. *)
LEMMA DrainLeft ==
  ASSUME DrainInv,
         UNCHANGED <<pc, finishing, nextPar, pendingLost, seq, pass, chain, ring, last,
                     look, nextAbs, overtaken>>,
         tracing' \in BOOLEAN, wrote' \in 0 .. MaxWords, wrote <= wrote'
  PROVE  DrainInv'
  <1> USE DEF chain
  <1>1. NowPar \in Nat /\ NowPar' \in Nat /\ NowPar <= NowPar'
    <2>1. wrote \in Nat /\ wrote' \in Nat
        BY Constants DEF DrainInv, Types
    <2> QED BY <2>1, Constants, DivMod, DivMono DEF NowPar
  <1>2. Types'
    <2>1. \A g \in 1 .. Len(samples) : samples[g] <= NowPar'
      <3> TAKE g \in 1 .. Len(samples)
      <3>1. samples[g] <= NowPar /\ samples[g] \in Nat
          BY DEF DrainInv, Types
      <3> QED BY <1>1, <3>1
    <2>2. nextAbs <= NowPar'
        BY <1>1 DEF DrainInv, Types
    <2>3. look \in Nat /\ look <= NowPar'
        BY <1>1 DEF DrainInv, Types
    <2> QED BY <2>1, <2>2, <2>3 DEF DrainInv, Types
  <1>3. PassOK'
    <2>1. pass.now \in Nat /\ pass.now <= NowPar
        BY DEF DrainInv, Types, PassOK, PassType
    <2>2. pass.now <= NowPar'
        BY <1>1, <2>1
    <2> QED BY <2>2 DEF DrainInv, PassOK, InPass
  <1>4. ChainOK' /\ LooksOK'
      BY DEF DrainInv, ChainOK, LooksOK, FullPars, InPass, Counted, GroupNow
  <1>5. BufOK'
    <2> SUFFICES ASSUME InPass, NEW j \in 1 .. Len(buf), Bound(Group(j))' < Base + Par(j) + Total
                 PROVE  buf[j] = (Base + Par(j)) * Words + Place(j)
        BY DEF BufOK, InPass, Base
    <2>1. Base \in Int /\ Par(j) \in Nat /\ Group(j) \in Nat \ {0}
      <3>1. j \in Nat \ {0} /\ nextAbs \in Nat /\ pass.k \in Nat
          BY DEF DrainInv, Types, PassType
      <3> QED BY <3>1, GroupIs DEF Base
    <2>2. Bound(Group(j)) <= Bound(Group(j))' /\ Bound(Group(j)) \in Nat /\ Bound(Group(j))' \in Nat
      <3>1. samples \in Seq(Nat)
          BY DEF DrainInv, Types
      <3> QED BY <1>1, <2>1, <3>1 DEF Bound
    <2>3. Bound(Group(j)) < Base + Par(j) + Total
        BY <2>1, <2>2, Constants
    <2> QED BY <2>3 DEF DrainInv, BufOK
  <1>6. StreamOK'
      BY <1>1, StreamStays DEF DrainInv, Lost, InPass
  <1> QED BY <1>2, <1>3, <1>4, <1>5, <1>6 DEF DrainInv

(* The trace unit writes a word, or is flushed. *)
LEMMA TargetKeeps == ASSUME DrainInv, WriteWord \/ Flush PROVE DrainInv'
  <1>1. CASE WriteWord
    <2>1. wrote \in 0 .. MaxWords /\ tracing \in BOOLEAN
        BY DEF DrainInv, Types
    <2>2. wrote' \in 0 .. MaxWords /\ wrote <= wrote' /\ tracing' \in BOOLEAN
        BY <1>1, <2>1, Constants DEF WriteWord
    <2> QED BY <1>1, <2>2, DrainLeft DEF WriteWord, seen
  <1>2. CASE Flush
    <2>1. wrote \in 0 .. MaxWords /\ tracing \in BOOLEAN
        BY DEF DrainInv, Types
    <2>2. wrote' \in 0 .. MaxWords /\ wrote <= wrote' /\ tracing' \in BOOLEAN
      <3>1. tracing' = FALSE /\ wrote' = wrote
          BY <1>2 DEF Flush
      <3>2. tracing' \in BOOLEAN
          BY <3>1
      <3>3. wrote <= wrote
          BY <2>1, Constants
      <3> QED BY <2>1, <3>1, <3>2, <3>3
    <2> QED BY <1>2, <2>2, DrainLeft DEF Flush, seen
  <1> QED BY <1>1, <1>2

-----------------------------------------------------------------------------
(* What waits for a pointer is how far it is ahead, or less when it is a lap *)
(* ahead; the pass leaves out what it skips.                                 *)
LEMMA AvailableIs ==
  ASSUME Types
  PROVE  /\ Available(NowPar) \in 0 .. Total - 1 /\ Available(NowPar) <= NowPar - nextAbs
         /\ NowPar - nextAbs < Total => Available(NowPar) = NowPar - nextAbs
  <1> DEFINE A == Available(NowPar)
  <1>1. NowPar \in Nat /\ nextAbs \in Nat /\ nextAbs <= NowPar
      BY NowBound DEF Types
  <1>2. nextPar = nextAbs % Total /\ nextAbs % Total \in 0 .. Total - 1
        /\ NowPar % Total \in 0 .. Total - 1
      BY <1>1, Constants, DivMod DEF Types
  <1>3. A \in 0 .. Total - 1
    <2>1. (NowPar % Total) + Total - nextPar \in Nat
        BY <1>2, Constants
    <2> QED BY <2>1, Constants, DivMod DEF Available
  <1>4. ASSUME NowPar - nextAbs < Total PROVE A = NowPar - nextAbs
    <2>1. NowPar < nextAbs + Total
        BY <1>1, <1>4, Constants
    <2>2. ((NowPar % Total) + Total - (nextAbs % Total)) % Total = NowPar - nextAbs
      <3>1. Total \in Nat \ {0} /\ NowPar \in Nat /\ nextAbs \in Nat /\ nextAbs <= NowPar
          BY <1>1, Constants
      <3> QED BY <2>1, <3>1, Distance, Zenon
    <2> QED BY <1>2, <2>2 DEF Available
  <1> HIDE DEF A
  <1>5. A <= NowPar - nextAbs
      BY <1>1, <1>3, <1>4, Constants
  <1> QED BY <1>3, <1>4, <1>5 DEF A

(* What is skipped is part of what waits. *)
LEMMA SkipIs ==
  ASSUME Types
  PROVE  /\ SkipLap(NowPar) + SkipMargin(NowPar) \in 0 .. Available(NowPar)
         /\ Available(NowPar) - (SkipLap(NowPar) + SkipMargin(NowPar)) \in 0 .. Total - 1
  <1> DEFINE A == Available(NowPar)
             L == SkipLap(NowPar)
             M == SkipMargin(NowPar)
  <1>1. A \in 0 .. Total - 1
      BY AvailableIs
  <1>2. L = 0 \/ L = A
      BY DEF SkipLap
  <1>3. M = IF (A - L) + Margin > Total THEN (A - L) + Margin - Total ELSE 0
      BY DEF SkipMargin
  <1> HIDE DEF A, L, M
  <1>4. L + M \in 0 .. A /\ A - (L + M) \in 0 .. Total - 1
      BY <1>1, <1>2, <1>3, Constants
  <1> QED BY <1>4 DEF A, L, M

(* A chain reads no more than is left. *)
LEMMA BatchIs ==
  ASSUME NEW n \in Nat
  PROVE  /\ Least(n, ChainPars) \in 0 .. ChainPars /\ Least(n, ChainPars) <= n
         /\ n > 0 => Least(n, ChainPars) \in 1 .. ChainPars
  BY Constants DEF Least

(* The start of a pass. *)
LEMMA StartKeeps ==
  ASSUME DrainInv, pc = "poll", finishing' \in BOOLEAN, StartPass(NowPar)
  PROVE  DrainInv'
  <1> DEFINE skipped == SkipLap(NowPar) + SkipMargin(NowPar)
             A == Available(NowPar)
             toRead == A - skipped
  <1>1. Types /\ NowPar \in Nat /\ nextAbs \in Nat /\ nextAbs <= NowPar /\ wrote \in Nat
      BY NowBound DEF DrainInv, Types
  <1>2. skipped \in 0 .. A /\ A \in 0 .. Total - 1 /\ toRead \in 0 .. Total - 1 /\ A <= NowPar - nextAbs
      BY <1>1, SkipIs, AvailableIs
  <1>3. NowPar - nextAbs < Total => A = NowPar - nextAbs
      BY <1>1, AvailableIs
  <1>4. /\ overtaken' = (overtaken \/ NowPar - nextAbs >= Total)
        /\ look' = NowPar
        /\ nextPar' = (nextPar + skipped) % Total
        /\ nextAbs' = nextAbs + skipped
        /\ pass' = [NoPass EXCEPT !.lost = pendingLost + skipped, !.toRead = toRead,
                                  !.margin = Total - toRead, !.prev = NowPar % Total,
                                  !.now = NowPar, !.batch = Least(toRead, ChainPars)]
        /\ buf' = <<>> /\ samples' = <<>>
        /\ UNCHANGED <<wrote, tracing, seq, ring, last>>
      BY DEF StartPass, ParAfter, target
  <1>5. \/ toRead = 0 /\ pendingLost' = pendingLost + skipped /\ pc' \in {"final", "poll"}
        \/ toRead > 0 /\ pc' = "read" /\ pendingLost' = pendingLost
      BY <1>2 DEF StartPass
  <1>6. Least(toRead, ChainPars) \in 0 .. ChainPars /\ Least(toRead, ChainPars) <= toRead
        /\ (toRead > 0 => Least(toRead, ChainPars) \in 1 .. ChainPars)
        /\ (toRead = 0 => Least(toRead, ChainPars) = 0)
      BY <1>2, BatchIs
  <1> DEFINE batch == Least(toRead, ChainPars)
  <1> HIDE DEF skipped, toRead, A, batch
  <1>7. pass' = [lost |-> pendingLost + skipped, toRead |-> toRead, margin |-> Total - toRead,
                 moved |-> 0, prev |-> NowPar % Total, i |-> 0, k |-> 0, batch |-> batch,
                 now |-> NowPar]
      BY <1>4 DEF NoPass, batch
  <1> DEFINE after == pass'
  <1>70. /\ after.toRead = toRead /\ after.margin = Total - toRead /\ after.i = 0 /\ after.k = 0
         /\ after.batch = batch /\ after.now = NowPar /\ after.prev = NowPar % Total
      BY <1>7
  <1> HIDE DEF after
  <1>8. NowPar' = NowPar
      BY <1>4 DEF NowPar
  <1>9. pendingLost \in Nat /\ pendingLost + skipped \in Nat /\ nextAbs' \in Nat /\ nextAbs' <= NowPar
        /\ nextPar' = nextAbs' % Total /\ NowPar % Total \in 0 .. Total - 1
    <2>1. pendingLost \in Nat /\ nextPar = nextAbs % Total
        BY <1>1 DEF Types
    <2>2. ((nextAbs % Total) + skipped) % Total = (nextAbs + skipped) % Total
      <3>1. skipped \in Nat
          BY <1>2
      <3> QED BY <1>1, <3>1, Constants, ModPlus
    <2>3. NowPar % Total \in 0 .. Total - 1
        BY <1>1, Constants, DivMod
    <2> QED BY <1>1, <1>2, <1>4, <2>1, <2>2, <2>3
  <1>10. Types'
    <2>1. pass' \in PassType
        BY <1>1, <1>2, <1>6, <1>7, <1>9, Constants DEF PassType, batch
    <2>2. look' \in Nat /\ overtaken' \in BOOLEAN /\ pendingLost' \in Nat
        BY <1>1, <1>4, <1>5, <1>9
    <2>3. look' <= NowPar' /\ nextAbs' <= NowPar'
        BY <1>1, <1>4, <1>8, <1>9
    <2>4. samples' \in Seq(Nat) /\ buf' \in Seq(Nat) /\ Len(samples') = 0
        BY <1>4
    <2>5. pc' \in {"poll", "read", "judge", "final", "stopped"} /\ finishing' \in BOOLEAN
        BY <1>5
    <2> QED BY <1>1, <1>4, <1>9, <2>1, <2>2, <2>3, <2>4, <2>5 DEF Types
  <1>11. PassOK'
    <2>1. CASE pc' = "read"
      <3>1. toRead > 0
          BY <1>5, <2>1
      <3>2. nextAbs' + toRead = nextAbs + A
          BY <1>1, <1>2, <1>4 DEF toRead
      <3>3. nextAbs' + toRead <= NowPar /\ (~overtaken' => nextAbs' + toRead = NowPar)
        <4>1. nextAbs' + toRead <= NowPar
            BY <1>1, <1>2, <3>2
        <4>2. ASSUME ~overtaken' PROVE nextAbs' + toRead = NowPar
          <5>1. ~(NowPar - nextAbs >= Total)
              BY <1>4, <4>2
          <5>2. NowPar - nextAbs < Total
              BY <1>1, <5>1, Constants
          <5> QED BY <1>1, <1>3, <3>2, <5>2
        <4> QED BY <4>1, <4>2
      <3>4. batch \in 1 .. ChainPars /\ batch <= toRead
          BY <1>6, <3>1 DEF batch
      <3>5. /\ after.toRead < Total /\ after.i < after.toRead /\ after.k < after.batch
            /\ after.k <= after.i /\ after.k <= nextAbs'
            /\ (after.i - after.k) + after.batch <= after.toRead /\ after.prev < Total
          BY <1>2, <1>9, <1>70, <3>1, <3>4, Constants
      <3>6. after.now <= NowPar' /\ nextAbs' + (after.toRead - after.i) <= after.now
            /\ (~overtaken' => nextAbs' + (after.toRead - after.i) = after.now)
        <4>1. toRead \in Nat
            BY <1>2
        <4>2. after.now <= NowPar'
            BY <1>1, <1>8, <1>70
        <4>3. nextAbs' + (after.toRead - after.i) = nextAbs' + toRead
            BY <1>9, <1>70, <4>1
        <4> QED BY <1>70, <3>3, <4>2, <4>3
      <3>7. InPass' /\ after.margin = Total - after.toRead /\ after.batch \in 1 .. ChainPars /\ after.k = 0
          BY <1>70, <2>1, <3>4 DEF InPass
      <3> QED BY <3>5, <3>6, <3>7, Zenon DEF PassOK, after
    <2>2. CASE pc' \in {"final", "poll"}
      <3>1. toRead = 0 /\ batch = 0
          BY <1>5, <1>6, <2>2 DEF batch
      <3>2. ~InPass'
          BY <2>2 DEF InPass
      <3>3. NowPar <= NowPar'
          BY <1>1, <1>8
      <3> QED BY <1>4, <1>70, <3>1, <3>2, <3>3 DEF PassOK, after
    <2> QED BY <1>5, <2>1, <2>2
  <1>12. ChainOK'
    <2> SUFFICES ASSUME pc' = "read" PROVE ChainOK'
        BY <1>5 DEF ChainOK
    <2>1. batch \in Nat /\ 0 < batch /\ pass'.batch = batch
        BY <1>5, <1>6, <1>7, Constants DEF batch
    <2>2. FullPars' = 0 /\ Len(buf') % Words = 0
      <3>1. (0 * Words + 0) \div Words = 0 /\ (0 * Words + 0) % Words = 0
          BY Constants, DivUnique
      <3> QED BY <1>4, <3>1, Constants DEF FullPars
    <2>3. Len(samples') = 0 /\ 0 * NowEvery = 0 /\ (0 + 1) * NowEvery = NowEvery
        BY <1>4, Constants
    <2> QED BY <2>1, <2>2, <2>3, Constants DEF ChainOK
  <1>13. BufOK'
      BY <1>4 DEF BufOK
  <1>14. LooksOK'
    <2>1. Counted' = NowPar
        BY <1>1, <1>7 DEF Counted
    <2> QED BY <1>4, <1>5, <1>7, <2>1 DEF LooksOK
  <1>15. StreamOK'
    <2>1. Lost = pendingLost /\ Lost' = pendingLost + skipped
        BY <1>5, <1>7 DEF Lost, InPass
    <2>2. Lost' > 0 \/ (nextAbs' = nextAbs /\ (Lost > 0 => Lost' > 0))
        BY <1>1, <1>2, <1>4, <1>9, <2>1
    <2>3. wrote' \in Nat /\ NowPar <= NowPar' /\ (overtaken => overtaken')
      <3>1. overtaken => overtaken'
          BY <1>4
      <3>2. wrote' \in Nat /\ NowPar <= NowPar'
          BY <1>1, <1>4, <1>8
      <3> QED BY <3>1, <3>2
    <2>4. pc # "stopped"
        OBVIOUS
    <2>5. UNCHANGED <<ring, last, seq>>
        BY <1>4
    <2> QED BY <2>2, <2>3, <2>4, <2>5, StreamStays DEF DrainInv
  <1> QED BY <1>10, <1>11, <1>12, <1>13, <1>14, <1>15 DEF DrainInv

(* The finish comes upon the task's pass: the drain's part ends. *)
LEMMA FinishBesideKeeps == ASSUME DrainInv, FinishBeside PROVE DrainInv'
  <1>1. /\ UNCHANGED <<wrote, tracing, nextPar, pendingLost, seq, ring, last, look, nextAbs,
                       overtaken>>
        /\ finishing' = TRUE /\ pc' = "stopped" /\ pass' = NoPass
        /\ buf' = <<>> /\ samples' = <<>>
      BY DEF FinishBeside, target, seen
  <1>2. NowPar' = NowPar /\ ~InPass' /\ NowPar \in Nat /\ wrote \in Nat
      BY <1>1, NowBound DEF DrainInv, NowPar, InPass
  <1>3. NoPass \in PassType
      BY DEF NoPass, PassType
  <1>4. Types'
      BY <1>1, <1>2, <1>3 DEF DrainInv, Types
  <1>5. PassOK' /\ ChainOK' /\ BufOK' /\ LooksOK'
      BY <1>1, <1>2 DEF PassOK, ChainOK, BufOK, LooksOK, NoPass
  <1>6. StreamOK'
      BY <1>1, <1>2, StreamStays DEF DrainInv
  <1> QED BY <1>4, <1>5, <1>6 DEF DrainInv

(* FIFONOW itself cannot be read. *)
LEMMA NowFailKeeps == ASSUME DrainInv, NowFail PROVE DrainInv'
  <1>1. UNCHANGED <<wrote, tracing, finishing, nextPar, pendingLost, seq, pass, buf, samples,
                    ring, last, look, nextAbs, overtaken>>
        /\ pc = "poll" /\ pc' \in {"poll", "stopped"}
      BY DEF NowFail, target, chain
  <1>2. NowPar' = NowPar /\ FullPars' = FullPars /\ ~InPass /\ ~InPass'
      BY <1>1 DEF NowPar, FullPars, InPass
  <1>3. Types'
      BY <1>1, <1>2 DEF DrainInv, Types
  <1>4. PassOK' /\ ChainOK' /\ BufOK' /\ LooksOK'
      BY <1>1, <1>2 DEF DrainInv, PassOK, ChainOK, BufOK, LooksOK
  <1>5. StreamOK'
    <2>1. Lost' = Lost
        BY <1>1, <1>2 DEF Lost
    <2>2. NowPar \in Nat /\ wrote \in Nat
        BY NowBound DEF DrainInv
    <2> QED BY <1>1, <1>2, <2>1, <2>2, StreamStays DEF DrainInv
  <1> QED BY <1>3, <1>4, <1>5 DEF DrainInv

-----------------------------------------------------------------------------
(* A word read: the next one of a paragraph the writer has left behind. *)
LEMMA ReadWordKeeps == ASSUME DrainInv, ReadWord PROVE DrainInv'
  <1> DEFINE word == TramWord(ParAfter(FullPars), Len(buf) % Words)
             n == Len(buf)
             F == FullPars
             S == Len(samples)
  <1>1. /\ UNCHANGED <<wrote, tracing, pc, finishing, nextPar, pendingLost, seq, pass, samples,
                       ring, last, look, nextAbs, overtaken>>
        /\ pc = "read" /\ ~NowDue /\ F < pass.batch /\ buf' = Append(buf, word)
      BY DEF ReadWord, target, seen
  <1>2. Types /\ NowPar \in Nat /\ nextAbs \in Nat /\ wrote \in Nat /\ wrote \in 0 .. MaxWords
      BY NowBound DEF DrainInv, Types
  <1>3. word \in Nat
      BY <1>2, TramWordNat
  <1>4. buf \in Seq(Nat) /\ n \in Nat /\ S \in Nat /\ pass \in PassType
      BY <1>2 DEF Types
  <1>5. F \in Nat /\ n = F * Words + (n % Words) /\ n % Words \in 0 .. Words - 1
      BY <1>4, FullParsIs
  <1> HIDE DEF word
  <1>6. buf' \in Seq(Nat) /\ Len(buf') = n + 1 /\ buf'[n + 1] = word
        /\ \A j \in 1 .. n : buf'[j] = buf[j]
      BY <1>1, <1>3, <1>4
  <1>7. \/ FullPars' = F /\ Len(buf') % Words = (n % Words) + 1
        \/ FullPars' = F + 1 /\ Len(buf') % Words = 0
      BY <1>4, <1>6, DivStep, Constants DEF FullPars
  <1>8. NowPar' = NowPar /\ InPass /\ InPass'
      BY <1>1 DEF NowPar, InPass
  <1>9. Types'
      BY <1>1, <1>2, <1>6, <1>8 DEF Types
  <1>10. /\ S * NowEvery <= F /\ S * NowEvery < pass.batch /\ F <= (S + 1) * NowEvery
         /\ (F = (S + 1) * NowEvery => n % Words = 0)
      BY <1>1 DEF DrainInv, ChainOK
  <1>11. pass.k = 0 /\ pass.batch \in Nat /\ nextAbs + pass.batch <= NowPar
    <2>1. /\ pass.k = 0 /\ (pass.i - pass.k) + pass.batch <= pass.toRead
          /\ nextAbs + (pass.toRead - pass.i) <= pass.now /\ pass.now <= NowPar
        BY <1>1, <1>8 DEF DrainInv, PassOK
    <2>2. /\ pass.k \in Nat /\ pass.batch \in Nat /\ pass.i \in Nat /\ pass.toRead \in Nat
          /\ pass.now \in Nat
        BY <1>4 DEF PassType
    <2> QED BY <1>2, <2>1, <2>2
  <1>12. ChainOK'
    <2>1. F # (S + 1) * NowEvery
      <3> SUFFICES ASSUME F = (S + 1) * NowEvery PROVE NowDue
          BY <1>1
      <3>1. n % Words = 0
          BY <1>10
      <3>2. F % NowEvery = 0
        <4>1. ((S + 1) * NowEvery + 0) % NowEvery = 0 /\ (S + 1) * NowEvery + 0 = (S + 1) * NowEvery
          <5>1. S + 1 \in Nat /\ 0 \in 0 .. NowEvery - 1
              BY <1>4, Constants
          <5>2. (S + 1) * NowEvery \in Nat
              BY <5>1, Constants
          <5> HIDE DEF S
          <5>3. NowEvery \in Nat \ {0}
              BY Constants
          <5>4. ((S + 1) * NowEvery + 0) % NowEvery = 0
              BY <5>1, <5>3, DivUnique, Zenon
          <5>5. (S + 1) * NowEvery + 0 = (S + 1) * NowEvery
              BY <5>2
          <5> QED BY <5>4, <5>5, Zenon
        <4> QED BY <4>1
      <3>3. S * NowEvery < F /\ F > 0
        <4>1. (S + 1) * NowEvery = S * NowEvery + NowEvery /\ S * NowEvery \in Nat
            BY <1>4, Constants
        <4> QED BY <4>1, Constants
      <3> QED BY <3>1, <3>2, <3>3 DEF NowDue
    <2>2. (S + 1) * NowEvery \in Nat /\ S * NowEvery \in Nat
        BY <1>4, Constants
    <2>3. F + 1 <= (S + 1) * NowEvery /\ F + 1 <= pass.batch /\ S * NowEvery <= F + 1
        BY <1>1, <1>5, <1>10, <1>11, <2>1, <2>2
    <2>4. FullPars' \in Nat /\ FullPars' <= F + 1 /\ F <= FullPars'
          /\ (FullPars' = F + 1 => Len(buf') % Words = 0)
        BY <1>5, <1>7
    <2> HIDE DEF F, n, S
    <2>5. /\ S * NowEvery <= FullPars' /\ FullPars' <= pass.batch /\ FullPars' <= (S + 1) * NowEvery
          /\ (FullPars' = pass.batch \/ FullPars' = (S + 1) * NowEvery => Len(buf') % Words = 0)
        BY <1>1, <1>5, <1>10, <1>11, <2>1, <2>2, <2>3, <2>4
    <2> QED BY <1>1, <1>10, <2>5 DEF ChainOK, S
  <1>13. word = (nextAbs + F) * Words + (n % Words) \/ ~ (NowPar < nextAbs + F + Total)
    <2> SUFFICES ASSUME NowPar < nextAbs + F + Total
                 PROVE  word = (nextAbs + F) * Words + (n % Words)
        OBVIOUS
    <2> DEFINE P == nextAbs + F
    <2>1. P \in Nat /\ P < NowPar
        BY <1>1, <1>2, <1>5, <1>11
    <2>2. ParAfter(F) = P % Total
      <3>1. ((nextAbs % Total) + F) % Total = (nextAbs + F) % Total
          BY <1>2, <1>5, Constants, ModPlus
      <3> QED BY <1>2, <3>1 DEF ParAfter, Types
    <2>3. NowPar < P + Total
        OBVIOUS
    <2> HIDE DEF P
    <2>4. TramWord(P % Total, n % Words) = P * Words + (n % Words)
        BY <1>2, <1>5, <2>1, <2>3, TramWordIs
    <2> QED BY <2>2, <2>4 DEF word, P
  <1>14. BufOK'
    <2> SUFFICES ASSUME NEW j \in 1 .. n + 1, Bound(Group(j)) < nextAbs + Par(j) + Total
                 PROVE  buf'[j] = (nextAbs + Par(j)) * Words + Place(j)
      <3>1. Base' = nextAbs
          BY <1>1, <1>2, <1>11 DEF Base
      <3>2. \A j \in 1 .. n + 1 : Bound(Group(j))' = Bound(Group(j))
          BY <1>1, <1>8 DEF Bound, Group, Par
      <3> QED BY <1>6, <3>1, <3>2 DEF BufOK
    <2>1. CASE j \in 1 .. n
      <3>1. Base = nextAbs
          BY <1>2, <1>11 DEF Base
      <3>2. buf[j] = (nextAbs + Par(j)) * Words + Place(j)
          BY <1>8, <2>1, <3>1 DEF DrainInv, BufOK
      <3> QED BY <1>6, <2>1, <3>2
    <2>2. CASE j = n + 1
      <3>1. Par(j) = F /\ Place(j) = n % Words
          BY <1>4, <2>2 DEF Par, Place, FullPars
      <3>2. Group(j) > S
        <4>1. ~ (F < S * NowEvery)
            BY <1>4, <1>5, <1>10, Constants
        <4>2. ~ (F \div NowEvery < S)
            BY <1>4, <1>5, <4>1, Constants, DivLess
        <4>3. F \div NowEvery \in Nat
            BY <1>5, Constants, DivMod
        <4> HIDE DEF F, S
        <4> QED BY <1>4, <3>1, <4>2, <4>3 DEF Group
      <3>3. Bound(Group(j)) = NowPar
        <4>1. j \in Nat \ {0}
            BY <1>4, <2>2
        <4>2. ~ (Group(j) <= S)
            BY <1>4, <3>2, <4>1, GroupIs
        <4> QED BY <4>2 DEF Bound
      <3> QED BY <1>6, <1>13, <2>2, <3>1, <3>3
    <2> QED BY <1>4, <2>1, <2>2
  <1>15. PassOK'
      BY <1>1, <1>8 DEF DrainInv, PassOK
  <1>16. LooksOK'
      BY <1>1, <1>8 DEF DrainInv, LooksOK, Counted, GroupNow
  <1>17. StreamOK'
    <2>1. Lost' = Lost
        BY <1>1, <1>8 DEF Lost
    <2> QED BY <1>1, <1>2, <1>8, <2>1, StreamStays DEF DrainInv
  <1> QED BY <1>9, <1>12, <1>14, <1>15, <1>16, <1>17 DEF DrainInv

-----------------------------------------------------------------------------
(* A FIFONOW word of the chain: the look that judges the group before it. *)
LEMMA ReadNowKeeps == ASSUME DrainInv, ReadNow PROVE DrainInv'
  <1> DEFINE F == FullPars
             S == Len(samples)
  <1>1. /\ UNCHANGED <<wrote, tracing, finishing, nextPar, pendingLost, seq, pass, buf, ring,
                       last, nextAbs>>
        /\ pc = "read" /\ NowDue /\ samples' = Append(samples, NowPar) /\ look' = NowPar
        /\ overtaken' = (overtaken \/ NowPar - look >= Total)
        /\ pc' = IF F = pass.batch THEN "judge" ELSE "read"
      BY DEF ReadNow, target
  <1>2. Types /\ NowPar \in Nat /\ nextAbs \in Nat /\ wrote \in Nat
      BY NowBound DEF DrainInv
  <1>3. samples \in Seq(Nat) /\ S \in Nat /\ pass \in PassType /\ buf \in Seq(Nat)
      BY <1>2 DEF Types
  <1>4. samples' \in Seq(Nat) /\ Len(samples') = S + 1 /\ samples'[S + 1] = NowPar
        /\ \A g \in 1 .. S : samples'[g] = samples[g]
      BY <1>1, <1>2, <1>3
  <1>5. NowPar' = NowPar /\ FullPars' = F /\ InPass /\ InPass' /\ pc' \in {"read", "judge"}
        /\ (pc' = "judge" <=> F = pass.batch)
      BY <1>1 DEF NowPar, FullPars, InPass
  <1>6. F \in Nat /\ Len(buf) \in Nat /\ Len(buf) = F * Words + (Len(buf) % Words)
      BY <1>3, FullParsIs
  <1>7. pass.k = 0 /\ pass.batch \in Nat
    <2>1. pass.k = 0
        BY <1>1, <1>5 DEF DrainInv, PassOK
    <2> QED BY <1>3, <2>1 DEF PassType
  <1>8. Types'
    <2>1. \A g \in 1 .. S + 1 : samples'[g] <= NowPar'
      <3> TAKE g \in 1 .. S + 1
      <3>1. CASE g \in 1 .. S
          BY <1>2, <1>4, <1>5, <3>1 DEF Types
      <3>2. CASE g = S + 1
          BY <1>2, <1>4, <1>5, <3>2
      <3> QED BY <1>3, <3>1, <3>2
    <2>2. overtaken' \in BOOLEAN
        BY <1>1
    <2>3. look' \in Nat /\ look' <= NowPar'
        BY <1>1, <1>2, <1>5
    <2>4. nextAbs' <= NowPar' /\ nextPar' = nextAbs' % Total
        BY <1>1, <1>2, <1>5 DEF Types
    <2>5. pc' \in {"poll", "read", "judge", "final", "stopped"}
        BY <1>5
    <2> QED BY <1>1, <1>2, <1>4, <2>1, <2>2, <2>3, <2>4, <2>5 DEF Types
  <1>9. PassOK'
      BY <1>1, <1>5, <1>7 DEF DrainInv, PassOK
  <1>10. /\ S * NowEvery < F /\ F <= (S + 1) * NowEvery /\ F <= pass.batch /\ Len(buf) % Words = 0
         /\ F % NowEvery = 0 \/ F = pass.batch
      BY <1>1 DEF DrainInv, ChainOK, NowDue
  <1>11. S * NowEvery \in Nat /\ (S + 1) * NowEvery = S * NowEvery + NowEvery
         /\ (S + 2) * NowEvery = (S + 1) * NowEvery + NowEvery
      BY <1>3, Constants
  <1>12. ChainOK'
    <2>1. CASE F = pass.batch
      <3>1. Len(buf) = pass.batch * Words
          BY <1>6, <1>7, <1>10, <2>1, Constants
      <3>2. pass.batch <= Len(samples') * NowEvery /\ samples' # <<>>
            /\ (Len(samples') - 1) * NowEvery < pass.batch
          BY <1>3, <1>4, <1>10, <2>1
      <3> QED BY <1>1, <1>5, <2>1, <3>1, <3>2 DEF ChainOK
    <2>2. CASE F # pass.batch
      <3>1. F = (S + 1) * NowEvery
        <4> DEFINE m == F \div NowEvery
        <4>1. F = m * NowEvery + (F % NowEvery) /\ m \in Nat
            BY <1>6, Constants, DivMod
        <4>2. F % NowEvery = 0
            BY <1>10, <2>2
        <4> HIDE DEF m
        <4>3. F = m * NowEvery
            BY <1>6, <4>1, <4>2, Constants
        <4>4. ~ (m <= S)
          <5> SUFFICES ASSUME m <= S PROVE FALSE
              OBVIOUS
          <5>1. m * NowEvery <= S * NowEvery
              BY <1>3, <4>1, Constants, TimesMono
          <5> QED BY <1>6, <1>10, <1>11, <4>3, <5>1
        <4>5. (S + 1) * NowEvery <= m * NowEvery
          <5>1. S + 1 <= m /\ S + 1 \in Nat
              BY <1>3, <4>1, <4>4
          <5> QED BY <4>1, <5>1, Constants, TimesMono
        <4>6. (S + 1) * NowEvery \in Nat
            BY <1>11, Constants
        <4> QED BY <1>6, <1>10, <4>3, <4>5, <4>6
      <3>2. F < pass.batch
          BY <1>6, <1>7, <1>10, <2>2
      <3> DEFINE T == S + 1
      <3>3. T * NowEvery = F /\ (T + 1) * NowEvery = F + NowEvery
          BY <1>3, <1>11, <3>1
      <3>4. Len(samples') = T
          BY <1>4
      <3> HIDE DEF T, F
      <3>5. /\ T * NowEvery <= F /\ T * NowEvery < pass.batch
            /\ F <= pass.batch /\ F <= (T + 1) * NowEvery
            /\ (F = pass.batch \/ F = (T + 1) * NowEvery => Len(buf') % Words = 0)
          BY <1>1, <1>6, <1>7, <1>10, <3>2, <3>3, Constants
      <3> QED BY <1>1, <1>5, <2>2, <3>4, <3>5 DEF ChainOK
    <2> QED BY <2>1, <2>2
  <1>13. BufOK'
    <2>1. ASSUME NEW j \in 1 .. Len(buf) PROVE Bound(Group(j))' = Bound(Group(j))
      <3> DEFINE g == Group(j)
      <3>1. g \in Nat \ {0}
          BY <1>6, GroupIs
      <3>2. Group(j)' = g
          BY DEF Group, Par
      <3> HIDE DEF g
      <3> SUFFICES (IF g <= S + 1 THEN samples'[g] ELSE NowPar) = IF g <= S THEN samples[g] ELSE NowPar
          BY <1>4, <1>5, <3>2 DEF Bound, g
      <3>3. CASE g <= S
          BY <1>3, <1>4, <3>1, <3>3
      <3>4. CASE g = S + 1
          BY <1>3, <1>4, <3>1, <3>4
      <3>5. CASE g > S + 1
          BY <1>3, <3>1, <3>5
      <3> QED BY <1>3, <3>1, <3>3, <3>4, <3>5
    <2> QED BY <1>1, <1>5, <2>1 DEF DrainInv, BufOK, Base, Par, Place
  <1>14. LooksOK'
    <2> SUFFICES ASSUME ~overtaken' PROVE LooksOK'
        BY DEF LooksOK
    <2>1. ~overtaken /\ ~ (NowPar - look >= Total)
        BY <1>1
    <2>2. /\ pass.prev = Counted % Total
          /\ \A g \in 1 .. S - 1 : Near(samples[g], samples[g + 1])
          /\ look = IF samples = <<>> THEN Counted ELSE samples[S]
          /\ (samples # <<>> => Near(Counted, samples[1]))
        BY <1>1, <1>5, <2>1 DEF DrainInv, LooksOK
    <2>3. Counted \in Nat /\ Counted' = Counted /\ pass' = pass
        BY <1>1, <1>3 DEF Counted, PassType
    <2>4. look \in Nat /\ look <= NowPar /\ NowPar < look + Total
      <3>1. look \in Nat
          BY <1>2 DEF Types
      <3>2. look <= NowPar
          BY <1>2 DEF Types
      <3> QED BY <1>2, <2>1, <3>1, <3>2, Constants
    <2>5. \A g \in 1 .. S : Near(samples'[g], samples'[g + 1])
      <3> TAKE g \in 1 .. S
      <3>1. CASE g \in 1 .. S - 1
        <4>1. Near(samples[g], samples[g + 1])
            BY <2>2, <3>1
        <4>2. samples'[g] = samples[g] /\ samples'[g + 1] = samples[g + 1]
          <5>1. g \in 1 .. S /\ g + 1 \in 1 .. S
              BY <1>3, <3>1
          <5> HIDE DEF S
          <5> QED BY <1>4, <5>1
        <4> QED BY <4>1, <4>2
      <3>2. CASE g = S
        <4>1. look = samples[S] /\ samples'[S] = samples[S]
            BY <1>3, <1>4, <2>2, <3>2
        <4> QED BY <1>2, <1>4, <2>4, <3>2, <4>1 DEF Near
      <3> QED BY <1>3, <3>1, <3>2
    <2>6. Near(Counted, samples'[1])
      <3>1. CASE samples = <<>>
        <4>0. S = 0
            BY <3>1
        <4>1. samples'[1] = NowPar /\ look = Counted
            BY <1>4, <2>2, <3>1, <4>0
        <4> QED BY <2>4, <4>1 DEF Near
      <3>2. CASE samples # <<>>
        <4>1. S > 0 /\ 1 \in 1 .. S
            BY <1>3, <3>2
        <4>2. samples'[1] = samples[1]
            BY <1>4, <4>1
        <4> QED BY <2>2, <3>2, <4>2
      <3> QED BY <3>1, <3>2
    <2>7. pc' = "judge" => pass.k % NowEvery = 0 /\ GroupNow' = samples'[1]
      <3>1. (0 * NowEvery + 0) \div NowEvery = 0 /\ (0 * NowEvery + 0) % NowEvery = 0
          BY Constants, DivUnique
      <3>2. 0 \div NowEvery = 0 /\ 0 % NowEvery = 0
          BY <3>1, Constants
      <3> QED BY <1>7, <2>3, <3>2 DEF GroupNow
    <2>8. look' = samples'[Len(samples')] /\ Len(samples') - 1 = S /\ samples' # <<>>
      <3>1. Len(samples') = S + 1 /\ samples'[S + 1] = NowPar /\ look' = NowPar
          BY <1>1, <1>4
      <3>2. Len(samples') - 1 = S
          BY <1>3, <3>1
      <3>3. Len(samples') # 0
          BY <1>3, <3>1
      <3>4. samples' # <<>>
          BY <3>3, Len(<<>>) = 0
      <3>5. look' = samples'[Len(samples')]
          BY <3>1, Zenon
      <3> QED BY <3>2, <3>4, <3>5
    <2> QED BY <1>5, <2>2, <2>3, <2>5, <2>6, <2>7, <2>8 DEF LooksOK
  <1>15. StreamOK'
    <2>1. Lost' = Lost
        BY <1>1, <1>5 DEF Lost
    <2>2. pc # "stopped" /\ (overtaken => overtaken')
        BY <1>1
    <2>3. seq' = seq /\ wrote' \in Nat /\ NowPar <= NowPar'
        BY <1>1, <1>2, <1>5
    <2> QED BY <1>1, <2>1, <2>2, <2>3, StreamStays DEF DrainInv
  <1> QED BY <1>8, <1>9, <1>12, <1>13, <1>14, <1>15 DEF DrainInv

-----------------------------------------------------------------------------
(* The end of a pass: nothing is under way, and what is lost waits. *)
LEMMA PassEnds ==
  ASSUME DrainInv, NEW lost \in Nat, EndPass(lost), UNCHANGED <<wrote, tracing, finishing, look>>,
         overtaken' = overtaken,
         seq' \in Nat, ring' \in Seq(Record), Len(ring') <= RingRecords, last' \in Record \cup {NoRecord},
         nextPar' = nextAbs' % Total, nextAbs' \in Nat, nextAbs' <= NowPar
  PROVE  /\ Types' /\ PassOK' /\ ChainOK' /\ BufOK' /\ LooksOK'
         /\ Lost' = lost /\ pc' # "stopped" /\ NowPar' = NowPar
  <1>1. Types /\ NowPar \in Nat
      BY NowBound DEF DrainInv
  <1>2. /\ pendingLost' = lost /\ pc' \in {"final", "poll"} /\ buf' = <<>> /\ samples' = <<>>
        /\ pass' = [lost |-> 0, toRead |-> 0, margin |-> 0, moved |-> 0, prev |-> 0,
                    i |-> 0, k |-> 0, batch |-> 0, now |-> pass.now]
      BY DEF EndPass, NoPass
  <1>3. NowPar' = NowPar /\ ~InPass'
      BY <1>2 DEF NowPar, InPass
  <1>4. pass.now \in Nat /\ pass.now <= NowPar
      BY <1>1 DEF DrainInv, Types, PassType, PassOK
  <1>5. pass' \in PassType
      BY <1>2, <1>4 DEF PassType
  <1>6. Types'
      BY <1>1, <1>2, <1>3, <1>5 DEF Types
  <1>7. PassOK'
      BY <1>2, <1>3, <1>4 DEF PassOK
  <1>8. ChainOK' /\ BufOK' /\ LooksOK'
      BY <1>2, <1>3 DEF ChainOK, BufOK, LooksOK
  <1>9. Lost' = lost
      BY <1>2, <1>3 DEF Lost
  <1> QED BY <1>2, <1>3, <1>6, <1>7, <1>8, <1>9

(* A chain that fails. *)
LEMMA ReadFailKeeps == ASSUME DrainInv, ReadFail PROVE DrainInv'
  <1>1. EndPass(pass.lost) /\ pc = "read"
        /\ UNCHANGED <<wrote, tracing, finishing, nextPar, seq, ring, last, look, nextAbs, overtaken>>
      BY DEF ReadFail, target
  <1>2. Types /\ NowPar \in Nat /\ wrote \in Nat
      BY NowBound DEF DrainInv
  <1>3. pass.lost \in Nat
      BY <1>2 DEF Types, PassType
  <1>4. /\ Types' /\ PassOK' /\ ChainOK' /\ BufOK' /\ LooksOK'
        /\ Lost' = pass.lost /\ pc' # "stopped" /\ NowPar' = NowPar
    <2>1. seq' \in Nat /\ ring' \in Seq(Record) /\ Len(ring') <= RingRecords
          /\ last' \in Record \cup {NoRecord} /\ nextPar' = nextAbs' % Total /\ nextAbs' \in Nat
          /\ nextAbs' <= NowPar
        BY <1>1, <1>2 DEF Types
    <2> QED BY <1>1, <1>3, <2>1, PassEnds
  <1>5. StreamOK'
    <2>1. Lost = pass.lost
        BY <1>1 DEF Lost, InPass
    <2> QED BY <1>1, <1>2, <1>3, <1>4, <2>1, StreamStays DEF DrainInv
  <1> QED BY <1>4, <1>5 DEF DrainInv

(* The look that judges a paragraph, and how far the pointer had come. *)
LEMMA Judged ==
  ASSUME DrainInv, pc = "judge"
  PROVE  /\ (pass.k \div NowEvery) + 1 \in 1 .. Len(samples)
         /\ GroupNow \in Nat /\ GroupNow <= NowPar /\ Moved \in Nat
         /\ ~overtaken => pass.now + Moved = GroupNow
         /\ GroupNow % Total \in 0 .. Total - 1
  <1> DEFINE g == (pass.k \div NowEvery) + 1
  <1>1. Types /\ samples \in Seq(Nat) /\ pass \in PassType /\ InPass
      BY DEF DrainInv, Types, InPass
  <1>2. pass.k \in Nat /\ pass.k < pass.batch /\ pass.batch <= Len(samples) * NowEvery
        /\ Len(samples) \in Nat /\ pass.batch \in Nat /\ Len(samples) * NowEvery \in Nat
        /\ pass.prev \in 0 .. Total - 1 /\ pass.moved \in Nat /\ pass.now \in Nat
    <2>1. pass.k \in Nat /\ pass.batch \in Nat /\ pass.prev \in Nat /\ pass.moved \in Nat /\ pass.now \in Nat
        BY <1>1 DEF PassType
    <2>2. pass.k < pass.batch /\ pass.prev < Total
        BY <1>1 DEF DrainInv, PassOK
    <2>3. pass.batch <= Len(samples) * NowEvery
        BY DEF DrainInv, ChainOK
    <2>4. Len(samples) \in Nat /\ Len(samples) * NowEvery \in Nat
        BY <1>1, Constants
    <2> QED BY <2>1, <2>2, <2>3, <2>4, Constants
  <1>3. g \in 1 .. Len(samples)
    <2>1. pass.k < Len(samples) * NowEvery
        BY <1>2
    <2>2. pass.k \div NowEvery < Len(samples)
        BY <1>2, <2>1, Constants, DivLess
    <2>3. pass.k \div NowEvery \in Nat
        BY <1>2, Constants, DivMod
    <2> QED BY <1>2, <2>2, <2>3
  <1>4. GroupNow = samples[g]
      BY DEF GroupNow
  <1> HIDE DEF g
  <1>5. GroupNow \in Nat /\ GroupNow <= NowPar
      BY <1>1, <1>3, <1>4 DEF Types
  <1>6. GroupNow % Total \in 0 .. Total - 1
      BY <1>5, Constants, DivMod
  <1>7. ((GroupNow % Total) + Total - pass.prev) % Total \in Nat
    <2> DEFINE d == (GroupNow % Total) + Total - pass.prev
    <2>1. d \in Nat
        BY <1>2, <1>6, Constants
    <2> HIDE DEF d
    <2>2. d % Total \in 0 .. Total - 1
        BY <2>1, Constants, DivMod
    <2>3. d % Total \in Nat
        BY <2>2, Constants
    <2> QED BY <2>3 DEF d
  <1>8. Moved \in Nat
      BY <1>2, <1>7 DEF Moved
  <1>9. ASSUME ~overtaken PROVE pass.now + Moved = GroupNow
    <2>1. pass.prev = Counted % Total
          /\ IF pass.k % NowEvery = 0 THEN Near(Counted, GroupNow) ELSE Counted = GroupNow
        BY <1>1, <1>9 DEF DrainInv, LooksOK
    <2>2. Counted = pass.now + pass.moved /\ Counted \in Nat
        BY <1>2 DEF Counted
    <2>3. CASE pass.k % NowEvery = 0
      <3>1. Counted <= GroupNow /\ GroupNow < Counted + Total
          BY <2>1, <2>3 DEF Near
      <3>2. Total \in Nat \ {0}
          BY Constants
      <3>3. ((GroupNow % Total) + Total - (Counted % Total)) % Total = GroupNow - Counted
          BY <1>5, <2>2, <3>1, <3>2, Distance, Zenon
      <3>4. Moved = pass.moved + (GroupNow - Counted)
          BY <2>1, <2>3, <3>3 DEF Moved
      <3> QED BY <1>2, <1>5, <2>2, <3>4
    <2>4. CASE pass.k % NowEvery # 0
      <3>1. Moved = pass.moved
          BY <2>4 DEF Moved
      <3> QED BY <2>1, <2>2, <2>4, <3>1
    <2> QED BY <2>3, <2>4
  <1> QED BY <1>3, <1>5, <1>6, <1>8, <1>9 DEF g

(* The rest of a pass given up: the loss waits, the drain is at the pointer. *)
LEMMA GiveUpKeeps == ASSUME DrainInv, GiveUp PROVE DrainInv'
  <1> DEFINE lost == pass.lost + LostToTear
  <1>1. /\ pc = "judge" /\ nextPar' = GroupNow % Total /\ nextAbs' = GroupNow /\ EndPass(lost)
        /\ UNCHANGED <<wrote, tracing, finishing, seq, ring, last, look, overtaken>>
      BY DEF GiveUp, ResumeAtPointer, target, seen
  <1>2. Types /\ NowPar \in Nat /\ wrote \in Nat
      BY NowBound DEF DrainInv
  <1>3. lost \in Nat /\ lost > 0
    <2>1. pass.lost \in Nat /\ pass.i \in Nat /\ pass.toRead \in Nat
        BY <1>2 DEF Types, PassType
    <2>2. pass.i < pass.toRead
        BY <1>1 DEF DrainInv, PassOK, InPass
    <2> QED BY <2>1, <2>2 DEF LostToTear
  <1> HIDE DEF lost
  <1>4. /\ Types' /\ PassOK' /\ ChainOK' /\ BufOK' /\ LooksOK'
        /\ Lost' = lost /\ pc' # "stopped" /\ NowPar' = NowPar
    <2>1. seq' \in Nat /\ ring' \in Seq(Record) /\ Len(ring') <= RingRecords
          /\ last' \in Record \cup {NoRecord}
        BY <1>1, <1>2 DEF Types
    <2>2. nextPar' = nextAbs' % Total /\ nextAbs' \in Nat /\ nextAbs' <= NowPar
        BY <1>1, Judged
    <2> QED BY <1>1, <1>3, <2>1, <2>2, PassEnds
  <1>5. StreamOK'
      BY <1>1, <1>2, <1>3, <1>4, StreamStays DEF DrainInv
  <1> QED BY <1>4, <1>5 DEF DrainInv

(* A field of the locals of drain_to assigned. *)
LEMMA PassField ==
  ASSUME NEW p \in PassType, NEW n \in Nat
  PROVE  /\ [p EXCEPT !.lost = n] \in PassType /\ [p EXCEPT !.moved = n] \in PassType
         /\ [p EXCEPT !.prev = n] \in PassType /\ [p EXCEPT !.i = n] \in PassType
         /\ [p EXCEPT !.k = n] \in PassType /\ [p EXCEPT !.batch = n] \in PassType
  BY DEF PassType

-----------------------------------------------------------------------------
(* The record of the paragraph being judged. *)
ThisPar ==
  [seq |-> seq, par |-> nextPar, lost |-> pass.lost, final |-> FALSE,
   words |-> SubSeq(buf, pass.k * Words + 1, (pass.k + 1) * Words), num |-> nextAbs]

(* The paragraph a pass publishes is the one the drain is at, whole. *)
LEMMA ThisParIntact ==
  ASSUME DrainInv, pc = "judge", ~Torn
  PROVE  /\ ThisPar \in Record /\ ThisPar.seq = seq /\ ThisPar.final = FALSE
         /\ ThisPar.num = nextAbs /\ ThisPar.lost = Lost
         /\ nextAbs < NowPar
         /\ ~overtaken => Intact(ThisPar, NowPar)
  <1> DEFINE k == pass.k
             words == SubSeq(buf, k * Words + 1, (k + 1) * Words)
             G == GroupNow
  <1>1. Types /\ NowPar \in Nat /\ nextAbs \in Nat /\ InPass /\ buf \in Seq(Nat) /\ seq \in Nat
      BY NowBound DEF DrainInv, Types, InPass
  <1>2. /\ k \in Nat /\ pass.batch \in Nat /\ pass.i \in Nat /\ pass.toRead \in Nat
        /\ pass.now \in Nat /\ pass.lost \in Nat /\ pass.margin \in Nat
      BY <1>1 DEF Types, PassType
  <1>3. /\ k < pass.batch /\ pass.i < pass.toRead /\ pass.margin = Total - pass.toRead
        /\ nextAbs + (pass.toRead - pass.i) <= pass.now /\ pass.now <= NowPar /\ k <= nextAbs
        /\ (~overtaken => nextAbs + (pass.toRead - pass.i) = pass.now)
      BY <1>1 DEF DrainInv, PassOK
  <1>4. nextAbs < NowPar
      BY <1>1, <1>2, <1>3
  <1>5. /\ k * Words \in Nat /\ (k + 1) * Words = k * Words + Words
        /\ Len(buf) = pass.batch * Words /\ (k + 1) * Words <= pass.batch * Words
    <2>1. Len(buf) = pass.batch * Words
        BY DEF DrainInv, ChainOK
    <2>2. k + 1 <= pass.batch /\ k + 1 \in Nat
        BY <1>2, <1>3
    <2> HIDE DEF k
    <2> QED BY <1>2, <2>1, <2>2, Constants, TimesMono
  <1>6. words \in [1 .. Words -> Nat] /\ \A w \in 1 .. Words : words[w] = buf[k * Words + w]
    <2> DEFINE a == k * Words + 1
               b == (k + 1) * Words
    <2>1. a \in Nat /\ b \in Nat /\ b - a + 1 = Words /\ a > 0 /\ b <= Len(buf) /\ a <= b + 1
      <3>1. b = k * Words + Words /\ k * Words \in Nat /\ b <= Len(buf)
          BY <1>5
      <3> DEFINE m == k * Words
      <3>2. a = m + 1 /\ b = m + Words /\ m \in Nat
          BY <3>1
      <3>3. Len(buf) \in Nat /\ b <= Len(buf) /\ Words \in Nat
        <4>1. Len(buf) \in Nat /\ Words \in Nat
            BY <1>1, Constants
        <4> HIDE DEF k
        <4>2. Len(buf) = pass.batch * Words
            BY <1>5
        <4>3. (k + 1) * Words <= Len(buf)
            BY <1>5
        <4>4. b <= Len(buf)
            BY <4>3
        <4> HIDE DEF b
        <4> QED BY <4>1, <4>4
      <3> HIDE DEF m, a, b
      <3> QED BY <3>2, <3>3
    <2> HIDE DEF k
    <2>2. \A w \in 1 .. Words : a + w - 1 = k * Words + w /\ k * Words + w \in 1 .. Len(buf)
        BY <1>1, <1>5, Constants
    <2> HIDE DEF a, b
    <2>3. SubSeq(buf, a, b) = [w \in 1 .. Words |-> buf[a + w - 1]]
        BY <1>1, <2>1
    <2>4. \A w \in 1 .. Words : buf[a + w - 1] = buf[k * Words + w] /\ buf[a + w - 1] \in Nat
        BY <1>1, <2>2
    <2> QED BY <2>3, <2>4 DEF a, b
  <1>7. ThisPar \in Record
    <2>1. nextPar \in Nat
      <3>1. nextAbs % Total \in 0 .. Total - 1
          BY <1>1, Constants, DivMod
      <3> QED BY <1>1, <3>1, Constants DEF Types
    <2> HIDE DEF words
    <2>2. ThisPar = [seq |-> seq, par |-> nextPar, lost |-> pass.lost, final |-> FALSE,
                     words |-> words, num |-> nextAbs]
        BY DEF ThisPar, words
    <2> QED BY <1>1, <1>2, <1>6, <2>1, <2>2 DEF Record
  <1>8. ASSUME ~overtaken, NEW w \in 1 .. Words PROVE words[w] = nextAbs * Words + (w - 1)
    <2> DEFINE j == k * Words + w
    <2>1. j \in 1 .. Len(buf) /\ j \in Nat \ {0}
      <3>1. Len(buf) \in Nat /\ (k + 1) * Words <= Len(buf)
          BY <1>1, <1>5
      <3> HIDE DEF k
      <3> QED BY <1>5, <3>1, Constants
    <2>2. Par(j) = k /\ Place(j) = w - 1
        BY <1>2, PlaceOf
    <2> HIDE DEF j
    <2>3. Bound(Group(j)) = G
      <3>1. (k \div NowEvery) + 1 \in 1 .. Len(samples)
          BY Judged
      <3>2. Group(j) = (k \div NowEvery) + 1
          BY <2>2 DEF Group
      <3>3. (k \div NowEvery) + 1 <= Len(samples)
          BY <3>1
      <3> QED BY <3>2, <3>3 DEF Bound, GroupNow
    <2>4. G < nextAbs + Total
      <3>1. pass.now + Moved = G /\ G \in Nat /\ Moved \in Nat
          BY <1>8, Judged
      <3>2. Moved < pass.margin + pass.i
          BY <1>2, <3>1 DEF Torn
      <3>3. nextAbs + (pass.toRead - pass.i) = pass.now
          BY <1>3, <1>8
      <3>4. pass.now + Moved < pass.now + (Total - pass.toRead) + pass.i
          BY <1>2, <1>3, <3>1, <3>2, Constants
      <3>5. pass.now + (Total - pass.toRead) + pass.i = nextAbs + Total
          BY <1>1, <1>2, <3>3, Constants
      <3> QED BY <3>1, <3>4, <3>5
    <2>5. Base + Par(j) = nextAbs
        BY <1>1, <1>2, <2>2 DEF Base
    <2>6. buf[j] = nextAbs * Words + (w - 1)
      <3>1. Bound(Group(j)) < Base + Par(j) + Total
          BY <2>3, <2>4, <2>5
      <3>2. buf[j] = (Base + Par(j)) * Words + Place(j)
          BY <1>1, <2>1, <3>1 DEF DrainInv, BufOK
      <3> QED BY <2>2, <2>5, <3>2
    <2> QED BY <1>6, <2>6 DEF j
  <1>9. Lost = pass.lost
      BY <1>1 DEF Lost
  <1> QED BY <1>4, <1>7, <1>8, <1>9 DEF ThisPar, Intact

(* A paragraph published: the next of the chain, the next chain, or the end. *)
LEMMA PublishParKeeps == ASSUME DrainInv, PublishPar PROVE DrainInv'
  <1> DEFINE G == GroupNow
  <1>1. /\ pc = "judge" /\ ~Torn /\ Publish(ThisPar) /\ nextPar' = ParAfter(1)
        /\ nextAbs' = nextAbs + 1
        /\ UNCHANGED <<wrote, tracing, finishing, last, look, overtaken>>
      BY DEF PublishPar, ThisPar, target, seen
  <1>2. Types /\ NowPar \in Nat /\ nextAbs \in Nat /\ InPass /\ wrote \in Nat /\ NowPar' = NowPar
      BY <1>1, NowBound DEF DrainInv, InPass, NowPar
  <1>3. /\ ThisPar \in Record /\ ThisPar.seq = seq /\ ThisPar.final = FALSE
        /\ ThisPar.num = nextAbs /\ ThisPar.lost = Lost /\ nextAbs < NowPar
        /\ ~overtaken => Intact(ThisPar, NowPar)
      BY <1>1, ThisParIntact
  <1>4. StreamOK' /\ ring' \in Seq(Record) /\ Len(ring') <= RingRecords
    <2>1. nextAbs' = ThisPar.num + 1 /\ nextAbs' \in Nat /\ ThisPar.num = nextAbs
          /\ ThisPar.lost = Lost /\ ThisPar.seq = seq
        BY <1>1, <1>2, <1>3
    <2>2. ~ThisPar.final
        BY <1>3
    <2>3. pc # "stopped"
        BY <1>1
    <2>4. ~overtaken => Intact(ThisPar, NowPar)
        BY <1>3
    <2>5. Types /\ StreamOK /\ ThisPar \in Record /\ Publish(ThisPar)
          /\ UNCHANGED <<last, wrote, overtaken>>
        BY <1>1, <1>2, <1>3 DEF DrainInv
    <2> HIDE DEF ThisPar
    <2> QED BY <2>1, <2>2, <2>3, <2>4, <2>5, StreamPublished
  <1>5. seq' \in Nat /\ last' \in Record \cup {NoRecord} /\ nextPar' = nextAbs' % Total
        /\ nextAbs' \in Nat /\ nextAbs' <= NowPar
    <2>1. nextPar = nextAbs % Total /\ seq \in Nat /\ last \in Record \cup {NoRecord}
        BY <1>2 DEF Types
    <2>2. ((nextAbs % Total) + 1) % Total = (nextAbs + 1) % Total
        BY <1>2, Constants, ModPlus
    <2>3. nextPar' = nextAbs' % Total
        BY <1>1, <2>1, <2>2 DEF ParAfter
    <2>4. seq' = seq + 1
        BY <1>1 DEF Publish
    <2>5. nextAbs' \in Nat /\ nextAbs' <= NowPar
        BY <1>1, <1>2, <1>3
    <2>6. seq' \in Nat /\ last' \in Record \cup {NoRecord}
        BY <1>1, <2>1, <2>4
    <2> QED BY <2>3, <2>5, <2>6
  <1>6. CASE pass.i + 1 = pass.toRead
    <2>1. EndPass(0)
        BY <1>6 DEF PublishPar
    <2>2. Types' /\ PassOK' /\ ChainOK' /\ BufOK' /\ LooksOK'
        BY <1>1, <1>4, <1>5, <2>1, PassEnds
    <2> QED BY <1>4, <2>2 DEF DrainInv
  <1>7. CASE pass.i + 1 # pass.toRead
    <2> DEFINE more == [pass EXCEPT !.lost = 0, !.moved = Moved, !.prev = G % Total,
                                    !.i = @ + 1, !.k = @ + 1]
               after == pass'
    <2>1. /\ G \in Nat /\ G <= NowPar /\ Moved \in Nat /\ G % Total \in 0 .. Total - 1
          /\ (~overtaken => pass.now + Moved = G)
          /\ (pass.k \div NowEvery) + 1 \in 1 .. Len(samples)
        BY <1>1, Judged
    <2>2. /\ pass.k \in Nat /\ pass.batch \in Nat /\ pass.i \in Nat /\ pass.toRead \in Nat
          /\ pass.now \in Nat /\ pass.margin \in Nat /\ pass \in PassType
        BY <1>2 DEF Types, PassType
    <2>3. /\ pass.k < pass.batch /\ pass.i < pass.toRead /\ pass.toRead < Total
          /\ pass.margin = Total - pass.toRead /\ pass.batch \in 1 .. ChainPars
          /\ pass.k <= pass.i /\ pass.k <= nextAbs
          /\ (pass.i - pass.k) + pass.batch <= pass.toRead /\ pass.now <= NowPar
          /\ nextAbs + (pass.toRead - pass.i) <= pass.now
          /\ (~overtaken => nextAbs + (pass.toRead - pass.i) = pass.now)
        BY <1>2 DEF DrainInv, PassOK
    <2>4. /\ more \in PassType /\ more.lost = 0 /\ more.toRead = pass.toRead
          /\ more.margin = pass.margin /\ more.moved = Moved /\ more.prev = G % Total
          /\ more.i = pass.i + 1 /\ more.k = pass.k + 1 /\ more.batch = pass.batch
          /\ more.now = pass.now
      <3>1. G % Total \in Nat
          BY <2>1, Constants
      <3> DEFINE p == G % Total
      <3> HIDE DEF p
      <3>2. \A i, k \in Nat :
              [pass EXCEPT !.lost = 0, !.moved = Moved, !.prev = p, !.i = i, !.k = k] \in PassType
          BY <2>1, <2>2, <3>1, PassField DEF p
      <3>3. more \in PassType
        <4>1. pass.i + 1 \in Nat /\ pass.k + 1 \in Nat
            BY <2>2
        <4> QED BY <3>2, <4>1 DEF p
      <3> QED BY <2>2, <3>3 DEF PassType
    <2>5. \/ /\ pass.k + 1 < pass.batch /\ pass' = more /\ UNCHANGED <<pc, buf, samples>>
          \/ /\ ~ (pass.k + 1 < pass.batch)
             /\ pass' = [more EXCEPT !.k = 0, !.batch = Least(more.toRead - more.i, ChainPars)]
             /\ pc' = "read" /\ buf' = <<>> /\ samples' = <<>>
        BY <1>7 DEF PublishPar, chain
    <2>6. pendingLost' = pendingLost /\ pc' \in {"judge", "read"} /\ InPass'
        BY <1>1, <1>7, <2>5 DEF PublishPar, InPass
    <2> DEFINE rest == pass.toRead - (pass.i + 1)
               batch == Least(rest, ChainPars)
    <2> HIDE DEF more, rest
    <2>8. rest \in Nat /\ rest > 0
        BY <1>7, <2>2, <2>3 DEF rest
    <2>9. batch \in 1 .. ChainPars /\ batch <= rest /\ batch \in Nat
      <3>1. batch \in 1 .. ChainPars /\ batch <= rest
          BY <2>8, BatchIs
      <3> QED BY <3>1, Constants
    <2> HIDE DEF batch
    <2>10. \/ /\ pass.k + 1 < pass.batch /\ after = more
              /\ UNCHANGED <<pc, buf, samples>>
           \/ /\ pass.k + 1 = pass.batch /\ after = [more EXCEPT !.k = 0, !.batch = batch]
              /\ pc' = "read" /\ buf' = <<>> /\ samples' = <<>>
      <3>1. more.toRead - more.i = rest
          BY <2>4 DEF rest
      <3>2. more.k = pass.k + 1 /\ more.batch = pass.batch
          BY <2>4
      <3>3. Least(more.toRead - more.i, ChainPars) = batch
          BY <3>1 DEF batch
      <3> HIDE DEF more
      <3>4. ~ (pass.k + 1 < pass.batch) => pass.k + 1 = pass.batch
          BY <2>2, <2>3
      <3> QED BY <2>5, <3>3, <3>4
    <2>11. /\ after \in PassType /\ after.lost = 0 /\ after.toRead = pass.toRead
           /\ after.margin = pass.margin /\ after.moved = Moved /\ after.prev = G % Total
           /\ after.i = pass.i + 1 /\ after.now = pass.now
           /\ \/ pass.k + 1 < pass.batch /\ after.k = pass.k + 1 /\ after.batch = pass.batch
              \/ pass.k + 1 = pass.batch /\ after.k = 0 /\ after.batch = batch
      <3>1. CASE pass.k + 1 < pass.batch
        <4>1. after = more
            BY <2>2, <2>10, <3>1
        <4> QED BY <2>4, <3>1, <4>1
      <3>2. CASE pass.k + 1 = pass.batch
        <4>1. after = [more EXCEPT !.k = 0, !.batch = batch]
            BY <2>2, <2>10, <3>2
        <4>2. after \in PassType
            BY <2>4, <2>9, <4>1, PassField
        <4> HIDE DEF after
        <4>3. /\ after.lost = more.lost /\ after.toRead = more.toRead /\ after.margin = more.margin
              /\ after.moved = more.moved /\ after.prev = more.prev /\ after.i = more.i
              /\ after.now = more.now /\ after.k = 0 /\ after.batch = batch
            BY <2>4, <4>1 DEF PassType
        <4> QED BY <2>4, <3>2, <4>2, <4>3
      <3> QED BY <2>10, <3>1, <3>2
    <2>12. Types'
      <3>1. buf' \in Seq(Nat) /\ samples' \in Seq(Nat)
            /\ \A g \in 1 .. Len(samples') : samples'[g] <= NowPar'
        <4>1. CASE UNCHANGED <<pc, buf, samples>>
            BY <1>2, <4>1 DEF Types
        <4>2. CASE buf' = <<>> /\ samples' = <<>>
          <5>1. Len(samples') = 0
              BY <4>2
          <5> QED BY <4>2, <5>1
        <4> QED BY <2>10, <4>1, <4>2
      <3>2. pendingLost' \in Nat /\ wrote' \in 0 .. MaxWords /\ look' \in Nat /\ look' <= NowPar'
          BY <1>1, <1>2, <2>6 DEF Types
      <3>3. tracing' \in BOOLEAN /\ finishing' \in BOOLEAN /\ overtaken' \in BOOLEAN
          BY <1>1, <1>2 DEF Types
      <3> QED BY <1>2, <1>4, <1>5, <2>6, <2>11, <3>1, <3>2, <3>3 DEF Types
    <2> HIDE DEF rest
    <2>13. PassOK'
      <3>1. /\ after.toRead < Total /\ after.i < after.toRead
            /\ after.margin = Total - after.toRead /\ after.prev < Total /\ after.now <= NowPar
        <4> HIDE DEF after
        <4>1. pass.i + 1 < pass.toRead
            BY <1>7, <2>2, <2>3
        <4>2. G % Total < Total
            BY <2>1, Constants
        <4> QED BY <2>3, <2>11, <4>1, <4>2
      <3> HIDE DEF after
      <3>2. /\ after.batch \in 1 .. ChainPars /\ after.k < after.batch
            /\ after.k <= after.i /\ after.k <= nextAbs'
            /\ (after.i - after.k) + after.batch <= after.toRead
        <4>0. after.i = pass.i + 1 /\ after.toRead = pass.toRead /\ nextAbs' = nextAbs + 1
            BY <1>1, <2>11
        <4>1. CASE after.k = pass.k + 1 /\ after.batch = pass.batch /\ pass.k + 1 < pass.batch
          <5>1. pass.k + 1 <= pass.i + 1 /\ pass.k + 1 <= nextAbs + 1
                /\ (pass.i + 1 - (pass.k + 1)) + pass.batch <= pass.toRead
              BY <1>2, <2>2, <2>3
          <5>2. after.k < after.batch /\ after.batch \in 1 .. ChainPars
              BY <2>3, <4>1
          <5>3. after.k <= after.i /\ after.k <= nextAbs'
              BY <4>0, <4>1, <5>1
          <5>4. (after.i - after.k) + after.batch <= after.toRead
              BY <2>2, <4>0, <4>1, <5>1
          <5> QED BY <5>2, <5>3, <5>4
        <4>2. CASE after.k = 0 /\ after.batch = batch
          <5>1. 0 < batch /\ 0 <= pass.i + 1 /\ 0 <= nextAbs + 1
                /\ (pass.i + 1 - 0) + batch <= pass.toRead
              BY <1>2, <2>2, <2>8, <2>9 DEF rest
          <5>2. after.k < after.batch /\ after.batch \in 1 .. ChainPars
              BY <2>9, <4>2, <5>1
          <5>3. after.k <= after.i /\ after.k <= nextAbs'
              BY <4>0, <4>2, <5>1
          <5>4. (after.i - after.k) + after.batch <= after.toRead
              BY <2>2, <2>9, <4>0, <4>2, <5>1
          <5> QED BY <5>2, <5>3, <5>4
        <4> QED BY <2>11, <4>1, <4>2
      <3>4. nextAbs' + (after.toRead - after.i) = nextAbs + (pass.toRead - pass.i)
          BY <1>1, <1>2, <2>2, <2>11
      <3>5. nextAbs' + (after.toRead - after.i) <= after.now
            /\ (~overtaken' => nextAbs' + (after.toRead - after.i) = after.now)
          BY <1>1, <2>3, <2>11, <3>4
      <3>6. pc' = "read" => after.k = 0
          BY <1>1, <2>10, <2>11, <2>2
      <3>7. after.now <= NowPar'
          BY <1>2, <3>1
      <3> QED BY <2>6, <3>1, <3>2, <3>5, <3>6, <3>7, Zenon DEF PassOK, after
    <2>14. CASE pass.k + 1 < pass.batch
      <3>1. after.k = pass.k + 1 /\ after.batch = pass.batch /\ UNCHANGED <<pc, buf, samples>>
          BY <2>10, <2>11, <2>14, <2>2
      <3> HIDE DEF after
      <3>2. ChainOK'
          BY <1>1, <3>1 DEF DrainInv, ChainOK, FullPars, after
      <3>3. BufOK'
        <4>1. Base' = Base
            BY <1>1, <1>2, <2>2, <3>1 DEF Base, after
        <4>2. \A j : Bound(Group(j))' = Bound(Group(j))
            BY <1>2, <3>1 DEF Bound, Group, Par
        <4> QED BY <1>2, <3>1, <4>1, <4>2 DEF DrainInv, BufOK
      <3>4. LooksOK'
        <4> SUFFICES ASSUME ~overtaken PROVE LooksOK'
            BY <1>1 DEF LooksOK
        <4>1. Counted' = G
            BY <2>1, <2>11 DEF Counted, after
        <4>2. /\ \A g \in 1 .. Len(samples) - 1 : Near(samples[g], samples[g + 1])
              /\ look = IF samples = <<>> THEN Counted ELSE samples[Len(samples)]
              /\ samples # <<>>
            BY <1>1, <1>2 DEF DrainInv, LooksOK, ChainOK
        <4>3. GroupNow' = samples[((pass.k + 1) \div NowEvery) + 1]
            BY <3>1 DEF GroupNow, after
        <4>4. IF (pass.k + 1) % NowEvery = 0 THEN Near(G, GroupNow') ELSE G = GroupNow'
          <5> DEFINE q == pass.k \div NowEvery
          <5>1. \/ (pass.k + 1) \div NowEvery = q /\ (pass.k + 1) % NowEvery = (pass.k % NowEvery) + 1
                \/ (pass.k + 1) \div NowEvery = q + 1 /\ (pass.k + 1) % NowEvery = 0
              BY <2>2, Constants, DivStep
          <5>2. q \in Nat /\ pass.k % NowEvery \in Nat
            <6>1. q \in Nat /\ pass.k % NowEvery \in 0 .. NowEvery - 1
                BY <2>2, Constants, DivMod
            <6> HIDE DEF q
            <6> QED BY <6>1, Constants
          <5>3. G = samples[q + 1]
              BY DEF G, GroupNow
          <5>4. CASE (pass.k + 1) % NowEvery = 0
            <6>1. (pass.k + 1) \div NowEvery = q + 1
                BY <5>1, <5>2, <5>4
            <6>2. q + 2 <= Len(samples) /\ Len(samples) \in Nat
              <7>1. Len(samples) \in Nat /\ pass.batch <= Len(samples) * NowEvery
                  BY <1>1, <1>2 DEF DrainInv, ChainOK, Types
              <7>2. pass.k + 1 \in Nat /\ pass.k + 1 < Len(samples) * NowEvery
                  BY <2>2, <2>14, <7>1, Constants
              <7>3. (pass.k + 1) \div NowEvery < Len(samples)
                  BY <7>1, <7>2, Constants, DivLess
              <7> HIDE DEF q
              <7> QED BY <5>2, <6>1, <7>1, <7>3
            <6> HIDE DEF q
            <6>3. q + 1 \in 1 .. Len(samples) - 1 /\ (q + 1) + 1 = q + 2
                BY <5>2, <6>2
            <6>4. Near(samples[q + 1], samples[(q + 1) + 1])
                BY <4>2, <6>3
            <6> QED BY <4>3, <5>3, <5>4, <6>1, <6>4
          <5>5. CASE (pass.k + 1) % NowEvery # 0
              BY <4>3, <5>1, <5>3, <5>5
          <5> QED BY <5>4, <5>5
        <4>5. after.prev = G % Total /\ look' = look
            BY <1>1, <2>11
        <4>6. pc' = "judge"
            BY <1>1, <3>1
        <4> QED BY <2>6, <3>1, <4>1, <4>2, <4>4, <4>5, <4>6 DEF LooksOK, after
      <3> QED BY <1>4, <2>12, <2>13, <3>2, <3>3, <3>4 DEF DrainInv
    <2>15. CASE pass.k + 1 = pass.batch
      <3>1. /\ after.k = 0 /\ after.batch = batch
            /\ pc' = "read" /\ buf' = <<>> /\ samples' = <<>>
          BY <2>10, <2>11, <2>15, <2>2
      <3> HIDE DEF after
      <3>2. ChainOK'
        <4>1. FullPars' = 0 /\ Len(buf') % Words = 0
          <5>1. (0 * Words + 0) \div Words = 0 /\ (0 * Words + 0) % Words = 0
              BY Constants, DivUnique
          <5> QED BY <3>1, <5>1, Constants DEF FullPars
        <4>2. Len(samples') = 0 /\ 0 * NowEvery = 0 /\ (0 + 1) * NowEvery = NowEvery
            BY <3>1, Constants
        <4>3. after.batch \in Nat /\ 0 < after.batch
            BY <2>9, <3>1, Constants
        <4> QED BY <3>1, <4>1, <4>2, <4>3, Constants DEF ChainOK, after
      <3>3. BufOK'
          BY <3>1 DEF BufOK
      <3>4. LooksOK'
        <4> SUFFICES ASSUME ~overtaken PROVE LooksOK'
            BY <1>1 DEF LooksOK
        <4>1. Counted' = G
            BY <2>1, <2>11 DEF Counted, after
        <4>2. samples # <<>> /\ look = samples[Len(samples)]
            BY <1>1, <1>2 DEF DrainInv, LooksOK, ChainOK
        <4>3. (pass.k \div NowEvery) + 1 = Len(samples)
          <5> DEFINE q == pass.k \div NowEvery
                     S == Len(samples)
          <5>1. S \in Nat /\ S > 0 /\ (S - 1) * NowEvery < pass.batch /\ S - 1 \in Nat
                /\ (S - 1) * NowEvery \in Nat
            <6>1. S \in Nat /\ S > 0
                BY <1>2, <4>2 DEF Types
            <6>2. (S - 1) * NowEvery < pass.batch
                BY <1>1 DEF DrainInv, ChainOK
            <6> HIDE DEF S
            <6> QED BY <6>1, <6>2, Constants
          <5>2. q + 1 \in 1 .. S
              BY <2>1
          <5> HIDE DEF S
          <5>3. ~ (pass.k < (S - 1) * NowEvery)
              BY <2>2, <2>15, <5>1
          <5>4. ~ (pass.k \div NowEvery < S - 1)
              BY <2>2, <5>1, <5>3, Constants, DivLess
          <5>5. q \in Nat
              BY <2>2, Constants, DivMod
          <5> HIDE DEF q
          <5>6. ~ (q < S - 1)
              BY <5>4 DEF q
          <5>7. q + 1 = S
              BY <5>1, <5>2, <5>5, <5>6
          <5> QED BY <5>7 DEF q, S
        <4>4. look' = G
            BY <1>1, <4>2, <4>3 DEF G, GroupNow
        <4>5. after.prev = G % Total
            BY <2>11
        <4> QED BY <3>1, <4>1, <4>4, <4>5 DEF LooksOK, after
      <3> QED BY <1>4, <2>12, <2>13, <3>2, <3>3, <3>4 DEF DrainInv
    <2> QED BY <2>10, <2>14, <2>15
  <1> QED BY <1>6, <1>7

-----------------------------------------------------------------------------
(* dap_trace_finish's last record, and the end without it. *)
LEMMA FinalKeeps == ASSUME DrainInv, PublishFinal \/ FinalFail PROVE DrainInv'
  <1>1. /\ pc = "final" /\ pc' = "stopped"
        /\ UNCHANGED <<wrote, tracing, finishing, nextPar, pendingLost, pass, buf, samples, last,
                       look, nextAbs, overtaken>>
      BY DEF PublishFinal, FinalFail, target, chain, seen
  <1>2. Types /\ NowPar \in Nat /\ wrote \in Nat /\ wrote \in 0 .. MaxWords /\ seq \in Nat
      BY NowBound DEF DrainInv, Types
  <1>3. NowPar' = NowPar /\ ~InPass /\ ~InPass' /\ Lost' = Lost
      BY <1>1 DEF NowPar, InPass, Lost
  <1>4. PassOK' /\ ChainOK' /\ BufOK' /\ LooksOK'
      BY <1>1, <1>3 DEF DrainInv, PassOK, ChainOK, BufOK, LooksOK
  <1>5. CASE PublishFinal
    <2> DEFINE words == [w \in 1 .. Words |-> TramWord(pass.now % Total, w - 1)]
               r == [seq |-> seq, par |-> pass.now % Total, lost |-> 0, final |-> TRUE,
                     words |-> words, num |-> pass.now]
    <2>1. Publish(r)
        BY <1>5 DEF PublishFinal
    <2>2. r \in Record
      <3>1. words \in [1 .. Words -> Nat]
          BY <1>2, TramWordNat
      <3>2. pass.now \in Nat
          BY <1>2 DEF Types, PassType
      <3>3. pass.now % Total \in Nat
        <4>1. pass.now % Total \in 0 .. Total - 1
            BY <3>2, Constants, DivMod
        <4> QED BY <4>1, Constants
      <3> HIDE DEF words
      <3> QED BY <1>2, <3>1, <3>2, <3>3 DEF Record
    <2>3. r.final /\ r.seq = seq
        OBVIOUS
    <2> HIDE DEF r
    <2>4. ~overtaken => Intact(r, NowPar)
        BY <2>3 DEF Intact
    <2>5. Types /\ StreamOK /\ UNCHANGED <<last, wrote, overtaken>> /\ pc # "stopped"
        BY <1>1, <1>2 DEF DrainInv
    <2>6. StreamOK' /\ ring' \in Seq(Record) /\ Len(ring') <= RingRecords
        BY <1>1, <2>1, <2>2, <2>3, <2>4, <2>5, StreamPublished
    <2>7. seq' \in Nat
        BY <1>2, <2>1 DEF Publish
    <2>8. Types'
        BY <1>1, <1>2, <1>3, <2>6, <2>7 DEF Types
    <2> QED BY <1>4, <2>6, <2>8 DEF DrainInv
  <1>6. CASE FinalFail
    <2>1. UNCHANGED <<seq, ring>>
        BY <1>6 DEF FinalFail
    <2>2. Types'
        BY <1>1, <1>2, <1>3, <2>1 DEF Types
    <2>3. StreamOK'
        BY <1>1, <1>2, <1>3, <2>1, StreamStays DEF DrainInv
    <2> QED BY <1>4, <2>2, <2>3 DEF DrainInv
  <1> QED BY <1>5, <1>6

(* The host takes a record: what it has and will get moves on by at most one. *)
LEMMA ReceiveKeeps == ASSUME DrainInv, Receive PROVE DrainInv'
  <1>1. /\ ring # <<>> /\ last' = Head(ring) /\ ring' = Tail(ring)
        /\ UNCHANGED <<wrote, tracing, pc, finishing, nextPar, pendingLost, seq, pass, buf,
                       samples, look, nextAbs, overtaken>>
      BY DEF Receive, target, chain, seen
  <1>2. Types /\ ring \in Seq(Record) /\ last \in Record \cup {NoRecord}
      BY DEF DrainInv, Types
  <1>3. NowPar' = NowPar /\ FullPars' = FullPars /\ Lost' = Lost /\ InPass' = InPass
      BY <1>1 DEF NowPar, FullPars, Lost, InPass
  <1>4. last' \in Record /\ ring' \in Seq(Record) /\ Len(ring') = Len(ring) - 1 /\ Len(ring) \in Nat
        /\ Len(ring) > 0 /\ ring[1] = last' /\ \A j \in 1 .. Len(ring') : ring'[j] = ring[j + 1]
      BY <1>1, <1>2
  <1>5. last' # NoRecord
    <2>1. \A r \in Record : r.words \in [1 .. Words -> Nat]
        BY DEF Record
    <2>2. NoRecord.words = <<>>
        BY DEF NoRecord
    <2>3. DOMAIN NoRecord.words = {} /\ 1 \in 1 .. Words
        BY <2>2, Constants
    <2> QED BY <1>4, <2>1, <2>3
  <1>6. Types'
      BY <1>1, <1>2, <1>3, <1>4, Constants DEF Types
  <1>7. PassOK' /\ ChainOK' /\ BufOK' /\ LooksOK'
      BY <1>1, <1>3 DEF DrainInv, PassOK, ChainOK, BufOK, LooksOK, Base, Bound, Group, Par, Place,
                        Counted, GroupNow, InPass
  <1> DEFINE n == Len(Stream)
             m == Len(Stream')
             o == IF last = NoRecord THEN 0 ELSE 1
  <1>8. /\ n \in Nat /\ m \in Nat /\ n = m + o /\ m > 0
        /\ \A j \in 1 .. m : Stream'[j] = Stream[j + o]
    <2>1. /\ n = o + Len(ring)
          /\ \A j \in 1 .. n :
               Stream[j] = IF last = NoRecord THEN ring[j] ELSE IF j = 1 THEN last ELSE ring[j - 1]
        BY <1>2, StreamSeq
    <2>2. Stream' = ring
        BY <1>1, <1>2, <1>4, <1>5 DEF Stream
    <2>3. m = Len(ring)
        BY <2>2
    <2> HIDE DEF n, m
    <2> QED BY <1>4, <2>1, <2>2, <2>3
  <1> HIDE DEF o, m, n
  <1>9. o \in 0 .. 1
      BY DEF o
  <1>10. StreamOK'
    <2>1. ~overtaken' => \A j \in 1 .. m : Intact(Stream'[j], NowPar')
      <3> SUFFICES ASSUME ~overtaken, NEW j \in 1 .. m PROVE Intact(Stream'[j], NowPar)
          BY <1>1, <1>3
      <3>1. j + o \in 1 .. n
          BY <1>8, <1>9
      <3>2. Intact(Stream[j + o], NowPar)
          BY <3>1 DEF DrainInv, StreamOK, n
      <3> QED BY <1>8, <3>2
    <2>2. \A j \in 1 .. m - 1 : Told(Stream'[j], Stream'[j + 1])
      <3> TAKE j \in 1 .. m - 1
      <3>1. j + o \in 1 .. n - 1 /\ j \in 1 .. m /\ j + 1 \in 1 .. m /\ (j + 1) + o = (j + o) + 1
          BY <1>8, <1>9
      <3>2. Told(Stream[j + o], Stream[(j + o) + 1])
          BY <3>1 DEF DrainInv, StreamOK, n
      <3>3. Stream'[j] = Stream[j + o] /\ Stream'[j + 1] = Stream[(j + o) + 1]
          BY <1>8, <3>1
      <3> QED BY <3>2, <3>3
    <2>3. pc' # "stopped" => NextTold(Stream[n])
        BY <1>1, <1>8, <1>9 DEF DrainInv, StreamOK, n
    <2>4. Stream'[m] = Stream[n]
        BY <1>8, <1>9
    <2>5. pc' # "stopped" => NextTold(Stream[Len(Stream)])'
        BY <1>1, <1>3, <2>3, <2>4 DEF NextTold, m
    <2> QED BY <2>1, <2>2, <2>5 DEF StreamOK, m
  <1> QED BY <1>6, <1>7, <1>10 DEF DrainInv

(***************************************************************************)
(* The theorems.                                                           *)
(***************************************************************************)
(* Every step of the system is one of those above. *)
LEMMA DrainStep == DrainInv /\ [Next]_vars => DrainInv'
  <1> SUFFICES ASSUME DrainInv, [Next]_vars PROVE DrainInv'
      OBVIOUS
  <1>1. CASE WriteWord \/ Flush
      BY <1>1, TargetKeeps
  <1>2. CASE Poll
      BY <1>2, StartKeeps DEF Poll
  <1>3. CASE Finish
      BY <1>3, StartKeeps DEF Finish
  <1>4. CASE NowFail
      BY <1>4, NowFailKeeps
  <1>5. CASE ReadWord
      BY <1>5, ReadWordKeeps
  <1>6. CASE ReadNow
      BY <1>6, ReadNowKeeps
  <1>7. CASE ReadFail
      BY <1>7, ReadFailKeeps
  <1>8. CASE GiveUp
      BY <1>8, GiveUpKeeps
  <1>9. CASE PublishPar
      BY <1>9, PublishParKeeps
  <1>10. CASE PublishFinal \/ FinalFail
      BY <1>10, FinalKeeps
  <1>11. CASE Receive
      BY <1>11, ReceiveKeeps
  <1>12. CASE FinishBeside
      BY <1>12, FinishBesideKeeps
  <1>13. CASE UNCHANGED vars
    <2>1. wrote \in 0 .. MaxWords /\ tracing \in BOOLEAN /\ wrote <= wrote
        BY Constants DEF DrainInv, Types
    <2> QED BY <1>13, <2>1, DrainLeft DEF vars, target, seen
  <1> QED BY <1>1, <1>2, <1>3, <1>4, <1>5, <1>6, <1>7, <1>8, <1>9, <1>10, <1>11, <1>12, <1>13
      DEF Next

(* The drain keeps its invariant through every step of the target, the       *)
(* drain and the host.                                                       *)
THEOREM DrainInvariant == Spec => []DrainInv
  <1>1. DrainInv /\ [Next]_vars => DrainInv'
      BY DrainStep
  <1> QED BY <1>1, DrainInit, PTL DEF Spec

(* dap_trace.c drain_to: the paragraph it reads is always one of the TRAM,   *)
(* and a chain never holds more words than its paragraphs have.              *)
THEOREM DrainTypeOK == Spec => []TypeOK
  <1>1. DrainInv => TypeOK
    <2> SUFFICES ASSUME DrainInv PROVE TypeOK
        OBVIOUS
    <2>1. Types /\ PassOK /\ pass \in PassType /\ buf \in Seq(Nat)
        BY DEF DrainInv, Types
    <2>2. nextPar \in Paragraphs
      <3>1. nextAbs % Total \in 0 .. Total - 1
          BY <2>1, Constants, DivMod DEF Types
      <3> QED BY <2>1, <3>1 DEF Types, Paragraphs
    <2>3. /\ pass.toRead \in Nat /\ pass.i \in Nat /\ pass.batch \in Nat
        BY <2>1 DEF PassType
    <2>4. pass.toRead \in Paragraphs /\ pass.i \in 0 .. pass.toRead /\ pass.batch \in 0 .. ChainPars
      <3>1. CASE InPass
          BY <2>1, <2>3, <3>1, Constants DEF PassOK, Paragraphs
      <3>2. CASE ~InPass
          BY <2>1, <3>2, Constants DEF PassOK, Paragraphs
      <3> QED BY <3>1, <3>2
    <2>5. Len(buf) <= pass.batch * Words
      <3>1. CASE pc = "judge"
          BY <2>1, <2>3, <3>1, Constants DEF DrainInv, ChainOK
      <3>2. CASE pc = "read"
        <4>1. FullPars <= pass.batch /\ (FullPars = pass.batch => Len(buf) % Words = 0)
            BY <3>2 DEF DrainInv, ChainOK
        <4>2. FullPars \in Nat /\ Len(buf) \in Nat /\ Len(buf) = FullPars * Words + (Len(buf) % Words)
            BY <2>1, FullParsIs
        <4>3. CASE FullPars = pass.batch
            BY <2>3, <4>1, <4>2, <4>3, Constants
        <4>4. CASE FullPars < pass.batch
          <5>1. Len(buf) < pass.batch * Words
              BY <2>3, <4>2, <4>4, Constants, DivLess DEF FullPars
          <5> QED BY <2>3, <4>2, <5>1, Constants
        <4> QED BY <2>3, <4>1, <4>2, <4>3, <4>4
      <3>3. CASE ~InPass
        <4>1. buf = <<>> /\ pass.batch = 0
            BY <2>1, <3>3 DEF PassOK
        <4>2. Len(buf) = 0 /\ 0 * Words = 0
            BY <4>1, Constants
        <4> QED BY <4>1, <4>2
      <3> QED BY <3>1, <3>2, <3>3 DEF InPass
    <2> QED BY <2>1, <2>2, <2>4, <2>5 DEF Types, TypeOK
  <1> QED BY <1>1, DrainInvariant, PTL

(* The words of an intact record name its paragraph. *)
LEMMA ParOfIntact ==
  ASSUME NEW r \in Record, ~r.final, NEW now, Intact(r, now)
  PROVE  ParOf(r) = r.num
  <1>1. r.words[1] = r.num * Words + (1 - 1) /\ r.num \in Nat
      BY Constants DEF Intact, Record
  <1>2. r.words[1] = r.num * Words + 0 /\ 0 \in 0 .. Words - 1
      BY <1>1, Constants
  <1> QED BY <1>1, <1>2, Constants, DivUnique DEF ParOf

(* dap_trace.c drain_to: no paragraph torn by the writer is published, unless *)
(* the writer moved a lap or more between two looks at FIFONOW.              *)
THEOREM DrainPublishedIntact == Spec => []PublishedIntact
  <1>1. DrainInv => PublishedIntact
    <2> SUFFICES ASSUME DrainInv, ~overtaken, NEW j \in 1 .. Len(Stream), ~Stream[j].final
                 PROVE  /\ \A w \in 1 .. Words :
                             Stream[j].words[w] = ParOf(Stream[j]) * Words + w - 1
                        /\ ParOf(Stream[j]) < NowPar
        BY DEF PublishedIntact
    <2> DEFINE r == Stream[j]
    <2>1. Stream \in Seq(Record) /\ Intact(r, NowPar)
        BY StreamSeq DEF DrainInv, Types, StreamOK
    <2>2. r \in Record
        BY <2>1
    <2> HIDE DEF r
    <2>3. ParOf(r) = r.num /\ r.num \in Nat
      <3>1. ~r.final
          BY DEF r
      <3> QED BY <2>1, <2>2, <3>1, ParOfIntact DEF Record
    <2>4. r.num < NowPar /\ \A w \in 1 .. Words : r.words[w] = r.num * Words + (w - 1)
      <3>1. ~r.final
          BY DEF r
      <3> QED BY <2>1, <3>1 DEF Intact
    <2>5. \A w \in 1 .. Words : r.num * Words + (w - 1) = r.num * Words + w - 1
        BY <2>3, Constants
    <2> QED BY <2>3, <2>4, <2>5 DEF r
  <1> QED BY <1>1, DrainInvariant, PTL

(* dap_trace.c drain_to, publish_flags, dap_trace_finish: two records in a row *)
(* carry neighbouring paragraphs or tell of a gap, whatever was lost between   *)
(* them to a lap, a tear, a failed read or a full ring.                        *)
THEOREM DrainNoSilentGap == Spec => []NoSilentGap
  <1>1. DrainInv => NoSilentGap
    <2> SUFFICES ASSUME DrainInv, ~overtaken, NEW j \in 1 .. Len(Stream) - 1,
                        ~Stream[j].final, ~Stream[j + 1].final
                 PROVE  Follows(Stream[j], Stream[j + 1])
        BY DEF NoSilentGap
    <2>1. Stream \in Seq(Record) /\ Len(Stream) \in Nat
        BY StreamSeq DEF DrainInv, Types
    <2>2. j \in 1 .. Len(Stream) /\ j + 1 \in 1 .. Len(Stream)
        BY <2>1
    <2>3. Stream[j] \in Record /\ Stream[j + 1] \in Record
        BY <2>1, <2>2
    <2>4. Intact(Stream[j], NowPar) /\ Intact(Stream[j + 1], NowPar) /\ Told(Stream[j], Stream[j + 1])
        BY <2>2 DEF DrainInv, StreamOK
    <2>5. ParOf(Stream[j]) = Stream[j].num /\ ParOf(Stream[j + 1]) = Stream[j + 1].num
        BY <2>3, <2>4, ParOfIntact
    <2> QED BY <2>4, <2>5 DEF Told, Follows
  <1> QED BY <1>1, DrainInvariant, PTL
===============================================================================
