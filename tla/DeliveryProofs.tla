--------------------------- MODULE DeliveryProofs ---------------------------
(***************************************************************************)
(* The theorems about four parts of the machine of MCBackends that take    *)
(* speech or text in and have to give all of it: the Paraformer stream the *)
(* frames of an utterance, the splitter its audio, the guard its text, the *)
(* cutters the text for speech.                                            *)
(* Each invariant is about the variables of its part alone, which a step   *)
(* of another part leaves as they are.                                     *)
(***************************************************************************)
EXTENDS MCBackends, Integers, Sequences, TLAPS, WellFoundedInduction, SequenceTheorems

(***************************************************************************)
(* Numbers and sequences.                                                  *)
(***************************************************************************)
\* A nonempty set of numbers has a least one.
LEMMA LeastExists ==
  ASSUME NEW S \in SUBSET Nat, S # {}
  PROVE  \E x \in S : \A y \in S : x <= y
  <1>1. PICK x \in S : \A y \in S : ~(<<y, x>> \in OpToRel(<, Nat))
    BY NatLessThanWellFounded, WFMin
  <1>2. \A y \in S : ~(y < x)
    BY <1>1 DEF OpToRel
  <1> QED
    BY <1>2

\* One with a bound has a greatest.
LEMMA GreatestExists ==
  ASSUME NEW S \in SUBSET Nat, S # {}, NEW n \in Nat, \A x \in S : x <= n
  PROVE  \E x \in S : \A y \in S : x >= y
  <1> DEFINE T == {n - x : x \in S}
  <1>1. T \in SUBSET Nat /\ T # {}
    OBVIOUS
  <1>2. PICK t \in T : \A u \in T : t <= u
    BY <1>1, LeastExists
  <1>3. PICK x \in S : t = n - x
    BY <1>2
  <1>4. \A y \in S : n - y \in T
    OBVIOUS
  <1> HIDE DEF T
  <1>5. \A y \in S : x >= y
    BY <1>2, <1>3, <1>4
  <1> QED
    BY <1>5

\* A part of a sequence, and two sequences in a row.
LEMMA PartOf ==
  ASSUME NEW X, NEW s \in Seq(X), NEW m \in 1 .. Len(s) + 1, NEW n \in m - 1 .. Len(s)
  PROVE  /\ SubSeq(s, m, n) \in Seq(X) /\ Len(SubSeq(s, m, n)) = n - m + 1
         /\ \A i \in 1 .. n - m + 1 : SubSeq(s, m, n)[i] = s[m + i - 1]
  OBVIOUS

LEMMA InARow ==
  ASSUME NEW X, NEW s \in Seq(X), NEW r \in Seq(X)
  PROVE  /\ s \o r \in Seq(X) /\ Len(s \o r) = Len(s) + Len(r)
         /\ \A i \in 1 .. Len(s) + Len(r) :
               (s \o r)[i] = IF i <= Len(s) THEN s[i] ELSE r[i - Len(s)]
  OBVIOUS

\* Multiples, and how many fit.
LEMMA Multiples ==
  ASSUME NEW k \in Nat, NEW l \in Nat, NEW d \in Nat, k <= l
  PROVE  k * d \in Nat /\ l * d \in Nat /\ k * d <= l * d /\ (k + 1) * d = k * d + d
  OBVIOUS

LEMMA HowManyFit ==
  ASSUME NEW m \in Nat, NEW d \in Nat \ {0}, NEW k \in Nat
  PROVE  /\ m \div d \in Nat /\ m \div d <= m
         /\ k <= m \div d => k * d <= m
         /\ k * d <= m => k <= m \div d
  <1> DEFINE q == m \div d
             r == m % d
  <1>1. q \in Nat /\ r \in Nat /\ m = q * d + r /\ r < d
    OBVIOUS
  <1> HIDE DEF q, r
  <1>2. q <= q * d /\ q * d \in Nat
    BY <1>1
  <1>3. k <= q => k * d <= q * d
    BY <1>1
  <1>4. ~(k <= q) => k * d >= (q + 1) * d
    BY <1>1
  <1>5. (q + 1) * d = q * d + d /\ k * d \in Nat
    BY <1>1
  <1> QED
    BY <1>1, <1>2, <1>3, <1>4, <1>5 DEF q

(***************************************************************************)
(* ParaformerStream.  The history of what was fed is the first frames of   *)
(* the utterance, and its weight is the tokens fired, whether the decoder  *)
(* gave them or not, and the carry; that what an answer accounts for       *)
(* rounds the weight is arithmetic about these.                            *)
(***************************************************************************)
\* What the constants of Paraformer are: lengths and weights, and a threshold.
ParaformerConstants ==
    /\ Window \in Nat /\ MinPiece \in Nat \ {0} /\ MinPiece <= Window /\ Lookahead \in Nat /\ Chunk \in Nat
    /\ Threshold \in Nat \ {0} /\ MaxWeight \in Nat /\ MaxFrames \in Nat

\* The first n frames.
Upto(n) == [i \in 1 .. n |-> i]

\* A frame of an utterance, or 0 for one of padding behind its n frames.
FrameOf(n, i) == IF i <= n THEN i ELSE 0

CallRecord == [total : Nat, at : Nat, encoded : BOOLEAN, fed : Seq(Nat),
               weight : Nat, tokens : Nat, missed : Nat, carry : Nat]

UtteranceTypes ==
    /\ audioBuf \in Nat /\ heard \in Nat /\ cifDone \in Nat /\ carry \in Nat
    /\ tokens \in Nat /\ weight \in Nat /\ missed \in Nat /\ doubled \in Nat
    /\ offline \in CallRecord

\* While the utterance fits the window, what CIF has taken is its beginning.
StreamFed == heard <= Window => cifDone <= heard /\ fed = Upto(cifDone)

\* Of an offline call, all that its pieces have covered, unless one was left out.
\* Only the last piece is padded.
CallFed ==
    /\ offline.at <= offline.total
    /\ offline.encoded =>
         /\ Len(offline.fed) >= offline.at /\ Len(offline.fed) < offline.at + Window
         /\ offline.at < offline.total => Len(offline.fed) = offline.at
         /\ \A i \in 1 .. Len(offline.fed) : offline.fed[i] = FrameOf(offline.total, i)

\* The weight so far is the tokens fired and what is carried over.
WeightKept ==
    /\ carry < Threshold /\ weight = Threshold * (tokens + missed) + carry
    /\ offline.carry < Threshold
    /\ offline.weight = Threshold * (offline.tokens + offline.missed) + offline.carry

\* The inductive invariant.
ParaformerIInv ==
    UtteranceTypes /\ StreamFed /\ CallFed /\ WeightKept /\ Paraformer!UtteranceIsAccounted

\* The lesser and the greater of two numbers.
LEMMA LesserOf ==
  ASSUME NEW m \in Int, NEW n \in Int
  PROVE  Paraformer!Min({m, n}) = IF m <= n THEN m ELSE n
  <1>1. PICK x \in {m, n} : \A y \in {m, n} : x <= y
    BY SMT
  <1>2. /\ Paraformer!Min({m, n}) \in {m, n}
        /\ \A y \in {m, n} : Paraformer!Min({m, n}) <= y
    BY <1>1 DEF Paraformer!Min
  <1> QED
    BY <1>2

LEMMA GreaterOf ==
  ASSUME NEW m \in Int, NEW n \in Int
  PROVE  Paraformer!Max({m, n}) = IF m >= n THEN m ELSE n
  <1>1. PICK x \in {m, n} : \A y \in {m, n} : x >= y
    BY SMT
  <1>2. /\ Paraformer!Max({m, n}) \in {m, n}
        /\ \A y \in {m, n} : Paraformer!Max({m, n}) >= y
    BY <1>1 DEF Paraformer!Max
  <1> QED
    BY <1>2

\* The next frames follow on.
LEMMA Joined ==
  ASSUME NEW s \in Seq(Nat), NEW r \in Seq(Nat)
  PROVE  /\ s \o r \in Seq(Nat) /\ Len(s \o r) = Len(s) + Len(r)
         /\ \A i \in 1 .. Len(s) + Len(r) :
               (s \o r)[i] = IF i <= Len(s) THEN s[i] ELSE r[i - Len(s)]
  OBVIOUS

\* The first m frames and those that follow are the first n.
LEMMA UptoGoesOn ==
  ASSUME NEW m \in Nat, NEW n \in Nat, m <= n,
         NEW next, next = [i \in 1 .. n - m |-> m + i]
  PROVE  Upto(m) \o next = Upto(n)
  <1>1. Upto(m) \in Seq(Nat) /\ Len(Upto(m)) = m /\ next \in Seq(Nat) /\ Len(next) = n - m
    BY DEF Upto
  <1> DEFINE both == Upto(m) \o next
  <1>2. /\ both \in Seq(Nat) /\ Len(both) = n
        /\ \A i \in 1 .. n : both[i] = IF i <= m THEN Upto(m)[i] ELSE next[i - m]
    <2>1. Len(Upto(m)) + Len(next) = n
      BY <1>1
    <2>2. both \in Seq(Nat) /\ Len(both) = Len(Upto(m)) + Len(next)
      BY <1>1, Joined
    <2>3. \A i \in 1 .. Len(Upto(m)) + Len(next) :
             both[i] = IF i <= Len(Upto(m)) THEN Upto(m)[i] ELSE next[i - Len(Upto(m))]
      BY <1>1, Joined
    <2> HIDE DEF both
    <2>4. Len(both) = n
      BY <2>1, <2>2
    <2>5. \A i \in 1 .. n : both[i] = IF i <= m THEN Upto(m)[i] ELSE next[i - m]
      BY <1>1, <2>1, <2>3
    <2> QED
      BY <2>2, <2>4, <2>5
  <1>3. \A i \in 1 .. n : both[i] = i
    BY <1>1, <1>2 DEF Upto
  <1>4. both = [i \in 1 .. n |-> both[i]]
    BY <1>2
  <1> QED
    BY <1>3, <1>4 DEF Upto

\* Weight that comes in becomes tokens and a new carry.
LEMMA Fires ==
  ASSUME ParaformerConstants, NEW t \in Nat, NEW c \in Nat, NEW w \in Nat,
         NEW q, q = (c + w) \div Threshold, NEW r, r = (c + w) % Threshold
  PROVE  /\ q \in Nat /\ r \in Nat /\ r < Threshold
         /\ (Threshold * t + c) + w = Threshold * (t + q) + r
  <1>1. Threshold \in Nat /\ Threshold > 0 /\ c + w \in Nat
    BY DEF ParaformerConstants
  <1>2. q \in Nat /\ r \in 0 .. Threshold - 1 /\ c + w = Threshold * q + r
    BY <1>1
  <1>3. Threshold * (t + q) = Threshold * t + Threshold * q
    BY <1>1, <1>2
  <1>4. PICK a \in Nat, b \in Nat : a = Threshold * t /\ b = Threshold * q
    BY <1>1, <1>2
  <1>5. (Threshold * t + c) + w = Threshold * (t + q) + r
    <2>1. Threshold * t = a /\ c + w = b + r /\ Threshold * (t + q) = a + b
      BY <1>2, <1>3, <1>4
    <2> QED
      BY <1>1, <1>2, <2>1
  <1>6. r \in Nat /\ r < Threshold
    BY <1>1, <1>2
  <1> QED
    BY <1>2, <1>5, <1>6

\* Euclid's division has one result.
LEMMA DividesAs ==
  ASSUME NEW u \in Nat, NEW k \in Nat, NEW e \in Nat, e < u
  PROVE  (u * k + e) \div u = k
  <1>1. PICK a \in Nat : a = u * k
    OBVIOUS
  <1>2. PICK x \in Nat, r \in 0 .. u - 1 : x = (a + e) \div u /\ a + e = u * x + r
    BY <1>1
  <1>3. ~(x < k)
    <2>1. SUFFICES ASSUME x < k PROVE FALSE
      OBVIOUS
    <2>2. PICK z \in Nat : k = x + 1 + z
      BY <2>1
    <2>3. a = u * x + u + u * z /\ u * x \in Nat /\ u * z \in Nat
      BY <1>1, <2>2
    <2> QED
      BY <1>2, <2>3
  <1>4. ~(k < x)
    <2>1. SUFFICES ASSUME k < x PROVE FALSE
      OBVIOUS
    <2>2. PICK z \in Nat : x = k + 1 + z
      BY <2>1
    <2>3. u * x = a + u + u * z /\ u * z \in Nat
      BY <1>1, <2>2
    <2> QED
      BY <1>2, <2>3
  <1> QED
    BY <1>1, <1>2, <1>3, <1>4

\* The tokens and the tail round the weight.
LEMMA Rounds ==
  ASSUME ParaformerConstants, NEW t \in Nat, NEW c \in Nat, c < Threshold
  PROVE  t + Paraformer!TailToken(c)
            = (2 * (Threshold * t + c) + Threshold) \div (2 * Threshold)
  <1>1. Threshold \in Nat /\ Threshold > 0
    BY DEF ParaformerConstants
  <1>2. PICK d \in 0 .. 1 : d = Paraformer!TailToken(c)
    BY DEF Paraformer!TailToken
  <1>3. PICK u \in Nat : u = 2 * Threshold /\ u > 0
    BY <1>1
  <1>4. PICK e \in Nat : 2 * c + Threshold = d * u + e /\ e < u
    <2>1. CASE 2 * c >= Threshold
      <3>1. d = 1
        BY <1>2, <2>1 DEF Paraformer!TailToken
      <3>2. d * u = u
        BY <3>1
      <3> QED
        BY <1>1, <1>3, <2>1, <3>2
    <2>2. CASE ~(2 * c >= Threshold)
      <3>1. d = 0
        BY <1>2, <2>2 DEF Paraformer!TailToken
      <3>2. d * u = 0
        BY <3>1
      <3> QED
        BY <1>1, <1>3, <2>2, <3>2
    <2> QED
      BY <2>1, <2>2
  <1>5. 2 * (Threshold * t + c) + Threshold = u * (t + d) + e
    <2>1. PICK p \in Nat : p = Threshold * t
      BY <1>1
    <2>2. PICK b \in Nat : b = d * u
      BY <1>2, <1>3
    <2>3. u * (t + d) = u * t + u * d
      BY <1>2, <1>3
    <2>4. u * t = 2 * p
      BY <1>1, <1>3, <2>1
    <2>5. u * (t + d) = 2 * p + b
      BY <1>2, <1>3, <2>2, <2>3, <2>4
    <2> QED
      BY <1>1, <1>4, <2>1, <2>2, <2>5
  <1>6. (u * (t + d) + e) \div u = t + d
    <2>1. t + d \in Nat
      BY <1>2
    <2> QED
      BY <1>3, <1>4, <2>1, DividesAs
  <1> QED
    BY <1>2, <1>3, <1>5, <1>6

\* No utterance, no call and no answer.
LEMMA NothingYet ==
  ASSUME ParaformerConstants
  PROVE  /\ Upto(0) = <<>> /\ 0 = Threshold * 0 + 0 /\ 0 < Threshold
         /\ answered = Paraformer!NoAnswer => Paraformer!UtteranceIsAccounted
         /\ answered' = Paraformer!NoAnswer => Paraformer!UtteranceIsAccounted'
  <1>1. Upto(0) = <<>>
    BY DEF Upto
  <1>2. Threshold \in Nat /\ Threshold > 0
    BY DEF ParaformerConstants
  <1>3. (2 * 0 + Threshold) \div (2 * Threshold) = 0
    BY <1>2, DividesAs
  <1>4. /\ answered = Paraformer!NoAnswer => Paraformer!UtteranceIsAccounted
        /\ answered' = Paraformer!NoAnswer => Paraformer!UtteranceIsAccounted'
    BY <1>3 DEF Paraformer!NoAnswer, Paraformer!UtteranceIsAccounted,
       Paraformer!StreamFramesOnce, Paraformer!CallFramesOnce, Paraformer!WeightIsDecoded
  <1> QED
    BY <1>1, <1>2, <1>4

\* It holds at the start.
LEMMA ParaformerInitIInv ==
  ASSUME ParaformerConstants, Paraformer!Init
  PROVE  ParaformerIInv
  <1>1. offline \in CallRecord /\ Len(offline.fed) = 0
    BY DEF Paraformer!Init, Paraformer!NoCall, CallRecord
  <1> QED
    BY <1>1, NothingYet DEF Paraformer!Init, ParaformerIInv, UtteranceTypes, StreamFed, CallFed,
       WeightKept, Paraformer!NoCall, ParaformerConstants

\* A stream that begins, or begins again.
LEMMA StartsOver ==
  ASSUME ParaformerConstants, ParaformerIInv, Paraformer!StartOver, UNCHANGED offline,
         Paraformer!UtteranceIsAccounted'
  PROVE  ParaformerIInv'
  BY NothingYet DEF Paraformer!StartOver, ParaformerIInv, UtteranceTypes, StreamFed, CallFed,
     WeightKept

\* An answer in which each frame is there and the weight is accounted for.
LEMMA AnswerIsWhole ==
  ASSUME ParaformerConstants, NEW t \in Nat, NEW c \in Nat, c < Threshold,
         answered'.tokens + answered'.missed = t + Paraformer!TailToken(c),
         answered'.weight = Threshold * t + c,
         Paraformer!StreamFramesOnce', Paraformer!CallFramesOnce'
  PROVE  Paraformer!UtteranceIsAccounted'
  <1>1. Paraformer!WeightIsDecoded'
    BY Rounds DEF Paraformer!WeightIsDecoded
  <1> QED
    BY <1>1 DEF Paraformer!UtteranceIsAccounted

\* What the decoder gives and what it refuses are together what it was asked for.
LEMMA GivenOrMissed ==
  ASSUME NEW t \in Nat, NEW m \in Nat, NEW q \in Nat, NEW decoded \in BOOLEAN,
         NEW given, given = t + (IF decoded THEN q ELSE 0),
         NEW refused, refused = m + (IF decoded THEN 0 ELSE q)
  PROVE  given \in Nat /\ refused \in Nat /\ given + refused = (t + m) + q
  <1>1. CASE decoded
    BY <1>1
  <1>2. CASE ~decoded
    BY <1>2
  <1> QED
    BY <1>1, <1>2

\* The frames a call sees of an utterance that fits the window are all there are.
LEMMA SeesAll ==
  ASSUME ParaformerConstants, NEW n \in Nat
  PROVE  /\ Paraformer!Seen(n) \in Nat /\ Paraformer!Offset(n) \in Nat
         /\ n <= Window => Paraformer!Seen(n) = n /\ Paraformer!Offset(n) = 0
  <1>1. Paraformer!Min({n, Window}) = IF n <= Window THEN n ELSE Window
    BY LesserOf DEF ParaformerConstants
  <1> QED
    BY <1>1 DEF Paraformer!Seen, Paraformer!Offset, ParaformerConstants

\* The weight of frames is bounded.
LEMMA WeightsAre ==
  ASSUME ParaformerConstants, NEW fs
  PROVE  Paraformer!WeightsOf(fs) \subseteq Nat
  BY DEF Paraformer!WeightsOf, ParaformerConstants

\* What CIF does with some frames keeps the account of the weight.
LEMMA FireKeeps ==
  ASSUME ParaformerConstants, UtteranceTypes, WeightKept, UNCHANGED offline,
         NEW n, NEW a, NEW b, Paraformer!Fire(n, a, b)
  PROVE  /\ WeightKept'
         /\ carry' \in Nat /\ tokens' \in Nat /\ missed' \in Nat /\ weight' \in Nat
         /\ fed' = fed \o Paraformer!Frames(n, a, b)
  <1>1. PICK w, decoded, q, r :
           /\ w \in Paraformer!WeightsOf(Paraformer!Frames(n, a, b)) /\ decoded \in BOOLEAN
           /\ q = (carry + w) \div Threshold /\ r = (carry + w) % Threshold
           /\ weight' = weight + w /\ carry' = r
           /\ tokens' = tokens + (IF decoded THEN q ELSE 0)
           /\ missed' = missed + (IF decoded THEN 0 ELSE q)
           /\ fed' = fed \o Paraformer!Frames(n, a, b)
    BY DEF Paraformer!Fire
  <1>2. /\ carry \in Nat /\ tokens \in Nat /\ missed \in Nat /\ weight \in Nat
        /\ w \in Nat /\ decoded \in BOOLEAN
        /\ weight = Threshold * (tokens + missed) + carry
    BY <1>1, WeightsAre DEF UtteranceTypes, WeightKept
  <1>3. PICK t \in Nat : t = tokens + missed
    BY <1>2
  <1>4. q = (carry + w) \div Threshold /\ r = (carry + w) % Threshold
    BY <1>1
  <1>5. q \in Nat /\ r \in Nat /\ r < Threshold
    BY <1>2, <1>4 DEF ParaformerConstants
  <1>6. (Threshold * t + carry) + w = Threshold * (t + q) + r
    BY <1>2, <1>4, Fires
  <1>7. tokens' \in Nat /\ missed' \in Nat /\ tokens' + missed' = t + q
    <2>1. PICK g, m : g = tokens' /\ m = missed'
      OBVIOUS
    <2>2. /\ g = tokens + (IF decoded THEN q ELSE 0)
          /\ m = missed + (IF decoded THEN 0 ELSE q)
      BY <1>1, <2>1, Zenon
    <2>3. g \in Nat /\ m \in Nat /\ g + m = (tokens + missed) + q
      BY <1>2, <1>5, <2>2, GivenOrMissed
    <2> QED
      BY <1>3, <2>1, <2>3, Zenon
  <1>8. weight' = Threshold * (tokens' + missed') + carry'
    <2>1. weight = Threshold * t + carry
      BY <1>2, <1>3, Zenon
    <2> QED
      BY <1>1, <1>6, <1>7, <2>1, Zenon
  <1>9. offline'.carry < Threshold
        /\ offline'.weight = Threshold * (offline'.tokens + offline'.missed) + offline'.carry
    <2>1. offline.carry < Threshold
          /\ offline.weight = Threshold * (offline.tokens + offline.missed) + offline.carry
      BY DEF WeightKept
    <2> QED
      BY <2>1, Zenon
  <1>10. weight' \in Nat /\ carry' \in Nat /\ carry' < Threshold
    BY <1>1, <1>2, <1>5
  <1>11. WeightKept'
    BY <1>8, <1>9, <1>10, Zenon DEF WeightKept
  <1> QED
    BY <1>1, <1>7, <1>10, <1>11

\* What finalize feeds goes on where CIF has stopped, and there is no more.
LEMMA RestFollows ==
  ASSUME ParaformerConstants, UtteranceTypes, StreamFed, NEW n \in Nat, heard <= n, n <= Window
  PROVE  /\ Paraformer!FinalStart(n) = cifDone /\ Paraformer!Seen(n) = n /\ cifDone <= n
         /\ fed \o Paraformer!Frames(n, Paraformer!FinalStart(n), Paraformer!Seen(n)) = Upto(n)
  <1>1. cifDone \in Nat /\ heard \in Nat
    BY DEF UtteranceTypes
  <1>2. cifDone <= n /\ fed = Upto(cifDone)
    BY <1>1 DEF StreamFed, ParaformerConstants
  <1>3. Paraformer!Seen(n) = n /\ Paraformer!Offset(n) = 0
    BY SeesAll
  <1>4. Paraformer!FinalStart(n) = cifDone
    <2>1. cifDone - 0 = cifDone /\ cifDone \in Int
      BY <1>1
    <2>2. Paraformer!Max({0, cifDone}) = cifDone
      BY <1>1, <2>1, GreaterOf
    <2> QED
      BY <1>3, <2>1, <2>2 DEF Paraformer!FinalStart
  <1>5. \A i \in 1 .. n - cifDone : Paraformer!Offset(n) + cifDone + i = cifDone + i
    BY <1>1, <1>3
  <1>6. Paraformer!Frames(n, cifDone, n) = [i \in 1 .. n - cifDone |-> cifDone + i]
    BY <1>5 DEF Paraformer!Frames
  <1>7. Upto(cifDone) \o Paraformer!Frames(n, cifDone, n) = Upto(n)
    BY <1>1, <1>2, <1>6, UptoGoesOn, Zenon
  <1> QED
    BY <1>2, <1>3, <1>4, <1>7

\* A chunk is fed.
LEMMA ChunkIInv ==
  ASSUME ParaformerConstants, ParaformerIInv, Paraformer!ProcessChunk
  PROVE  ParaformerIInv'
  <1>1. /\ audioBuf' = 0 /\ heard' = heard + Chunk /\ heard' \in Nat /\ heard <= heard'
        /\ UNCHANGED <<doubled, offline, answered>>
    BY DEF Paraformer!ProcessChunk, ParaformerConstants, ParaformerIInv, UtteranceTypes
  <1>2. CallFed' /\ Paraformer!UtteranceIsAccounted'
    BY <1>1 DEF ParaformerIInv, CallFed, Paraformer!UtteranceIsAccounted,
       Paraformer!StreamFramesOnce, Paraformer!CallFramesOnce, Paraformer!WeightIsDecoded
  <1>3. CASE Paraformer!NothingFed
    BY <1>1, <1>2, <1>3 DEF Paraformer!NothingFed, ParaformerIInv, UtteranceTypes, StreamFed,
       WeightKept, ParaformerConstants
  <1>4. ASSUME NEW end, end = Paraformer!Seen(heard') - Lookahead,
               Paraformer!CifRange(heard') # {},
               Paraformer!Fire(heard', cifDone, end), cifDone' = end
        PROVE  ParaformerIInv'
    <2>1. end \in Nat /\ cifDone < end
      <3>1. Paraformer!Seen(heard') \in Nat /\ cifDone \in Nat
        BY <1>1, SeesAll DEF ParaformerIInv, UtteranceTypes
      <3>2. end \in Int
        BY <1>4, <3>1 DEF ParaformerConstants
      <3>3. cifDone .. (end - 1) # {}
        BY <1>4 DEF Paraformer!CifRange
      <3> QED
        BY <3>1, <3>2, <3>3
    <2>2. /\ WeightKept'
          /\ carry' \in Nat /\ tokens' \in Nat /\ missed' \in Nat /\ weight' \in Nat
          /\ fed' = fed \o Paraformer!Frames(heard', cifDone, end)
      BY <1>1, <1>4, FireKeeps DEF ParaformerIInv
    <2>3. StreamFed'
      <3>1. SUFFICES ASSUME heard' <= Window
                     PROVE  end <= heard' /\ fed' = Upto(end)
        BY <1>4 DEF StreamFed
      <3>2. cifDone \in Nat /\ fed = Upto(cifDone)
        BY <1>1, <3>1 DEF ParaformerIInv, StreamFed, UtteranceTypes, ParaformerConstants
      <3>3. Paraformer!Frames(heard', cifDone, end) = [i \in 1 .. end - cifDone |-> cifDone + i]
        <4>1. Paraformer!Offset(heard') = 0
          BY <1>1, <3>1, SeesAll
        <4>2. \A i \in 1 .. end - cifDone : Paraformer!Offset(heard') + cifDone + i = cifDone + i
          BY <2>1, <3>2, <4>1
        <4> QED
          BY <4>2 DEF Paraformer!Frames
      <3>4. fed' = Upto(end)
        <4>1. cifDone <= end
          BY <2>1, <3>2
        <4>2. Upto(cifDone) \o Paraformer!Frames(heard', cifDone, end) = Upto(end)
          BY <2>1, <3>2, <3>3, <4>1, UptoGoesOn, Zenon
        <4> QED
          BY <2>2, <3>2, <4>2, Zenon
      <3>5. end <= heard'
        BY <1>1, <1>4, <3>1, SeesAll DEF ParaformerConstants
      <3> QED
        BY <3>4, <3>5
    <2>4. UtteranceTypes'
      BY <1>1, <1>4, <2>1, <2>2 DEF ParaformerIInv, UtteranceTypes
    <2> QED
      BY <1>2, <2>2, <2>3, <2>4 DEF ParaformerIInv
  <1> QED
    BY <1>3, <1>4 DEF Paraformer!ProcessChunk

\* What finalize answers.
LEMMA FinalizeIInv ==
  ASSUME ParaformerConstants, ParaformerIInv, Paraformer!Finalize
  PROVE  ParaformerIInv'
  <1> DEFINE n == heard + audioBuf
  <1>1. /\ carry \in Nat /\ tokens \in Nat /\ missed \in Nat /\ weight \in Nat
        /\ weight = Threshold * (tokens + missed) + carry
        /\ n \in Nat /\ heard \in Nat /\ heard <= n
    BY DEF ParaformerIInv, UtteranceTypes, WeightKept
  <1>a. PICK encoded \in BOOLEAN, decoded \in BOOLEAN, flushed \in BOOLEAN :
          /\ encoded => n > 0
          /\ \E w \in Paraformer!WeightsOf(IF encoded THEN Paraformer!Rest(n) ELSE <<>>) :
               answered' =
                 [frames  |-> n - doubled,
                  offline |-> FALSE,
                  encoded |-> encoded,
                  doubled |-> doubled,
                  fed     |-> fed \o (IF encoded THEN Paraformer!Rest(n) ELSE <<>>),
                  weight  |-> weight + w,
                  tokens  |-> tokens + (IF decoded THEN (carry + w) \div Threshold ELSE 0)
                              + (IF flushed THEN Paraformer!TailToken((carry + w) % Threshold)
                                 ELSE 0),
                  missed  |-> missed + (IF decoded THEN 0 ELSE (carry + w) \div Threshold)
                              + (IF flushed THEN 0
                                 ELSE Paraformer!TailToken((carry + w) % Threshold))]
    BY Zenon DEF Paraformer!Finalize
  <1>b. PICK last : last = IF encoded THEN Paraformer!Rest(n) ELSE <<>>
    OBVIOUS
  <1>c. PICK w \in Paraformer!WeightsOf(last) :
           answered' =
             [frames  |-> n - doubled,
              offline |-> FALSE,
              encoded |-> encoded,
              doubled |-> doubled,
              fed     |-> fed \o last,
              weight  |-> weight + w,
              tokens  |-> tokens + (IF decoded THEN (carry + w) \div Threshold ELSE 0)
                          + (IF flushed THEN Paraformer!TailToken((carry + w) % Threshold) ELSE 0),
              missed  |-> missed + (IF decoded THEN 0 ELSE (carry + w) \div Threshold)
                          + (IF flushed THEN 0
                             ELSE Paraformer!TailToken((carry + w) % Threshold))]
    <2>1. \E w \in Paraformer!WeightsOf(last) :
           answered' =
             [frames  |-> n - doubled,
              offline |-> FALSE,
              encoded |-> encoded,
              doubled |-> doubled,
              fed     |-> fed \o last,
              weight  |-> weight + w,
              tokens  |-> tokens + (IF decoded THEN (carry + w) \div Threshold ELSE 0)
                          + (IF flushed THEN Paraformer!TailToken((carry + w) % Threshold) ELSE 0),
              missed  |-> missed + (IF decoded THEN 0 ELSE (carry + w) \div Threshold)
                          + (IF flushed THEN 0
                             ELSE Paraformer!TailToken((carry + w) % Threshold))]
      BY <1>a, <1>b
    <2> QED
      BY <2>1, Zenon
  <1>d. PICK q, r : q = (carry + w) \div Threshold /\ r = (carry + w) % Threshold
    OBVIOUS
  <1>e. PICK d : d = Paraformer!TailToken(r)
    OBVIOUS
  <1>2. /\ decoded \in BOOLEAN /\ flushed \in BOOLEAN
        /\ last = IF encoded THEN Paraformer!Rest(n) ELSE <<>>
        /\ w \in Paraformer!WeightsOf(last)
        /\ q = (carry + w) \div Threshold /\ r = (carry + w) % Threshold
        /\ d = Paraformer!TailToken(r)
        /\ answered'.frames = n - doubled /\ answered'.doubled = doubled
        /\ answered'.encoded = encoded /\ answered'.offline = FALSE
        /\ answered'.fed = fed \o last
        /\ answered'.weight = weight + w
        /\ answered'.tokens = tokens + (IF decoded THEN q ELSE 0) + (IF flushed THEN d ELSE 0)
        /\ answered'.missed = missed + (IF decoded THEN 0 ELSE q) + (IF flushed THEN 0 ELSE d)
    BY <1>b, <1>c, <1>d, <1>e
  <1>3. PICK t \in Nat : t = tokens + missed
    BY <1>1
  <1>4. w \in Nat /\ decoded \in BOOLEAN /\ flushed \in BOOLEAN
    BY <1>2, WeightsAre
  <1>5. q = (carry + w) \div Threshold /\ r = (carry + w) % Threshold
    BY <1>2
  <1>6. q \in Nat /\ r \in Nat /\ r < Threshold
    BY <1>1, <1>4, <1>5 DEF ParaformerConstants
  <1>7. (Threshold * t + carry) + w = Threshold * (t + q) + r
    BY <1>1, <1>4, <1>5, Fires
  <1>8. answered'.weight = Threshold * (t + q) + r
    BY <1>1, <1>2, <1>3, <1>7, Zenon
  <1>9. t + q \in Nat /\ answered'.tokens + answered'.missed = (t + q) + Paraformer!TailToken(r)
    <2>1. d \in Nat /\ d = Paraformer!TailToken(r)
      BY <1>2 DEF Paraformer!TailToken
    <2>2. PICK g, m : /\ g = tokens + (IF decoded THEN q ELSE 0)
                      /\ m = missed + (IF decoded THEN 0 ELSE q)
      OBVIOUS
    <2>3. g \in Nat /\ m \in Nat /\ g + m = (tokens + missed) + q
      BY <1>1, <1>4, <1>6, <2>2, GivenOrMissed
    <2>4. PICK g2, m2 : /\ g2 = g + (IF flushed THEN d ELSE 0)
                        /\ m2 = m + (IF flushed THEN 0 ELSE d)
      OBVIOUS
    <2>5. g2 + m2 = (g + m) + d
      BY <1>4, <2>1, <2>3, <2>4, GivenOrMissed
    <2>6. answered'.tokens = g2 /\ answered'.missed = m2
      BY <1>2, <2>2, <2>4, Zenon
    <2>7. answered'.tokens + answered'.missed = (t + q) + d
      BY <1>3, <2>3, <2>5, <2>6, Zenon
    <2> QED
      BY <1>6, <2>1, <2>7
  <1>10. Paraformer!StreamFramesOnce'
    <2>1. SUFFICES ASSUME encoded, doubled = 0, n - doubled <= Window
                   PROVE  answered'.fed = Upto(n - doubled)
      BY <1>2 DEF Paraformer!StreamFramesOnce, Upto
    <2>2. n - doubled = n /\ n <= Window
      BY <1>1, <2>1
    <2>3. fed \o Paraformer!Rest(n) = Upto(n)
      BY <1>1, <2>2, RestFollows DEF ParaformerIInv, Paraformer!Rest
    <2> QED
      BY <1>2, <2>1, <2>2, <2>3, Zenon
  <1>11. Paraformer!CallFramesOnce'
    BY <1>2 DEF Paraformer!CallFramesOnce
  <1>12. Paraformer!UtteranceIsAccounted'
    BY <1>6, <1>8, <1>9, <1>10, <1>11, AnswerIsWhole
  <1> QED
    BY <1>12, StartsOver DEF Paraformer!Finalize

\* A finalize that raises: what it fed stays fed.
LEMMA FinalizeRaisesIInv ==
  ASSUME ParaformerConstants, ParaformerIInv, Paraformer!FinalizeRaises
  PROVE  ParaformerIInv'
  <1>1. /\ heard' = heard + audioBuf /\ heard' \in Nat /\ heard \in Nat /\ heard <= heard'
        /\ audioBuf' \in Nat /\ doubled' \in Nat
        /\ UNCHANGED <<offline, answered>>
    BY DEF Paraformer!FinalizeRaises, Paraformer!KeepsRest, ParaformerIInv, UtteranceTypes
  <1>2. CallFed' /\ Paraformer!UtteranceIsAccounted'
    BY <1>1 DEF ParaformerIInv, CallFed, Paraformer!UtteranceIsAccounted,
       Paraformer!StreamFramesOnce, Paraformer!CallFramesOnce, Paraformer!WeightIsDecoded
  <1>3. CASE Paraformer!NothingFed
    BY <1>1, <1>2, <1>3 DEF Paraformer!NothingFed, ParaformerIInv, UtteranceTypes, StreamFed,
       WeightKept, ParaformerConstants
  <1>4. CASE Paraformer!FeedsRest
    <2>1. /\ Paraformer!Fire(heard', Paraformer!FinalStart(heard'), Paraformer!Seen(heard'))
          /\ cifDone' = heard'
      BY <1>4 DEF Paraformer!FeedsRest
    <2>2. /\ WeightKept'
          /\ carry' \in Nat /\ tokens' \in Nat /\ missed' \in Nat /\ weight' \in Nat
          /\ fed' = fed \o Paraformer!Frames(heard', Paraformer!FinalStart(heard'),
                                             Paraformer!Seen(heard'))
      BY <1>1, <2>1, FireKeeps DEF ParaformerIInv
    <2>3. StreamFed'
      <3>1. SUFFICES ASSUME heard' <= Window
                     PROVE  cifDone' <= heard' /\ fed' = Upto(cifDone')
        BY DEF StreamFed
      <3>2. fed \o Paraformer!Frames(heard', Paraformer!FinalStart(heard'),
                                     Paraformer!Seen(heard')) = Upto(heard')
        BY <1>1, <3>1, RestFollows DEF ParaformerIInv
      <3>3. fed' = Upto(cifDone')
        BY <2>1, <2>2, <3>2, Zenon
      <3> QED
        BY <1>1, <2>1, <3>3
    <2>4. UtteranceTypes'
      BY <1>1, <2>1, <2>2 DEF ParaformerIInv, UtteranceTypes
    <2> QED
      BY <1>2, <2>2, <2>3, <2>4 DEF ParaformerIInv
  <1> QED
    BY <1>3, <1>4 DEF Paraformer!FinalizeRaises

\* The frames of a piece go on where those before it stop.
LEMMA PieceGoesOn ==
  ASSUME NEW s \in Seq(Nat), NEW n \in Nat, NEW k \in Nat,
         \A i \in 1 .. Len(s) : s[i] = FrameOf(n, i),
         NEW p, p = [i \in 1 .. k |-> IF Len(s) + i <= n THEN Len(s) + i ELSE 0]
  PROVE  /\ s \o p \in Seq(Nat) /\ Len(s \o p) = Len(s) + k
         /\ \A i \in 1 .. Len(s) + k : (s \o p)[i] = FrameOf(n, i)
  <1>1. PICK m \in Nat : m = Len(s)
    OBVIOUS
  <1>2. \A i \in 1 .. k : p[i] = FrameOf(n, m + i) /\ p[i] \in Nat
    BY <1>1 DEF FrameOf
  <1>3. p \in Seq(Nat) /\ Len(p) = k
    BY <1>1
  <1>4. /\ s \o p \in Seq(Nat) /\ Len(s \o p) = m + k
        /\ \A i \in 1 .. m + k : (s \o p)[i] = IF i <= m THEN s[i] ELSE p[i - m]
    BY <1>1, <1>3, Joined
  <1>5. \A i \in 1 .. m + k : (s \o p)[i] = FrameOf(n, i)
    <2>1. TAKE i \in 1 .. m + k
    <2>2. CASE i <= m
      BY <1>1, <1>4, <2>2
    <2>3. CASE ~(i <= m)
      <3>1. i - m \in 1 .. k /\ m + (i - m) = i
        BY <2>3
      <3>2. p[i - m] = FrameOf(n, i)
        BY <1>2, <3>1
      <3> QED
        BY <1>4, <2>3, <3>2
    <2> QED
      BY <2>2, <2>3
  <1> QED
    BY <1>1, <1>4, <1>5

\* A piece has a frame at least and fits the window.
LEMMA SizeOfPiece ==
  ASSUME ParaformerConstants, offline.total \in Nat
  PROVE  Paraformer!PieceSize \in 1 .. Window
  <1>1. PICK m \in Int : /\ m = Paraformer!Max({MinPiece, offline.total})
                         /\ m = IF MinPiece >= offline.total THEN MinPiece ELSE offline.total
    BY GreaterOf DEF ParaformerConstants
  <1>2. Paraformer!Min({Window, m}) = IF Window <= m THEN Window ELSE m
    BY <1>1, LesserOf DEF ParaformerConstants
  <1> QED
    BY <1>1, <1>2 DEF Paraformer!PieceSize, ParaformerConstants

\* A piece of an offline call.
LEMMA PieceIInv ==
  ASSUME ParaformerConstants, ParaformerIInv, Paraformer!TranscribePiece
  PROVE  ParaformerIInv'
  <1> DEFINE from == offline.at
             size == Paraformer!PieceSize
             to == Paraformer!PieceEnd
  <1>1. /\ UNCHANGED <<audioBuf, heard, cifDone, fed, carry, tokens, weight, missed, doubled,
                       answered>>
        /\ from < offline.total
    BY DEF Paraformer!TranscribePiece
  <1>2. /\ offline \in CallRecord
        /\ offline.carry < Threshold
        /\ offline.weight = Threshold * (offline.tokens + offline.missed) + offline.carry
    BY DEF ParaformerIInv, UtteranceTypes, WeightKept
  <1>3. /\ to \in Nat /\ from <= to /\ size \in 1 .. Window /\ to <= offline.total
        /\ to < offline.total => to = from + size
        /\ to <= from + size /\ from + size < to + Window
    <2>1. offline.total \in Nat /\ from \in Nat
      BY <1>2 DEF CallRecord
    <2>2. size \in 1 .. Window /\ size \in Nat
      BY <2>1, SizeOfPiece
    <2>3. to = IF from + size <= offline.total THEN from + size ELSE offline.total
      BY <2>1, <2>2, LesserOf DEF Paraformer!PieceEnd
    <2> QED
      BY <1>1, <2>1, <2>2, <2>3 DEF ParaformerConstants
  <1>4. StreamFed' /\ Paraformer!UtteranceIsAccounted'
    BY <1>1 DEF ParaformerIInv, StreamFed, Paraformer!UtteranceIsAccounted,
       Paraformer!StreamFramesOnce, Paraformer!CallFramesOnce, Paraformer!WeightIsDecoded
  <1>5. /\ (carry < Threshold)' /\ (weight = Threshold * (tokens + missed) + carry)'
        /\ UtteranceTypes!1' /\ UtteranceTypes!2'
    <2>1. carry < Threshold /\ weight = Threshold * (tokens + missed) + carry
      BY DEF ParaformerIInv, WeightKept
    <2>2. UtteranceTypes!1 /\ UtteranceTypes!2
      BY DEF ParaformerIInv, UtteranceTypes
    <2> QED
      BY <1>1, <2>1, <2>2, Zenon
  <1>6. ASSUME NEW w \in 0 .. MaxWeight, NEW decoded \in BOOLEAN, NEW q, NEW r,
               q = (offline.carry + w) \div Threshold, r = (offline.carry + w) % Threshold,
               offline' = [offline EXCEPT
                             !.at     = to,
                             !.fed    = offline.fed \o Paraformer!Piece,
                             !.weight = offline.weight + w,
                             !.carry  = r,
                             !.tokens = offline.tokens + (IF decoded THEN q ELSE 0),
                             !.missed = offline.missed + (IF decoded THEN 0 ELSE q)]
        PROVE  ParaformerIInv'
    <2>1. /\ w \in Nat /\ offline.carry \in Nat /\ offline.tokens \in Nat
          /\ offline.missed \in Nat /\ offline.weight \in Nat /\ offline.total \in Nat
          /\ from \in Nat /\ offline.fed \in Seq(Nat)
      BY <1>2 DEF ParaformerConstants, CallRecord
    <2>2. q \in Nat /\ r \in Nat /\ r < Threshold
      <3>1. PICK x \in Nat : x = offline.carry + w
        BY <2>1
      <3>2. q = x \div Threshold /\ r = x % Threshold
        BY <1>6, <3>1, Zenon
      <3> QED
        BY <3>2 DEF ParaformerConstants
    <2>3. PICK given, refused :
             /\ given = offline.tokens + (IF decoded THEN q ELSE 0)
             /\ refused = offline.missed + (IF decoded THEN 0 ELSE q)
             /\ given \in Nat /\ refused \in Nat
             /\ given + refused = (offline.tokens + offline.missed) + q
      <3>1. PICK given, refused :
               /\ given = offline.tokens + (IF decoded THEN q ELSE 0)
               /\ refused = offline.missed + (IF decoded THEN 0 ELSE q)
        OBVIOUS
      <3>2. PICK t \in Nat, m \in Nat : t = offline.tokens /\ m = offline.missed
        BY <2>1
      <3>3. /\ given = t + (IF decoded THEN q ELSE 0)
            /\ refused = m + (IF decoded THEN 0 ELSE q)
        BY <3>1, <3>2, Zenon
      <3>4. given \in Nat /\ refused \in Nat /\ given + refused = (t + m) + q
        BY <2>2, <3>3, GivenOrMissed
      <3> QED
        BY <3>1, <3>2, <3>4, Zenon
    <2>4. /\ offline'.at = to /\ offline'.total = offline.total
          /\ offline'.encoded = offline.encoded
          /\ offline'.fed = offline.fed \o Paraformer!Piece
          /\ offline'.weight = offline.weight + w
          /\ offline'.carry = r /\ offline'.tokens = given /\ offline'.missed = refused
      BY <1>2, <1>6, <2>3 DEF CallRecord
    <2>5. offline'.weight = Threshold * (offline'.tokens + offline'.missed) + offline'.carry
          /\ offline'.carry < Threshold
      <3>1. PICK c \in Nat, t \in Nat : c = offline.carry /\ t = offline.tokens + offline.missed
        BY <2>1
      <3>2. (Threshold * t + c) + w = Threshold * (t + q) + r
        <4>1. q = (c + w) \div Threshold /\ r = (c + w) % Threshold
          BY <1>6, <3>1
        <4> QED
          BY <2>1, <4>1, Fires
      <3>3. offline.weight = Threshold * t + c /\ given + refused = t + q
        BY <1>2, <2>3, <3>1, Zenon
      <3> QED
        BY <2>2, <2>4, <3>2, <3>3, Zenon
    <2>6. /\ Paraformer!Piece = [i \in 1 .. size |->
                                   IF from + i <= offline.total THEN from + i ELSE 0]
          /\ Paraformer!Piece \in Seq(Nat)
      <3>1. Paraformer!Piece = [i \in 1 .. size |->
                                  IF from + i <= offline.total THEN from + i ELSE 0]
        BY DEF Paraformer!Piece
      <3>2. PICK f \in Nat, m \in Nat, k \in Nat : f = from /\ m = offline.total /\ k = size
        BY <1>3, <2>1
      <3>3. [i \in 1 .. k |-> IF f + i <= m THEN f + i ELSE 0] \in Seq(Nat)
        OBVIOUS
      <3> QED
        BY <3>1, <3>2, <3>3
    <2>7. CallFed'
      <3>1. SUFFICES ASSUME offline.encoded
                     PROVE  /\ Len(offline'.fed) = from + size
                            /\ \A i \in 1 .. from + size :
                                  offline'.fed[i] = FrameOf(offline.total, i)
        BY <1>3, <2>1, <2>4 DEF CallFed
      <3>2. /\ Len(offline.fed) = from
            /\ \A i \in 1 .. Len(offline.fed) : offline.fed[i] = FrameOf(offline.total, i)
        BY <1>1, <3>1 DEF ParaformerIInv, CallFed
      <3>3. PICK s \in Seq(Nat), m \in Nat, k \in Nat :
               s = offline.fed /\ m = offline.total /\ k = size
        BY <1>3, <2>1
      <3>4. Paraformer!Piece = [i \in 1 .. k |-> IF Len(s) + i <= m THEN Len(s) + i ELSE 0]
        BY <2>6, <3>2, <3>3
      <3>5. /\ Len(s \o Paraformer!Piece) = Len(s) + k
            /\ \A i \in 1 .. Len(s) + k : (s \o Paraformer!Piece)[i] = FrameOf(m, i)
        <4>1. \A i \in 1 .. Len(s) : s[i] = FrameOf(m, i)
          BY <3>2, <3>3, Zenon
        <4>2. PICK p : p = Paraformer!Piece
          OBVIOUS
        <4>3. p = [i \in 1 .. k |-> IF Len(s) + i <= m THEN Len(s) + i ELSE 0]
          BY <3>4, <4>2, Zenon
        <4>4. /\ Len(s \o p) = Len(s) + k
              /\ \A i \in 1 .. Len(s) + k : (s \o p)[i] = FrameOf(m, i)
          BY <4>1, <4>3, PieceGoesOn
        <4> QED
          BY <4>2, <4>4, Zenon
      <3> QED
        BY <2>4, <3>2, <3>3, <3>5
    <2>8. offline' \in CallRecord
      <3>1. offline.fed \o Paraformer!Piece \in Seq(Nat)
        BY <2>1, <2>6
      <3>2. offline.weight + w \in Nat
        BY <2>1
      <3> QED
        BY <1>2, <1>3, <1>6, <2>2, <2>3, <3>1, <3>2 DEF CallRecord
    <2> QED
      BY <1>4, <1>5, <2>5, <2>7, <2>8 DEF ParaformerIInv, UtteranceTypes, WeightKept
  <1>7. ASSUME offline' = [offline EXCEPT !.at = to, !.encoded = FALSE]
        PROVE  ParaformerIInv'
    <2>1. /\ offline' \in CallRecord
          /\ offline'.at = to /\ offline'.total = offline.total /\ ~offline'.encoded
          /\ offline'.carry = offline.carry /\ offline'.weight = offline.weight
          /\ offline'.tokens = offline.tokens /\ offline'.missed = offline.missed
      BY <1>2, <1>3, <1>7 DEF CallRecord
    <2>2. CallFed'
      BY <1>3, <2>1 DEF CallFed
    <2>3. offline'.weight = Threshold * (offline'.tokens + offline'.missed) + offline'.carry
          /\ offline'.carry < Threshold
      BY <1>2, <2>1, Zenon
    <2> QED
      BY <1>4, <1>5, <2>1, <2>2, <2>3 DEF ParaformerIInv, UtteranceTypes, WeightKept
  <1> QED
    BY <1>6, <1>7 DEF Paraformer!TranscribePiece

\* No call, and nothing of a stream changes.
LEMMA NoCallIInv ==
  ASSUME ParaformerConstants, ParaformerIInv,
         \/ offline' = Paraformer!NoCall
         \/ \E m \in Nat : offline' = [Paraformer!NoCall EXCEPT !.total = m],
         UNCHANGED <<audioBuf, heard, cifDone, fed, carry, tokens, weight, missed, doubled>>,
         Paraformer!UtteranceIsAccounted'
  PROVE  ParaformerIInv'
  <1>1. /\ (carry < Threshold)' /\ (weight = Threshold * (tokens + missed) + carry)'
        /\ UtteranceTypes!1' /\ UtteranceTypes!2'
    <2>1. carry < Threshold /\ weight = Threshold * (tokens + missed) + carry
      BY DEF ParaformerIInv, WeightKept
    <2>2. UtteranceTypes!1 /\ UtteranceTypes!2
      BY DEF ParaformerIInv, UtteranceTypes
    <2> QED
      BY <2>1, <2>2, Zenon
  <1>2. PICK m \in Nat : offline' = [total |-> m, at |-> 0, encoded |-> TRUE, fed |-> <<>>,
                                    weight |-> 0, tokens |-> 0, missed |-> 0, carry |-> 0]
    BY DEF Paraformer!NoCall
  <1>3. offline' \in CallRecord
    BY <1>2 DEF CallRecord
  <1>4. CallFed'
    <2>1. Len(offline'.fed) = 0
      BY <1>2
    <2> QED
      BY <1>2, <2>1 DEF CallFed, ParaformerConstants
  <1>5. offline'.carry < Threshold
        /\ offline'.weight = Threshold * (offline'.tokens + offline'.missed) + offline'.carry
    BY <1>2, NothingYet
  <1>6. StreamFed'
    BY DEF ParaformerIInv, StreamFed
  <1> QED
    BY <1>1, <1>3, <1>4, <1>5, <1>6 DEF ParaformerIInv, UtteranceTypes, WeightKept

\* Every step keeps the invariant.
LEMMA ParaformerNextIInv ==
  ASSUME ParaformerConstants, ParaformerIInv, [Paraformer!Next]_(Paraformer!paraformerVars)
  PROVE  ParaformerIInv'
  <1>1. ASSUME audioBuf' \in Nat, Paraformer!UtteranceIsAccounted',
               UNCHANGED <<heard, cifDone, fed, carry, tokens, weight, missed, doubled, offline>>
        PROVE  ParaformerIInv'
    BY <1>1 DEF ParaformerIInv, UtteranceTypes, StreamFed, CallFed, WeightKept
  <1>2. audioBuf \in Nat
    BY DEF ParaformerIInv, UtteranceTypes
  <1>3. ASSUME answered' = Paraformer!NoAnswer \/ UNCHANGED answered
        PROVE  Paraformer!UtteranceIsAccounted'
    BY <1>3, NothingYet DEF ParaformerIInv, Paraformer!UtteranceIsAccounted,
       Paraformer!StreamFramesOnce, Paraformer!CallFramesOnce, Paraformer!WeightIsDecoded
  <1>4. CASE UNCHANGED Paraformer!paraformerVars
    BY <1>1, <1>2, <1>3, <1>4 DEF Paraformer!paraformerVars
  <1>5. CASE Paraformer!Preload \/ Paraformer!Unload
    BY <1>1, <1>2, <1>3, <1>5 DEF Paraformer!Preload, Paraformer!Unload
  <1>6. CASE Paraformer!Accept \/ Paraformer!Cancel
    BY <1>1, <1>2, <1>3, <1>6 DEF Paraformer!Accept, Paraformer!Cancel
  <1>7. CASE Paraformer!CreateStream \/ Paraformer!Close
    BY <1>3, <1>7, StartsOver DEF Paraformer!CreateStream, Paraformer!Close
  <1>8. CASE Paraformer!Transcribe
    <2>1. \E m \in Nat : offline' = [Paraformer!NoCall EXCEPT !.total = m]
      BY <1>8 DEF Paraformer!Transcribe
    <2> QED
      BY <1>3, <1>8, <2>1, NoCallIInv DEF Paraformer!Transcribe
  <1>9. CASE Paraformer!TranscribeRaises
    BY <1>3, <1>9, NoCallIInv DEF Paraformer!TranscribeRaises
  <1>10. CASE Paraformer!TranscribeEnds
    <2>1. /\ offline.tokens \in Nat /\ offline.missed \in Nat
          /\ offline.carry \in Nat /\ offline.carry < Threshold
          /\ offline.weight = Threshold * (offline.tokens + offline.missed) + offline.carry
          /\ offline.total \in Nat /\ offline.fed \in Seq(Nat)
          /\ offline.encoded =>
               /\ Len(offline.fed) \in offline.at .. offline.at + Window - 1
               /\ \A i \in DOMAIN offline.fed : offline.fed[i] = FrameOf(offline.total, i)
      BY DEF ParaformerIInv, UtteranceTypes, CallFed, WeightKept, CallRecord,
             ParaformerConstants
    <2>2. PICK flushed, d :
             /\ flushed \in BOOLEAN /\ d = Paraformer!TailToken(offline.carry)
             /\ answered'.tokens = offline.tokens + (IF flushed THEN d ELSE 0)
             /\ answered'.missed = offline.missed + (IF flushed THEN 0 ELSE d)
             /\ answered'.weight = offline.weight /\ answered'.offline
             /\ answered'.frames = offline.total /\ offline.at = offline.total
             /\ answered'.fed = offline.fed /\ answered'.encoded = offline.encoded
             /\ offline' = Paraformer!NoCall
             /\ UNCHANGED <<audioBuf, heard, cifDone, fed, carry, tokens, weight, missed, doubled>>
      BY <1>10 DEF Paraformer!TranscribeEnds
    <2>3. Paraformer!StreamFramesOnce' /\ Paraformer!CallFramesOnce'
      BY <2>1, <2>2 DEF Paraformer!StreamFramesOnce, Paraformer!CallFramesOnce, FrameOf
    <2>4. Paraformer!UtteranceIsAccounted'
      <3>1. PICK t \in Nat, c \in Nat : t = offline.tokens + offline.missed /\ c = offline.carry
        BY <2>1
      <3>2. d \in Nat /\ flushed \in BOOLEAN
        BY <2>2 DEF Paraformer!TailToken
      <3>3. answered'.tokens + answered'.missed = t + Paraformer!TailToken(c)
        BY <2>1, <2>2, <3>1, <3>2, GivenOrMissed
      <3>4. answered'.weight = Threshold * t + c /\ c < Threshold
        BY <2>1, <2>2, <3>1, Zenon
      <3> QED
        BY <2>3, <3>1, <3>3, <3>4, AnswerIsWhole
    <2> QED
      BY <2>2, <2>4, NoCallIInv
  <1> QED
    BY <1>4, <1>5, <1>6, <1>7, <1>8, <1>9, <1>10, ChunkIInv, FinalizeIInv, FinalizeRaisesIInv,
       PieceIInv DEF Paraformer!Next

\* An utterance that fits the encoder's window, and no failed finalize of which left
\* audio in the buffer, has each frame integrated once and in order, an offline call of
\* any length too, with padding behind it; and the tokens of an answer are its weight,
\* rounded, but for those the decoder refused: for any window, look-ahead, chunk and
\* threshold, wherever encoder and decoder fail or raise.
THEOREM UtteranceSafe ==
  ASSUME ParaformerConstants
  PROVE  Spec => []UtteranceIsAccounted
  <1>1. Init => ParaformerIInv
    BY ParaformerInitIInv DEF Init
  <1>2. ParaformerIInv /\ [Next]_vars => ParaformerIInv'
    <2>1. [Next]_vars => [Paraformer!Next]_(Paraformer!paraformerVars)
      BY DEF Next, vars, paraformerState, Paraformer!paraformerVars
    <2> QED
      BY <2>1, ParaformerNextIInv
  <1>3. ParaformerIInv => UtteranceIsAccounted
    BY DEF ParaformerIInv, UtteranceIsAccounted
  <1> QED
    BY <1>1, <1>2, <1>3, PTL DEF Spec

(***************************************************************************)
(* SegmentedAudio.  The segments cover the audio and stay short, for audio *)
(* of any length, wherever it is silent.  What keeps them short: a cut is  *)
(* the last silence there is, so that two segments in a row are longer     *)
(* than the longest, and a segment that took a fragment in is not followed *)
(* by a tail that has to go there too.                                     *)
(***************************************************************************)
\* A fragment is no longer than a tail, and both fit a segment, with a frame to
\* spare for each (1, 2 and at least 4.5 seconds in the code).
SegmentConstants ==
    /\ MaxSeg \in Nat \ {0} /\ MinSeg \in Nat \ {0} /\ MinFrag \in Nat \ {0} /\ MinTail \in Nat
    /\ MinFrag <= MinTail /\ MinFrag + MinTail <= MaxSeg + 2
    /\ MaxTotal \in Nat

\* Cuts follow one another from 0 on.
Onward(cs) ==
    /\ cs \in Seq(Nat) /\ Len(cs) >= 1 /\ cs[1] = 0
    /\ \A i \in 1 .. Len(cs) - 1 : cs[i] < cs[i + 1]

Spans(cs) == Len(cs) >= 2 /\ cs[Len(cs)] = total

\* While cutting: a segment and the next one together are longer than the longest,
\* because a cut is the last silence there is.
Cutting(cs) ==
    /\ total > MaxSeg /\ cs[Len(cs)] < total
    /\ \A i \in 1 .. Len(cs) - 1 : cs[i + 1] - cs[i] <= MaxSeg /\ total - cs[i] > MaxSeg
    /\ \A i \in 1 .. Len(cs) - 2 : cs[i + 2] - cs[i] > MaxSeg
    /\ Len(cs) > 1 => \A c \in Segments!CutPoints : c > cs[Len(cs)] => c > cs[Len(cs) - 1] + MaxSeg

Short(cs) == \A i \in 1 .. Len(cs) - 1 : cs[i + 1] - cs[i] <= MaxSeg + MinTail

\* A segment with a fragment taken in is not followed by a short one.
Merged(cs) ==
    \A i \in 2 .. Len(cs) - 1 : cs[i] - cs[i - 1] <= MaxSeg \/ cs[i + 1] - cs[i] >= MinTail

\* From cut n on nothing is merged.
Unmerged(cs, n) ==
    /\ 2 <= n /\ n <= Len(cs)
    /\ \A i \in n .. Len(cs) - 1 : cs[i + 1] - cs[i] <= MaxSeg
    /\ \A i \in n .. Len(cs) - 2 : cs[i + 2] - cs[i] > MaxSeg

\* Up to cut n no segment is longer than the longest.
Sliced(cs, n) == \A i \in 1 .. n - 1 : cs[i + 1] - cs[i] <= MaxSeg

\* The inductive invariant.
SegmentIInv ==
    /\ Onward(cuts) /\ total \in Nat /\ at \in Nat
    /\ stage = "frames" => total > 0 /\ cuts = <<0>>
    /\ stage = "cut" => Cutting(cuts)
    /\ stage \in {"merge", "tail"} => Spans(cuts) /\ Short(cuts) /\ Merged(cuts)
    /\ stage = "merge" => Unmerged(cuts, at)
    /\ stage \in {"bound", "transcribe"} =>
          Spans(cuts) /\ (Len(cuts) > 2 /\ route # "edge_offline" => Short(cuts))
    /\ stage = "bound" => at \in 1 .. Len(cuts) /\ (route = "edge_offline" => Sliced(cuts, at))
    /\ stage = "transcribe" /\ route = "edge_offline" => Sliced(cuts, Len(cuts))
    /\ route = "rk_stream" /\ lost # {} => stage = "idle" /\ answer.kind = "unloaded"

\* A cut that is taken away, put in, and added.
LEMMA CutTaken ==
  ASSUME NEW cs \in Seq(Nat), NEW n \in 1 .. Len(cs)
  PROVE  /\ Segments!RemoveAt(cs, n) \in Seq(Nat) /\ Len(Segments!RemoveAt(cs, n)) = Len(cs) - 1
         /\ \A i \in 1 .. Len(cs) - 1 :
               Segments!RemoveAt(cs, n)[i] = IF i < n THEN cs[i] ELSE cs[i + 1]
  <1> DEFINE a == SubSeq(cs, 1, n - 1)
             b == SubSeq(cs, n + 1, Len(cs))
             m == Segments!RemoveAt(cs, n)
  <1>1. /\ a \in Seq(Nat) /\ Len(a) = n - 1 /\ \A i \in 1 .. n - 1 : a[i] = cs[i]
        /\ b \in Seq(Nat) /\ Len(b) = Len(cs) - n
        /\ \A i \in 1 .. Len(cs) - n : b[i] = cs[n + i]
    <2>1. /\ a \in Seq(Nat) /\ Len(a) = (n - 1) - 1 + 1
          /\ \A i \in 1 .. (n - 1) - 1 + 1 : a[i] = cs[1 + i - 1]
      <3>1. 1 \in 1 .. Len(cs) + 1 /\ n - 1 \in 1 - 1 .. Len(cs)
        OBVIOUS
      <3> QED
        BY <3>1, PartOf, Zenon
    <2>2. /\ b \in Seq(Nat) /\ Len(b) = Len(cs) - (n + 1) + 1
          /\ \A i \in 1 .. Len(cs) - (n + 1) + 1 : b[i] = cs[(n + 1) + i - 1]
      <3>1. n + 1 \in 1 .. Len(cs) + 1 /\ Len(cs) \in (n + 1) - 1 .. Len(cs)
        OBVIOUS
      <3> QED
        BY <3>1, PartOf, Zenon
    <2> HIDE DEF a, b
    <2>3. ASSUME NEW i \in 1 .. n - 1 PROVE a[i] = cs[i]
      <3>1. i \in 1 .. (n - 1) - 1 + 1 /\ 1 + i - 1 = i
        OBVIOUS
      <3> QED
        BY <2>1, <3>1
    <2>4. ASSUME NEW i \in 1 .. Len(cs) - n PROVE b[i] = cs[n + i]
      <3>1. i \in 1 .. Len(cs) - (n + 1) + 1 /\ (n + 1) + i - 1 = n + i
        OBVIOUS
      <3> QED
        BY <2>2, <3>1
    <2>5. Len(a) = n - 1 /\ Len(b) = Len(cs) - n
      BY <2>1, <2>2
    <2> QED
      BY <2>1, <2>2, <2>3, <2>4, <2>5
  <1>2. m = a \o b
    BY DEF Segments!RemoveAt
  <1> HIDE DEF a, b, m
  <1>3. /\ a \o b \in Seq(Nat) /\ Len(a \o b) = Len(a) + Len(b)
        /\ \A i \in 1 .. Len(a) + Len(b) : (a \o b)[i] = IF i <= Len(a) THEN a[i] ELSE b[i - Len(a)]
    BY <1>1, InARow
  <1>4. m \in Seq(Nat) /\ Len(m) = Len(cs) - 1
    BY <1>1, <1>2, <1>3
  <1>5. ASSUME NEW i \in 1 .. Len(cs) - 1 PROVE m[i] = IF i < n THEN cs[i] ELSE cs[i + 1]
    <2>1. m[i] = IF i <= n - 1 THEN a[i] ELSE b[i - (n - 1)]
      <3>1. i \in 1 .. Len(a) + Len(b)
        BY <1>1
      <3> QED
        BY <1>1, <1>2, <1>3, <3>1
    <2>2. CASE i < n
      BY <1>1, <2>1, <2>2
    <2>3. CASE ~(i < n)
      <3>1. i - (n - 1) \in 1 .. Len(cs) - n /\ n + (i - (n - 1)) = i + 1
        BY <2>3
      <3>2. b[i - (n - 1)] = cs[i + 1]
        BY <1>1, <3>1
      <3> QED
        BY <2>1, <2>3, <3>2
    <2> QED
      BY <2>2, <2>3
  <1> QED
    BY <1>4, <1>5 DEF m

Inserted(more, cs, n, c) ==
    /\ more \in Seq(Nat) /\ Len(more) = Len(cs) + 1
    /\ \A i \in 1 .. n - 1 : more[i] = cs[i]
    /\ more[n] = c
    /\ \A i \in n + 1 .. Len(cs) + 1 : more[i] = cs[i - 1]

LEMMA CutPut ==
  ASSUME NEW cs \in Seq(Nat), NEW n \in 1 .. Len(cs) + 1, NEW c \in Nat
  PROVE  Inserted(Segments!InsertAt(cs, n, c), cs, n, c)
  <1> DEFINE a == SubSeq(cs, 1, n - 1)
             b == SubSeq(cs, n, Len(cs))
             e == a \o <<c>>
             m == Segments!InsertAt(cs, n, c)
  <1>1. /\ a \in Seq(Nat) /\ Len(a) = n - 1 /\ \A i \in 1 .. n - 1 : a[i] = cs[i]
        /\ b \in Seq(Nat) /\ Len(b) = Len(cs) - n + 1
        /\ \A i \in 1 .. Len(cs) - n + 1 : b[i] = cs[n + i - 1]
        /\ <<c>> \in Seq(Nat) /\ Len(<<c>>) = 1 /\ <<c>>[1] = c
    <2>1. /\ a \in Seq(Nat) /\ Len(a) = (n - 1) - 1 + 1
          /\ \A i \in 1 .. (n - 1) - 1 + 1 : a[i] = cs[1 + i - 1]
      <3>1. 1 \in 1 .. Len(cs) + 1 /\ n - 1 \in 1 - 1 .. Len(cs)
        OBVIOUS
      <3> QED
        BY <3>1, PartOf, Zenon
    <2>2. /\ b \in Seq(Nat) /\ Len(b) = Len(cs) - n + 1
          /\ \A i \in 1 .. Len(cs) - n + 1 : b[i] = cs[n + i - 1]
      <3>1. Len(cs) \in n - 1 .. Len(cs)
        OBVIOUS
      <3> QED
        BY <3>1, PartOf, Zenon
    <2>3. <<c>> \in Seq(Nat) /\ Len(<<c>>) = 1 /\ <<c>>[1] = c
      OBVIOUS
    <2> HIDE DEF a, b
    <2>4. (n - 1) - 1 + 1 = n - 1 /\ \A i \in 1 .. n - 1 : 1 + i - 1 = i
      OBVIOUS
    <2>5. a \in Seq(Nat) /\ Len(a) = n - 1 /\ \A i \in 1 .. n - 1 : a[i] = cs[i]
      BY <2>1, <2>4
    <2> QED
      BY <2>2, <2>3, <2>5
  <1>2. m = e \o b
    BY DEF Segments!InsertAt
  <1> HIDE DEF a, b, m
  <1>3. /\ e \in Seq(Nat) /\ Len(e) = n
        /\ \A i \in 1 .. n : e[i] = IF i < n THEN cs[i] ELSE c
    <2>1. /\ e \in Seq(Nat) /\ Len(e) = Len(a) + Len(<<c>>)
          /\ \A i \in 1 .. Len(a) + Len(<<c>>) :
                e[i] = IF i <= Len(a) THEN a[i] ELSE <<c>>[i - Len(a)]
      BY <1>1, InARow
    <2> HIDE DEF e
    <2>2. Len(a) + Len(<<c>>) = n /\ Len(a) = n - 1 /\ n \in Nat
      BY <1>1
    <2>3. \A i \in 1 .. n : e[i] = IF i <= n - 1 THEN a[i] ELSE <<c>>[i - (n - 1)]
      BY <2>1, <2>2
    <2>4. ASSUME NEW i \in 1 .. n PROVE e[i] = IF i < n THEN cs[i] ELSE c
      <3>1. CASE i < n
        <4>1. i \in 1 .. n - 1 /\ i <= n - 1
          BY <2>2, <3>1
        <4> QED
          BY <1>1, <2>3, <3>1, <4>1
      <3>2. CASE ~(i < n)
        <4>1. i = n /\ ~(n <= n - 1) /\ n - (n - 1) = 1
          BY <2>2, <3>2
        <4>2. e[n] = <<c>>[1]
          BY <2>3, <4>1
        <4> QED
          BY <4>1, <4>2
      <3> QED
        BY <3>1, <3>2
    <2> QED
      BY <2>1, <2>2, <2>4
  <1> HIDE DEF e
  <1>4. /\ e \o b \in Seq(Nat) /\ Len(e \o b) = Len(e) + Len(b)
        /\ \A i \in 1 .. Len(e) + Len(b) : (e \o b)[i] = IF i <= Len(e) THEN e[i] ELSE b[i - Len(e)]
    BY <1>1, <1>3, InARow
  <1>5. m \in Seq(Nat) /\ Len(m) = Len(cs) + 1
    BY <1>1, <1>2, <1>3, <1>4
  <1>6. ASSUME NEW i \in 1 .. Len(cs) + 1
        PROVE  m[i] = IF i < n THEN cs[i] ELSE IF i = n THEN c ELSE cs[i - 1]
    <2>1. m[i] = IF i <= n THEN e[i] ELSE b[i - n]
      <3>1. i \in 1 .. Len(e) + Len(b)
        BY <1>1, <1>3
      <3> QED
        BY <1>2, <1>3, <1>4, <3>1
    <2>2. CASE i <= n
      BY <1>3, <2>1, <2>2
    <2>3. CASE ~(i <= n)
      <3>1. i - n \in 1 .. Len(cs) - n + 1 /\ n + (i - n) - 1 = i - 1
        BY <2>3
      <3>2. b[i - n] = cs[i - 1]
        BY <1>1, <3>1
      <3> QED
        BY <2>1, <2>3, <3>2
    <2> QED
      BY <2>2, <2>3
  <1>7. ASSUME NEW i \in 1 .. n - 1 PROVE m[i] = cs[i]
    <2>1. i \in 1 .. Len(cs) + 1 /\ i < n
      OBVIOUS
    <2> QED
      BY <1>6, <2>1
  <1>8. m[n] = c
    BY <1>6
  <1>9. ASSUME NEW i \in n + 1 .. Len(cs) + 1 PROVE m[i] = cs[i - 1]
    <2>1. i \in 1 .. Len(cs) + 1 /\ ~(i < n) /\ i # n
      OBVIOUS
    <2> QED
      BY <1>6, <2>1
  <1> QED
    BY <1>5, <1>7, <1>8, <1>9 DEF m, Inserted

LEMMA CutAdded ==
  ASSUME NEW cs \in Seq(Nat), NEW c \in Nat
  PROVE  /\ Append(cs, c) \in Seq(Nat) /\ Len(Append(cs, c)) = Len(cs) + 1
         /\ \A i \in 1 .. Len(cs) : Append(cs, c)[i] = cs[i]
         /\ Append(cs, c)[Len(cs) + 1] = c
  OBVIOUS

\* The next cut, and that there is no later one.
LEMMA NextCutIs ==
  ASSUME SegmentConstants, NEW from \in Nat, NEW c, c = Segments!NextCut(from), total \in Nat
  PROVE  /\ c \in Nat /\ from < c /\ c <= from + MaxSeg
         /\ \A x \in Segments!CutPoints : x \in Nat /\ (x > c => x > from + MaxSeg)
  <1> DEFINE within == {x \in Segments!CutPoints : from + MinSeg <= x /\ x <= from + MaxSeg}
  <1>1. \A x \in Segments!CutPoints : x \in Nat
    BY DEF Segments!CutPoints
  <1>2. c = IF within = {} THEN from + MaxSeg ELSE Segments!Max(within)
    BY DEF Segments!NextCut
  <1>3. within \in SUBSET Nat /\ \A x \in within : x <= from + MaxSeg
    BY <1>1
  <1>4. \A x \in Segments!CutPoints : from + MinSeg <= x /\ x <= from + MaxSeg => x \in within
    OBVIOUS
  <1>5. \A x \in within : from + MinSeg <= x
    OBVIOUS
  <1> HIDE DEF within
  <1>6. CASE within = {}
    BY <1>1, <1>2, <1>4, <1>6 DEF SegmentConstants
  <1>7. CASE within # {}
    <2>1. from + MaxSeg \in Nat
      BY DEF SegmentConstants
    <2>2. PICK x \in within : \A y \in within : x >= y
      BY <1>3, <1>7, <2>1, GreatestExists
    <2>3. c \in within /\ \A y \in within : c >= y
      BY <1>2, <1>7, <2>2 DEF Segments!Max
    <2> QED
      BY <1>1, <1>3, <1>4, <1>5, <2>3 DEF SegmentConstants
  <1> QED
    BY <1>6, <1>7

\* One more cut at the end.
LEMMA CutsGrow ==
  ASSUME NEW cs \in Seq(Nat), Onward(cs), NEW c \in Nat, c > cs[Len(cs)]
  PROVE  Onward(Append(cs, c))
  <1> DEFINE more == Append(cs, c)
             n    == Len(cs)
  <1>1. /\ more \in Seq(Nat) /\ Len(more) = n + 1 /\ more[n + 1] = c
        /\ \A i \in 1 .. n : more[i] = cs[i]
    BY CutAdded
  <1> HIDE DEF more
  <1>2. n \in Nat /\ n >= 1
    BY DEF Onward
  <1>3. ASSUME NEW i \in 1 .. n PROVE more[i] < more[i + 1]
    <2>1. CASE i = n
      BY <1>1, <2>1
    <2>2. CASE i # n
      <3>1. i \in 1 .. n - 1 /\ i + 1 \in 1 .. n
        BY <2>2
      <3> QED
        BY <1>1, <3>1 DEF Onward
    <2> QED
      BY <2>1, <2>2
  <1>4. Onward(more)
    BY <1>1, <1>2, <1>3 DEF Onward
  <1> QED
    BY <1>4 DEF more

\* The loop of the cuts.
LEMMA CuttingOn ==
  ASSUME SegmentConstants, total \in Nat, Onward(cuts), Cutting(cuts),
         total - cuts[Len(cuts)] > MaxSeg,
         NEW c, c = Segments!NextCut(cuts[Len(cuts)])
  PROVE  c \in Nat /\ c > cuts[Len(cuts)] /\ Cutting(Append(cuts, c))
  <1> DEFINE more == Append(cuts, c)
             n    == Len(cuts)
             from == cuts[Len(cuts)]
  <1>1. n \in Nat /\ n >= 1 /\ from \in Nat /\ cuts \in Seq(Nat)
    BY DEF Onward
  <1>2. /\ c \in Nat /\ from < c /\ c <= from + MaxSeg
        /\ \A x \in Segments!CutPoints : x \in Nat /\ (x > c => x > from + MaxSeg)
    BY <1>1, NextCutIs
  <1>3. /\ more \in Seq(Nat) /\ Len(more) = n + 1 /\ more[n + 1] = c
        /\ \A i \in 1 .. n : more[i] = cuts[i]
    BY <1>1, <1>2, CutAdded
  <1> HIDE DEF more
  <1>4. total > MaxSeg /\ c < total
    BY <1>1, <1>2 DEF SegmentConstants
  <1>5. ASSUME NEW i \in 1 .. n PROVE more[i + 1] - more[i] <= MaxSeg /\ total - more[i] > MaxSeg
    <2>1. CASE i = n
      BY <1>1, <1>2, <1>3, <2>1 DEF SegmentConstants
    <2>2. CASE i # n
      <3>1. i \in 1 .. n - 1 /\ i + 1 \in 1 .. n
        BY <2>2
      <3> QED
        BY <1>3, <3>1 DEF Cutting
    <2> QED
      BY <2>1, <2>2
  <1>6. ASSUME NEW i \in 1 .. n - 1 PROVE more[i + 2] - more[i] > MaxSeg
    <2>1. CASE i = n - 1
      <3>1. n > 1 /\ more[i + 2] = c /\ more[i] = cuts[n - 1] /\ cuts[n - 1] \in Nat
        <4>1. n > 1 /\ i + 2 = n + 1 /\ n - 1 \in 1 .. n
          BY <1>1, <2>1
        <4>2. more[i + 2] = c
          BY <1>3, <4>1
        <4>3. more[n - 1] = cuts[n - 1]
          BY <1>3, <4>1
        <4>4. cuts[n - 1] \in Nat
          <5> DEFINE l == n - 1
          <5>1. l \in 1 .. Len(cuts) /\ cuts \in Seq(Nat)
            BY <1>1, <4>1
          <5> HIDE DEF l, n
          <5>2. cuts[l] \in Nat
            BY <5>1
          <5> QED
            BY <5>2 DEF l
        <4> QED
          BY <2>1, <4>1, <4>2, <4>3, <4>4
      <3>2. cuts[n - 1] < from
        BY <1>1, <2>1, <3>1 DEF Onward
      <3>3. c \in Segments!CutPoints \/ c = from + MaxSeg
        <4> DEFINE within == {x \in Segments!CutPoints : from + MinSeg <= x /\ x <= from + MaxSeg}
        <4>1. CASE within = {}
          BY <4>1 DEF Segments!NextCut
        <4>2. CASE within # {}
          <5>1. within \in SUBSET Nat /\ \A x \in within : x <= from + MaxSeg
            BY <1>2
          <5>2. from + MaxSeg \in Nat
            BY <1>1 DEF SegmentConstants
          <5>3. PICK x \in within : \A y \in within : x >= y
            BY <4>2, <5>1, <5>2, GreatestExists
          <5>4. Segments!Max(within) \in within
            BY <5>3 DEF Segments!Max
          <5> QED
            BY <4>2, <5>4 DEF Segments!NextCut
        <4> QED
          BY <4>1, <4>2
      <3>4. CASE c \in Segments!CutPoints
        <4>1. c > cuts[n - 1] + MaxSeg
          BY <1>2, <3>1, <3>4 DEF Cutting
        <4>2. c \in Nat /\ MaxSeg \in Nat
          BY <1>2 DEF SegmentConstants
        <4>3. c - cuts[n - 1] > MaxSeg
          BY <3>1, <4>1, <4>2
        <4> QED
          BY <3>1, <4>3
      <3>5. CASE c = from + MaxSeg
        <4>1. MaxSeg \in Nat
          BY DEF SegmentConstants
        <4>2. c - cuts[n - 1] > MaxSeg
          <5>1. PICK a \in Nat, b \in Nat, x \in Nat : a = cuts[n - 1] /\ b = from /\ x = MaxSeg
            BY <1>1, <3>1, <4>1
          <5>2. a < b /\ c = b + x
            BY <3>2, <3>5, <5>1
          <5>3. c - a > x
            BY <5>2
          <5> QED
            BY <5>1, <5>3
        <4> QED
          BY <3>1, <4>2
      <3> QED
        BY <3>3, <3>4, <3>5
    <2>2. CASE i # n - 1
      <3>1. i \in 1 .. n - 2 /\ i \in 1 .. n /\ i + 2 \in 1 .. n
        BY <1>1, <2>2
      <3> QED
        BY <1>3, <3>1 DEF Cutting
    <2> QED
      BY <2>1, <2>2
  <1>7. \A x \in Segments!CutPoints : x > more[n + 1] => x > more[n] + MaxSeg
    <2>1. n \in 1 .. n
      BY <1>1
    <2>2. more[n + 1] = c /\ more[n] = from
      BY <1>3, <2>1
    <2> QED
      BY <1>2, <2>2
  <1>8. Len(more) - 1 = n /\ Len(more) - 2 = n - 1
    BY <1>1, <1>3
  <1>9. Cutting(more)
    BY <1>3, <1>4, <1>5, <1>6, <1>7, <1>8 DEF Cutting
  <1> QED
    BY <1>2, <1>9 DEF more

\* The rest is the last segment, and nothing is merged yet.
LEMMA CuttingEnds ==
  ASSUME SegmentConstants, total \in Nat, Onward(cuts), Cutting(cuts),
         ~(total - cuts[Len(cuts)] > MaxSeg), NEW more, more = Append(cuts, total)
  PROVE  Onward(more) /\ Spans(more) /\ Short(more) /\ Merged(more) /\ Unmerged(more, 2)
  <1> DEFINE n == Len(cuts)
  <1>1. n \in Nat /\ n >= 1 /\ cuts[n] \in Nat /\ cuts \in Seq(Nat) /\ cuts[n] < total /\ cuts[1] = 0
    BY DEF Onward, Cutting
  <1>2. n > 1
    BY <1>1 DEF Cutting
  <1>3. /\ more \in Seq(Nat) /\ Len(more) = n + 1 /\ more[n + 1] = total
        /\ \A i \in 1 .. n : more[i] = cuts[i]
    BY <1>1, CutAdded
  <1>4. Onward(more)
    BY <1>1, CutsGrow
  <1>5. ASSUME NEW i \in 1 .. n PROVE more[i + 1] - more[i] <= MaxSeg
    <2>1. CASE i = n
      BY <1>1, <1>3, <2>1 DEF SegmentConstants
    <2>2. CASE i # n
      <3>1. i \in 1 .. n - 1 /\ i + 1 \in 1 .. n
        BY <2>2
      <3> QED
        BY <1>3, <3>1 DEF Cutting
    <2> QED
      BY <2>1, <2>2
  <1>6. ASSUME NEW i \in 1 .. n - 1 PROVE more[i + 2] - more[i] > MaxSeg
    <2>1. CASE i = n - 1
      <3>1. more[i + 2] = total /\ more[i] = cuts[n - 1] /\ n - 1 \in 1 .. n - 1
        BY <1>1, <1>2, <1>3, <2>1
      <3> QED
        BY <3>1 DEF Cutting
    <2>2. CASE i # n - 1
      <3>1. i \in 1 .. n - 2 /\ i \in 1 .. n /\ i + 2 \in 1 .. n
        BY <1>1, <2>2
      <3> QED
        BY <1>3, <3>1 DEF Cutting
    <2> QED
      BY <2>1, <2>2
  <1>7. Len(more) - 1 = n /\ Len(more) - 2 = n - 1
    BY <1>1, <1>3
  <1>8. \A i \in 1 .. n : more[i] \in Nat /\ more[i + 1] \in Nat
    BY <1>1, <1>3
  <1>9. Short(more)
    BY <1>5, <1>7, <1>8 DEF Short, SegmentConstants
  <1>10. Merged(more)
    <2>1. ASSUME NEW i \in 2 .. n PROVE more[i] - more[i - 1] <= MaxSeg
      <3>1. i - 1 \in 1 .. n /\ (i - 1) + 1 = i
        BY <1>1
      <3> QED
        BY <1>5, <3>1
    <2> QED
      BY <1>7, <2>1 DEF Merged
  <1>11. Unmerged(more, 2)
    <2>1. \A i \in 2 .. n : i \in 1 .. n
      BY <1>1
    <2>2. \A i \in 2 .. n - 1 : i \in 1 .. n - 1
      BY <1>1
    <2>3. 2 <= Len(more)
      BY <1>1, <1>2, <1>3
    <2>4. \A i \in 2 .. Len(more) - 1 : more[i + 1] - more[i] <= MaxSeg
      BY <1>5, <1>7, <2>1
    <2>5. \A i \in 2 .. Len(more) - 2 : more[i + 2] - more[i] > MaxSeg
      BY <1>6, <1>7, <2>2
    <2> QED
      BY <2>3, <2>4, <2>5 DEF Unmerged
  <1> QED
    BY <1>1, <1>2, <1>3, <1>4, <1>9, <1>10, <1>11 DEF Spans

\* A fragment goes to the segment before it.
LEMMA FragmentTaken ==
  ASSUME SegmentConstants, total \in Nat, Onward(cuts), Spans(cuts), Short(cuts), Merged(cuts),
         NEW n \in Nat, Unmerged(cuts, n), n < Len(cuts), cuts[n + 1] - cuts[n] < MinFrag,
         NEW less, less = Segments!RemoveAt(cuts, n)
  PROVE  Onward(less) /\ Spans(less) /\ Short(less) /\ Merged(less) /\ Unmerged(less, n)
  <1> DEFINE m == Len(cuts)
  <1>1. /\ m \in Nat /\ 2 <= n /\ n <= m - 1 /\ n \in 1 .. m /\ cuts \in Seq(Nat)
        /\ MaxSeg \in Nat /\ MinTail \in Nat /\ MinFrag \in Nat
        /\ MinFrag <= MinTail /\ MinFrag + MinTail <= MaxSeg + 2
    BY DEF Onward, Unmerged, SegmentConstants
  <1>2. /\ less \in Seq(Nat) /\ Len(less) = m - 1
        /\ \A i \in 1 .. m - 1 : less[i] = IF i < n THEN cuts[i] ELSE cuts[i + 1]
    BY <1>1, CutTaken
  <1>3. /\ \A i \in 1 .. m : cuts[i] \in Nat
        /\ \A i \in 1 .. m - 1 : cuts[i] < cuts[i + 1] /\ cuts[i + 1] - cuts[i] <= MaxSeg + MinTail
        /\ \A i \in 2 .. m - 1 : cuts[i] - cuts[i - 1] <= MaxSeg \/ cuts[i + 1] - cuts[i] >= MinTail
        /\ \A i \in n .. m - 1 : cuts[i + 1] - cuts[i] <= MaxSeg
        /\ \A i \in n .. m - 2 : cuts[i + 2] - cuts[i] > MaxSeg
        /\ cuts[1] = 0 /\ cuts[m] = total
    <2>1. /\ \A i \in 1 .. m : cuts[i] \in Nat
          /\ \A i \in 1 .. m - 1 : cuts[i] < cuts[i + 1]
          /\ cuts[1] = 0
      BY <1>1 DEF Onward
    <2>2. \A i \in 1 .. m - 1 : cuts[i + 1] - cuts[i] <= MaxSeg + MinTail
      BY DEF Short
    <2>3. \A i \in 2 .. m - 1 : cuts[i] - cuts[i - 1] <= MaxSeg \/ cuts[i + 1] - cuts[i] >= MinTail
      BY DEF Merged
    <2>4. /\ \A i \in n .. m - 1 : cuts[i + 1] - cuts[i] <= MaxSeg
          /\ \A i \in n .. m - 2 : cuts[i + 2] - cuts[i] > MaxSeg
      BY DEF Unmerged
    <2>5. cuts[m] = total
      BY DEF Spans
    <2> HIDE DEF m
    <2> QED
      BY <2>1, <2>2, <2>3, <2>4, <2>5
  <1>4. /\ \A i \in 1 .. n - 1 : less[i] = cuts[i]
        /\ \A i \in n .. m - 1 : less[i] = cuts[i + 1]
    <2>1. ASSUME NEW i \in 1 .. n - 1 PROVE less[i] = cuts[i]
      <3>1. i \in 1 .. m - 1 /\ i < n
        BY <1>1
      <3> QED
        BY <1>2, <3>1
    <2>2. ASSUME NEW i \in n .. m - 1 PROVE less[i] = cuts[i + 1]
      <3>1. i \in 1 .. m - 1 /\ ~(i < n)
        BY <1>1
      <3> QED
        BY <1>2, <3>1
    <2> QED
      BY <2>1, <2>2
  \* The segment before the fragment was not extended, and is now.
  <1>5. /\ cuts[n] - cuts[n - 1] <= MaxSeg /\ cuts[n - 1] < cuts[n] /\ cuts[n] < cuts[n + 1]
        /\ cuts[n - 1] \in Nat /\ cuts[n] \in Nat /\ cuts[n + 1] \in Nat
        /\ less[n - 1] = cuts[n - 1] /\ less[n] = cuts[n + 1]
    <2>1. n \in 2 .. m - 1 /\ n - 1 \in 1 .. m - 1 /\ n \in 1 .. m /\ n + 1 \in 1 .. m
          /\ n - 1 \in 1 .. n - 1 /\ n \in n .. m - 1 /\ (n - 1) + 1 = n
      BY <1>1
    <2>2. cuts[n - 1] \in Nat /\ cuts[n] \in Nat /\ cuts[n + 1] \in Nat
      BY <1>3, <2>1
    <2>3. cuts[n - 1] < cuts[n] /\ cuts[n] < cuts[n + 1]
      BY <1>3, <2>1
    <2>4. cuts[n] - cuts[n - 1] <= MaxSeg \/ cuts[n + 1] - cuts[n] >= MinTail
      BY <1>3, <2>1
    <2>5. less[n - 1] = cuts[n - 1]
      BY <1>4, <2>1
    <2>6. less[n] = cuts[n + 1]
      BY <1>4, <2>1
    <2>7. cuts[n] - cuts[n - 1] <= MaxSeg
      <3> DEFINE rest == cuts[n + 1] - cuts[n]
      <3>1. rest \in Int /\ rest < MinFrag
        BY <2>2
      <3> HIDE DEF rest
      <3>2. ~(rest >= MinTail)
        BY <1>1, <3>1
      <3> QED
        BY <2>4, <3>2 DEF rest
    <2> QED
      BY <2>2, <2>3, <2>5, <2>6, <2>7
  <1>6. /\ less[n] - less[n - 1] < MaxSeg + MinFrag /\ less[n - 1] < less[n]
        /\ less[n - 1] \in Nat /\ less[n] \in Nat
    <2>1. cuts[n + 1] - cuts[n - 1] < MaxSeg + MinFrag /\ cuts[n - 1] < cuts[n + 1]
      <3>1. PICK a \in Nat, b \in Nat, e \in Nat :
                    a = cuts[n - 1] /\ b = cuts[n] /\ e = cuts[n + 1]
        BY <1>5
      <3>2. b - a <= MaxSeg /\ a < b /\ b < e /\ e - b < MinFrag
        BY <1>5, <3>1
      <3>3. e - a < MaxSeg + MinFrag /\ a < e
        BY <1>1, <3>2
      <3> QED
        BY <3>1, <3>3
    <2> QED
      BY <1>5, <2>1
  <1>7. ASSUME NEW i \in 1 .. m - 2
        PROVE  less[i] < less[i + 1] /\ less[i + 1] - less[i] <= MaxSeg + MinTail
    <2>1. CASE i < n - 1
      <3>1. i \in 1 .. n - 1 /\ i + 1 \in 1 .. n - 1 /\ i \in 1 .. m - 1
        BY <1>1, <2>1
      <3> QED
        BY <1>3, <1>4, <3>1
    <2>2. CASE i = n - 1
      <3>1. i + 1 = n
        BY <1>1, <2>2
      <3>2. less[n - 1] < less[n] /\ less[n] - less[n - 1] <= MaxSeg + MinTail
        <4> DEFINE a == less[n - 1]
                   b == less[n]
        <4>1. b - a < MaxSeg + MinFrag /\ a < b /\ a \in Nat /\ b \in Nat
          BY <1>6
        <4> HIDE DEF a, b
        <4>2. a < b /\ b - a <= MaxSeg + MinTail
          BY <1>1, <4>1
        <4> QED
          BY <4>2 DEF a, b
      <3> QED
        BY <2>2, <3>1, <3>2
    <2>3. CASE i > n - 1
      <3>1. i \in n .. m - 1 /\ i + 1 \in n .. m - 1 /\ i + 1 \in 1 .. m - 1
        BY <1>1, <2>3
      <3> QED
        BY <1>3, <1>4, <3>1
    <2> QED
      BY <1>1, <2>1, <2>2, <2>3
  \* What follows is all the longer.
  <1>8. n \in 2 .. m - 2 => less[n + 1] - less[n] >= MinTail
    <2>1. SUFFICES ASSUME n \in 2 .. m - 2 PROVE less[n + 1] - less[n] >= MinTail
      OBVIOUS
    <2>2. n \in n .. m - 2 /\ n + 1 \in n .. m - 1 /\ n + 2 \in 1 .. m /\ (n + 1) + 1 = n + 2
      BY <1>1, <2>1
    <2>3. less[n + 1] = cuts[n + 2] /\ cuts[n + 2] \in Nat /\ cuts[n + 2] - cuts[n] > MaxSeg
      BY <1>3, <1>4, <2>2
    <2>4. cuts[n + 2] - cuts[n + 1] >= MinTail
      <3>1. PICK b \in Nat, e \in Nat, f \in Nat :
                    b = cuts[n] /\ e = cuts[n + 1] /\ f = cuts[n + 2]
        BY <1>5, <2>3
      <3>2. e - b < MinFrag /\ f - b > MaxSeg
        BY <2>3, <3>1
      <3>3. f - e >= MinTail
        BY <1>1, <3>2
      <3> QED
        BY <3>1, <3>3
    <2> QED
      BY <1>5, <2>3, <2>4
  <1>9. ASSUME NEW i \in 2 .. m - 2
        PROVE  less[i] - less[i - 1] <= MaxSeg \/ less[i + 1] - less[i] >= MinTail
    <2>1. CASE i < n - 1
      <3>1. i - 1 \in 1 .. n - 1 /\ i \in 1 .. n - 1 /\ i + 1 \in 1 .. n - 1 /\ i \in 2 .. m - 1
        BY <1>1, <2>1
      <3> QED
        BY <1>3, <1>4, <3>1
    <2>2. CASE i = n - 1
      <3>1. i - 1 \in 1 .. n - 1 /\ i \in 1 .. n - 1 /\ i + 1 = n /\ i \in 2 .. m - 1
        BY <1>1, <2>2
      <3>2. less[i - 1] = cuts[i - 1] /\ less[i] = cuts[i]
        BY <1>4, <3>1
      <3>3. cuts[i] - cuts[i - 1] <= MaxSeg \/ cuts[i + 1] - cuts[i] >= MinTail
        BY <1>3, <3>1
      <3>4. cuts[i + 1] = cuts[n] /\ cuts[i] = cuts[n - 1] /\ less[i + 1] = cuts[n + 1]
        BY <1>5, <2>2, <3>1
      <3> QED
        <4>1. cuts[i] - cuts[i - 1] <= MaxSeg \/ cuts[n] - cuts[n - 1] >= MinTail
          BY <3>3, <3>4
        <4>2. cuts[n] - cuts[n - 1] >= MinTail => cuts[n + 1] - cuts[n - 1] >= MinTail
          <5>1. PICK a \in Nat, b \in Nat, e \in Nat :
                        a = cuts[n - 1] /\ b = cuts[n] /\ e = cuts[n + 1]
            BY <1>5
          <5>2. b < e
            BY <1>5, <5>1
          <5>3. b - a >= MinTail => e - a >= MinTail
            BY <1>1, <5>2
          <5> QED
            BY <5>1, <5>3
        <4>3. less[i + 1] - less[i] = cuts[n + 1] - cuts[n - 1]
          BY <3>2, <3>4
        <4>4. less[i] - less[i - 1] = cuts[i] - cuts[i - 1]
          BY <3>2
        <4> QED
          BY <4>1, <4>2, <4>3, <4>4
    <2>3. CASE i = n
      BY <1>8, <2>3
    <2>4. CASE i > n
      <3>1. i - 1 \in n .. m - 1 /\ i \in n .. m - 1 /\ i + 1 \in n .. m - 1 /\ (i - 1) + 1 = i
        BY <1>1, <2>4
      <3>2. less[i - 1] = cuts[i] /\ less[i] = cuts[i + 1]
        BY <1>4, <3>1
      <3> QED
        BY <1>3, <3>1, <3>2
    <2> QED
      BY <1>1, <2>1, <2>2, <2>3, <2>4
  <1>10. ASSUME NEW i \in n .. m - 2 PROVE less[i + 1] - less[i] <= MaxSeg
    <2>1. i \in n .. m - 1 /\ i + 1 \in n .. m - 1
      BY <1>1
    <2> QED
      BY <1>3, <1>4, <2>1
  <1>11. ASSUME NEW i \in n .. m - 3 PROVE less[i + 2] - less[i] > MaxSeg
    <2>1. i \in n .. m - 1 /\ i + 2 \in n .. m - 1 /\ i + 1 \in n .. m - 2 /\ (i + 1) + 2 = (i + 2) + 1
      BY <1>1
    <2>2. less[i + 2] = cuts[(i + 2) + 1] /\ less[i] = cuts[i + 1]
      BY <1>4, <2>1
    <2>3. cuts[(i + 1) + 2] - cuts[i + 1] > MaxSeg
      BY <1>3, <2>1
    <2> QED
      BY <2>1, <2>2, <2>3
  <1>12. Len(less) - 1 = m - 2 /\ Len(less) - 2 = m - 3 /\ Len(less) >= 2 /\ n <= Len(less)
    BY <1>1, <1>2
  <1>13. less[1] = 0 /\ less[Len(less)] = total
    <2>1. 1 \in 1 .. n - 1 /\ m - 1 \in n .. m - 1 /\ (m - 1) + 1 = m
      BY <1>1
    <2> QED
      BY <1>2, <1>3, <1>4, <2>1
  <1>14. Onward(less) /\ Spans(less) /\ Short(less)
    <2>1. \A i \in 1 .. Len(less) - 1 : less[i] < less[i + 1] /\ less[i + 1] - less[i] <= MaxSeg + MinTail
      BY <1>7, <1>12
    <2>2. Len(less) >= 1
      BY <1>1, <1>2
    <2> QED
      BY <1>2, <1>12, <1>13, <2>1, <2>2 DEF Onward, Spans, Short
  <1>15. Merged(less)
    BY <1>9, <1>12 DEF Merged
  <1>16. Unmerged(less, n)
    BY <1>1, <1>10, <1>11, <1>12 DEF Unmerged
  <1> QED
    BY <1>14, <1>15, <1>16

\* A tail too short goes to the segment before it, which took in no fragment.
LEMMA TailTaken ==
  ASSUME SegmentConstants, total \in Nat, Onward(cuts), Spans(cuts), Short(cuts), Merged(cuts),
         Len(cuts) >= 3, cuts[Len(cuts)] - cuts[Len(cuts) - 1] < MinTail,
         NEW less, less = Segments!RemoveAt(cuts, Len(cuts) - 1)
  PROVE  Onward(less) /\ Spans(less) /\ Short(less) /\ Merged(less)
  <1> DEFINE m == Len(cuts)
  <1>1. /\ m \in Nat /\ m >= 3 /\ cuts \in Seq(Nat)
        /\ MaxSeg \in Nat /\ MinTail \in Nat
    BY DEF Onward, SegmentConstants
  <1>2. /\ less \in Seq(Nat) /\ Len(less) = m - 1
        /\ \A i \in 1 .. m - 1 : less[i] = IF i < m - 1 THEN cuts[i] ELSE cuts[i + 1]
    <2>1. m - 1 \in 1 .. m
      BY <1>1
    <2> QED
      BY <1>1, <2>1, CutTaken
  <1>3. /\ \A i \in 1 .. m : cuts[i] \in Nat
        /\ \A i \in 1 .. m - 1 : cuts[i] < cuts[i + 1] /\ cuts[i + 1] - cuts[i] <= MaxSeg + MinTail
        /\ \A i \in 2 .. m - 1 : cuts[i] - cuts[i - 1] <= MaxSeg \/ cuts[i + 1] - cuts[i] >= MinTail
        /\ cuts[1] = 0 /\ cuts[m] = total
    <2>1. /\ \A i \in 1 .. m : cuts[i] \in Nat
          /\ \A i \in 1 .. m - 1 : cuts[i] < cuts[i + 1]
          /\ cuts[1] = 0
      BY <1>1 DEF Onward
    <2>2. \A i \in 1 .. m - 1 : cuts[i + 1] - cuts[i] <= MaxSeg + MinTail
      BY DEF Short
    <2>3. \A i \in 2 .. m - 1 : cuts[i] - cuts[i - 1] <= MaxSeg \/ cuts[i + 1] - cuts[i] >= MinTail
      BY DEF Merged
    <2>4. cuts[m] = total
      BY DEF Spans
    <2> HIDE DEF m
    <2> QED
      BY <2>1, <2>2, <2>3, <2>4
  <1>4. \A i \in 1 .. m - 2 : less[i] = cuts[i]
    <2>1. ASSUME NEW i \in 1 .. m - 2 PROVE less[i] = cuts[i]
      <3>1. i \in 1 .. m - 1 /\ i < m - 1
        BY <1>1
      <3> QED
        BY <1>2, <3>1
    <2> QED
      BY <2>1
  <1>5. /\ cuts[m - 1] - cuts[m - 2] <= MaxSeg /\ cuts[m] - cuts[m - 1] < MinTail
        /\ cuts[m - 2] < cuts[m - 1] /\ cuts[m - 1] < cuts[m]
        /\ cuts[m - 2] \in Nat /\ cuts[m - 1] \in Nat /\ cuts[m] \in Nat
        /\ less[m - 2] = cuts[m - 2] /\ less[m - 1] = cuts[m]
    <2>1. /\ m - 2 \in 1 .. m - 1 /\ m - 1 \in 1 .. m - 1 /\ m \in 1 .. m /\ m - 1 \in 2 .. m - 1
          /\ m - 2 \in 1 .. m - 2 /\ (m - 2) + 1 = m - 1 /\ (m - 1) + 1 = m /\ (m - 1) - 1 = m - 2
          /\ m - 2 \in 1 .. m /\ m - 1 \in 1 .. m /\ ~(m - 1 < m - 1)
      BY <1>1
    <2>2. cuts[m - 2] \in Nat /\ cuts[m - 1] \in Nat /\ cuts[m] \in Nat
      BY <1>3, <2>1
    <2>3. cuts[m - 2] < cuts[m - 1] /\ cuts[m - 1] < cuts[m]
      BY <1>3, <2>1
    <2>4. cuts[m - 1] - cuts[m - 2] <= MaxSeg \/ cuts[m] - cuts[m - 1] >= MinTail
      BY <1>3, <2>1
    <2>5. less[m - 1] = cuts[m]
      BY <1>2, <2>1
    <2>6. less[m - 2] = cuts[m - 2]
      BY <1>4, <2>1
    <2>7. cuts[m - 1] - cuts[m - 2] <= MaxSeg
      BY <1>1, <2>2, <2>4
    <2> QED
      BY <2>2, <2>3, <2>5, <2>6, <2>7
  <1>6. /\ less[m - 1] - less[m - 2] <= MaxSeg + MinTail /\ less[m - 2] < less[m - 1]
        /\ cuts[m - 1] - cuts[m - 2] <= less[m - 1] - less[m - 2]
    <2>1. PICK a \in Nat, b \in Nat, e \in Nat :
                  a = cuts[m - 2] /\ b = cuts[m - 1] /\ e = cuts[m]
      BY <1>5
    <2>2. b - a <= MaxSeg /\ a < b /\ b < e /\ e - b < MinTail
      BY <1>5, <2>1
    <2>3. e - a <= MaxSeg + MinTail /\ a < e /\ b - a <= e - a
      BY <1>1, <2>2
    <2> QED
      BY <1>5, <2>1, <2>3
  <1>7. ASSUME NEW i \in 1 .. m - 2
        PROVE  less[i] < less[i + 1] /\ less[i + 1] - less[i] <= MaxSeg + MinTail
    <2>1. CASE i < m - 2
      <3> HIDE DEF m
      <3>a. m \in Nat /\ i \in Nat /\ 1 <= i /\ i <= m - 2
        BY <1>1
      <3>1. i \in 1 .. m - 2 /\ i + 1 \in 1 .. m - 2 /\ i \in 1 .. m - 1
        BY <2>1, <3>a
      <3> QED
        BY <1>3, <1>4, <3>1
    <2>2. CASE i = m - 2
      <3>1. i + 1 = m - 1
        BY <1>1, <2>2
      <3> QED
        BY <1>6, <2>2, <3>1
    <2> QED
      BY <1>1, <2>1, <2>2
  <1>8. ASSUME NEW i \in 2 .. m - 2
        PROVE  less[i] - less[i - 1] <= MaxSeg \/ less[i + 1] - less[i] >= MinTail
    <2>1. /\ i - 1 \in 1 .. m - 2 /\ i \in 1 .. m - 2 /\ i \in 2 .. m - 1
      BY <1>1
    <2>2. less[i - 1] = cuts[i - 1] /\ less[i] = cuts[i]
      BY <1>4, <2>1
    <2>3. cuts[i] - cuts[i - 1] <= MaxSeg \/ cuts[i + 1] - cuts[i] >= MinTail
      BY <1>3, <2>1
    <2>4. CASE i < m - 2
      <3>1. i + 1 \in 1 .. m - 2
        BY <1>1, <2>4
      <3>2. less[i + 1] = cuts[i + 1]
        BY <1>4, <3>1
      <3> QED
        BY <2>2, <2>3, <3>2
    <2>5. CASE i = m - 2
      <3>1. i + 1 = m - 1
        BY <1>1, <2>5
      <3>2. cuts[m - 1] - cuts[m - 2] >= MinTail => less[m - 1] - less[m - 2] >= MinTail
        <4>1. PICK a \in Nat, b \in Nat, e \in Nat :
                      a = cuts[m - 2] /\ b = cuts[m - 1] /\ e = cuts[m]
          BY <1>5
        <4>2. b < e
          BY <1>5, <4>1
        <4>3. b - a >= MinTail => e - a >= MinTail
          BY <1>1, <4>2
        <4> QED
          BY <1>5, <4>1, <4>3
      <3>3. cuts[i] - cuts[i - 1] <= MaxSeg \/ cuts[m - 1] - cuts[m - 2] >= MinTail
        BY <2>3, <2>5, <3>1
      <3>4. less[i] - less[i - 1] = cuts[i] - cuts[i - 1] /\ less[i + 1] - less[i] = less[m - 1] - less[m - 2]
        BY <2>2, <2>5, <3>1
      <3> QED
        BY <3>2, <3>3, <3>4
    <2> QED
      BY <1>1, <2>4, <2>5
  <1>9. Len(less) - 1 = m - 2 /\ Len(less) >= 2
    BY <1>1, <1>2
  <1>10. less[1] = 0 /\ less[Len(less)] = total
    <2>1. 1 \in 1 .. m - 2
      BY <1>1
    <2> QED
      BY <1>2, <1>3, <1>4, <1>5, <2>1
  <1>11. Onward(less) /\ Spans(less) /\ Short(less)
    <2>1. \A i \in 1 .. Len(less) - 1 : less[i] < less[i + 1] /\ less[i + 1] - less[i] <= MaxSeg + MinTail
      BY <1>7, <1>9
    <2>2. Len(less) >= 1
      BY <1>1, <1>2
    <2> QED
      BY <1>2, <1>9, <1>10, <2>1, <2>2 DEF Onward, Spans, Short
  <1>12. Merged(less)
    BY <1>8, <1>9 DEF Merged
  <1> QED
    BY <1>11, <1>12

\* A slice of the longest length is taken off what is longer.
LEMMA SliceTaken ==
  ASSUME SegmentConstants, total \in Nat, Onward(cuts), Spans(cuts),
         NEW n \in 1 .. Len(cuts), n < Len(cuts), Sliced(cuts, n),
         cuts[n + 1] - cuts[n] > MaxSeg,
         NEW more, more = Segments!InsertAt(cuts, n + 1, cuts[n] + MaxSeg)
  PROVE  Onward(more) /\ Spans(more) /\ Sliced(more, n + 1) /\ n + 1 \in 1 .. Len(more)
  <1> DEFINE m == Len(cuts)
             put == cuts[n] + MaxSeg
  <1>1. /\ m \in Nat /\ m >= 2 /\ n \in 1 .. m - 1 /\ n + 1 \in 1 .. m /\ cuts \in Seq(Nat)
        /\ MaxSeg \in Nat \ {0} /\ n + 1 \in 1 .. m + 1
    BY DEF Onward, Spans, SegmentConstants
  <1>2. cuts[n] \in Nat /\ cuts[n + 1] \in Nat /\ put \in Nat /\ cuts[n] < put /\ put < cuts[n + 1]
    <2>1. PICK a \in Nat, b \in Nat : a = cuts[n] /\ b = cuts[n + 1]
      BY <1>1
    <2>2. b - a > MaxSeg
      BY <2>1
    <2>3. a + MaxSeg \in Nat /\ a < a + MaxSeg /\ a + MaxSeg < b
      BY <1>1, <2>2
    <2> QED
      BY <2>1, <2>3
  <1>3. more = Segments!InsertAt(cuts, n + 1, put)
    OBVIOUS
  <1> HIDE DEF put
  <1>4. /\ more \in Seq(Nat) /\ Len(more) = m + 1
        /\ \A i \in 1 .. n : more[i] = cuts[i]
        /\ more[n + 1] = put
        /\ \A i \in n + 2 .. m + 1 : more[i] = cuts[i - 1]
    <2>1. \A k \in 1 .. Len(cuts) + 1, x \in Nat : Inserted(Segments!InsertAt(cuts, k, x), cuts, k, x)
      <3>1. cuts \in Seq(Nat)
        BY <1>1
      <3>2. ASSUME NEW k \in 1 .. Len(cuts) + 1, NEW x \in Nat
            PROVE  Inserted(Segments!InsertAt(cuts, k, x), cuts, k, x)
        BY <3>1, CutPut
      <3> QED
        BY <3>2
    <2>2. Inserted(more, cuts, n + 1, put)
      BY <1>1, <1>2, <1>3, <2>1
    <2>3. (n + 1) - 1 = n /\ (n + 1) + 1 = n + 2
      BY <1>1
    <2> QED
      BY <2>2, <2>3 DEF Inserted
  <1>5. ASSUME NEW i \in 1 .. m PROVE more[i] < more[i + 1]
    <2>1. CASE i < n
      <3>1. i \in 1 .. n /\ i + 1 \in 1 .. n /\ i \in 1 .. m - 1
        BY <1>1, <2>1
      <3> QED
        BY <1>4, <3>1 DEF Onward
    <2>2. CASE i = n
      <3>1. i \in 1 .. n
        BY <1>1, <2>2
      <3> QED
        BY <1>2, <1>4, <2>2, <3>1
    <2>3. CASE i = n + 1
      <3>1. i + 1 \in n + 2 .. m + 1 /\ (i + 1) - 1 = n + 1
        BY <1>1, <2>3
      <3>2. more[i + 1] = cuts[n + 1] /\ more[i] = put
        BY <1>4, <2>3, <3>1
      <3> QED
        BY <1>2, <3>2
    <2>4. CASE i > n + 1
      <3>1. i \in n + 2 .. m + 1 /\ i + 1 \in n + 2 .. m + 1 /\ i - 1 \in 1 .. m - 1 /\ (i - 1) + 1 = i
            /\ (i + 1) - 1 = i
        BY <1>1, <2>4
      <3>2. more[i] = cuts[i - 1] /\ more[i + 1] = cuts[i]
        BY <1>4, <3>1
      <3>3. cuts[i - 1] < cuts[(i - 1) + 1]
        BY <3>1 DEF Onward
      <3> QED
        BY <3>1, <3>2, <3>3
    <2> QED
      BY <1>1, <2>1, <2>2, <2>3, <2>4
  <1>6. ASSUME NEW i \in 1 .. n PROVE more[i + 1] - more[i] <= MaxSeg
    <2>1. CASE i < n
      <3>1. i \in 1 .. n /\ i + 1 \in 1 .. n /\ i \in 1 .. n - 1
        BY <1>1, <2>1
      <3> QED
        BY <1>4, <3>1 DEF Sliced
    <2>2. CASE i = n
      <3>1. i \in 1 .. n
        BY <1>1, <2>2
      <3>2. more[i + 1] = cuts[n] + MaxSeg /\ more[i] = cuts[n]
        BY <1>4, <2>2, <3>1 DEF put
      <3> QED
        <4>1. PICK a \in Nat : a = cuts[n]
          BY <1>2
        <4>2. (a + MaxSeg) - a <= MaxSeg
          BY <1>1
        <4> QED
          BY <3>2, <4>1, <4>2
    <2> QED
      BY <1>1, <2>1, <2>2
  <1>7. Len(more) - 1 = m /\ Len(more) >= 2 /\ Len(more) >= 1 /\ (n + 1) - 1 = n
    <2>1. Len(more) = m + 1
      BY <1>4
    <2> HIDE DEF m
    <2> QED
      BY <1>1, <2>1
  <1>8. more[1] = 0 /\ more[Len(more)] = total
    <2>1. 1 \in 1 .. n /\ m + 1 \in n + 2 .. m + 1 /\ (m + 1) - 1 = m
      BY <1>1
    <2>2. more[1] = cuts[1] /\ more[m + 1] = cuts[m]
      BY <1>4, <2>1
    <2> QED
      BY <1>4, <2>2 DEF Onward, Spans
  <1>9. Onward(more)
    BY <1>4, <1>5, <1>7, <1>8 DEF Onward
  <1>10. Spans(more)
    BY <1>7, <1>8 DEF Spans
  <1>11. Sliced(more, n + 1)
    BY <1>6, <1>7 DEF Sliced
  <1>12. n + 1 \in 1 .. Len(more)
    BY <1>1, <1>4
  <1> QED
    BY <1>9, <1>10, <1>11, <1>12

\* Audio not cut yet, and audio in one piece.
LEMMA NotCut == Onward(<<0>>)
  BY DEF Onward

LEMMA OnePiece ==
  ASSUME total \in Nat, total > 0
  PROVE  /\ Onward(<<0, total>>) /\ Spans(<<0, total>>) /\ Sliced(<<0, total>>, 1)
         /\ Len(<<0, total>>) = 2
  <1> DEFINE two == <<0, total>>
  <1>1. two \in Seq(Nat) /\ Len(two) = 2 /\ two[1] = 0 /\ two[2] = total
    OBVIOUS
  <1> HIDE DEF two
  <1>2. Onward(two) /\ Spans(two) /\ Sliced(two, 1)
    BY <1>1 DEF Onward, Spans, Sliced
  <1> QED
    BY <1>1, <1>2 DEF two

\* No request yet.
LEMMA SegmentInitIInv ==
  ASSUME Segments!Init
  PROVE  SegmentIInv
  BY NotCut DEF Segments!Init, SegmentIInv

\* A request that is answered starts over.
LEMMA Answered ==
  ASSUME SegmentIInv, NEW k, NEW spoken, Segments!Answer(k, spoken), UNCHANGED <<route, total>>,
         route = "rk_stream" /\ lost' # {} => k = "unloaded"
  PROVE  SegmentIInv'
  <1>1. cuts' = <<0>> /\ stage' = "idle" /\ at' = 0 /\ total' = total /\ route' = route
    BY DEF Segments!Answer
  <1>2. answer'.kind = k
    BY DEF Segments!Answer
  <1>3. Onward(cuts')
    BY <1>1, NotCut
  <1> QED
    BY <1>1, <1>2, <1>3 DEF SegmentIInv

\* Before the first cut.
LEMMA BeforeTheCuts ==
  ASSUME SegmentConstants, SegmentIInv,
         Segments!Request \/ Segments!Classify \/ Segments!SplitterFails
  PROVE  SegmentIInv'
  <1>1. CASE Segments!Request
    <2>1. Onward(cuts')
      BY <1>1, NotCut DEF Segments!Request
    <2>2. total' \in Nat /\ total' > 0 /\ at' = 0 /\ cuts' = <<0>> /\ lost' = {} /\ stage' \in {"whole", "frames"}
      BY <1>1 DEF Segments!Request, SegmentConstants
    <2> QED
      BY <2>1, <2>2 DEF SegmentIInv
  <1>2. ASSUME stage = "frames", cuts' = <<0, total>>, at' = 1, stage' = "bound",
               UNCHANGED <<route, total, lost, answer>>
        PROVE  SegmentIInv'
    <2>1. total \in Nat /\ total > 0
      BY <1>2 DEF SegmentIInv
    <2>2. Onward(cuts') /\ Spans(cuts)' /\ Sliced(cuts', 1) /\ Len(cuts') = 2
      BY <1>2, <2>1, OnePiece DEF Spans
    <2>3. at' \in 1 .. Len(cuts')
      BY <1>2, <2>2
    <2>4. route' = "rk_stream" /\ lost' # {} => FALSE
      BY <1>2 DEF SegmentIInv
    <2>5. Sliced(cuts, at)'
      BY <1>2, <2>2 DEF Sliced
    <2> QED
      BY <1>2, <2>1, <2>2, <2>3, <2>4, <2>5 DEF SegmentIInv
  <1>3. CASE Segments!Classify
    <2>1. CASE total <= MaxSeg
      <3>1. stage = "frames" /\ cuts' = <<0, total>> /\ at' = 1 /\ stage' = "bound"
        BY <1>3, <2>1 DEF Segments!Classify
      <3>2. UNCHANGED <<route, total, lost, answer>>
        BY <1>3 DEF Segments!Classify
      <3> QED
        BY <1>2, <3>1, <3>2
    <2>2. CASE ~(total <= MaxSeg)
      <3>1. stage = "frames" /\ stage' = "cut" /\ UNCHANGED <<cuts, at, route, total, lost, answer>>
        BY <1>3, <2>2 DEF Segments!Classify
      <3>2. cuts' = <<0>> /\ total' \in Nat /\ at' \in Nat /\ Onward(cuts')
        BY <3>1, NotCut DEF SegmentIInv
      <3>3. total' > MaxSeg
        BY <2>2, <3>1 DEF SegmentIInv, SegmentConstants
      <3>4. Cutting(cuts)'
        <4>1. Len(cuts') = 1 /\ cuts'[1] = 0
          BY <3>2
        <4> QED
          BY <3>2, <3>3, <4>1 DEF Cutting, SegmentConstants
      <3>5. route' = "rk_stream" /\ lost' # {} => FALSE
        BY <3>1 DEF SegmentIInv
      <3> QED
        BY <3>1, <3>2, <3>4, <3>5 DEF SegmentIInv
    <2> QED
      BY <2>1, <2>2
  <1>4. CASE Segments!SplitterFails
    <2>1. stage = "frames" /\ cuts' = <<0, total>> /\ at' = 1 /\ stage' = "bound"
      BY <1>4 DEF Segments!SplitterFails
    <2>2. UNCHANGED <<route, total, lost, answer>>
      BY <1>4 DEF Segments!SplitterFails
    <2> QED
      BY <1>2, <2>1, <2>2
  <1> QED
    BY <1>1, <1>3, <1>4

\* The cuts, the fragments and the tail.
LEMMA WhileCutting ==
  ASSUME SegmentConstants, SegmentIInv,
         Segments!Cut \/ Segments!MergeFragment \/ Segments!MergeTail
  PROVE  SegmentIInv'
  <1>0. Onward(cuts) /\ cuts \in Seq(Nat) /\ total \in Nat /\ at \in Nat /\ Len(cuts) \in Nat
    BY DEF SegmentIInv, Onward
  <1>1. CASE Segments!Cut
    <2>1. /\ stage = "cut" /\ Cutting(cuts) /\ UNCHANGED <<route, total, lost, answer>>
          /\ ~(route = "rk_stream" /\ lost # {})
      BY <1>1 DEF SegmentIInv, Segments!Cut
    <2>2. Segments!Last(cuts) = cuts[Len(cuts)]
      BY DEF Segments!Last
    <2>3. CASE total - cuts[Len(cuts)] > MaxSeg
      <3> DEFINE next == Segments!NextCut(cuts[Len(cuts)])
      <3>1. cuts' = Append(cuts, next) /\ UNCHANGED <<silent, at, stage>>
        BY <1>1, <2>2, <2>3 DEF Segments!Cut
      <3>2. next \in Nat /\ next > cuts[Len(cuts)] /\ Cutting(Append(cuts, next))
        BY <1>0, <2>1, <2>3, CuttingOn
      <3> HIDE DEF next
      <3>3. Onward(cuts')
        BY <1>0, <3>1, <3>2, CutsGrow
      <3>4. Cutting(cuts)'
        BY <2>1, <3>1, <3>2 DEF Cutting, Segments!CutPoints
      <3> QED
        BY <1>0, <2>1, <3>1, <3>3, <3>4 DEF SegmentIInv
    <2>4. CASE ~(total - cuts[Len(cuts)] > MaxSeg)
      <3>1. cuts' = Append(cuts, total) /\ at' = 2 /\ stage' = "merge"
        BY <1>1, <2>2, <2>4 DEF Segments!Cut
      <3>2. Onward(cuts') /\ Spans(cuts') /\ Short(cuts') /\ Merged(cuts') /\ Unmerged(cuts', 2)
        BY <1>0, <2>1, <2>4, <3>1, CuttingEnds
      <3>3. Spans(cuts)' /\ Short(cuts)' /\ Merged(cuts)' /\ Unmerged(cuts, at)'
        BY <2>1, <3>1, <3>2 DEF Spans, Short, Merged, Unmerged
      <3> QED
        BY <1>0, <2>1, <3>1, <3>2, <3>3 DEF SegmentIInv
    <2> QED
      BY <2>3, <2>4
  <1>2. CASE Segments!MergeFragment
    <2>1. /\ stage = "merge" /\ Spans(cuts) /\ Short(cuts) /\ Merged(cuts) /\ Unmerged(cuts, at)
          /\ UNCHANGED <<route, total, lost, answer>> /\ ~(route = "rk_stream" /\ lost # {})
      BY <1>2 DEF SegmentIInv, Segments!MergeFragment
    <2>2. CASE at >= Len(cuts)
      <3>1. stage' = "tail" /\ UNCHANGED <<cuts, at>>
        BY <1>2, <2>2 DEF Segments!MergeFragment
      <3>2. Spans(cuts)' /\ Short(cuts)' /\ Merged(cuts)'
        BY <2>1, <3>1 DEF Spans, Short, Merged
      <3> QED
        BY <1>0, <2>1, <3>1, <3>2 DEF SegmentIInv
    <2>3. CASE ~(at >= Len(cuts)) /\ cuts[at + 1] - cuts[at] < MinFrag
      <3>1. stage' = stage /\ cuts' = Segments!RemoveAt(cuts, at) /\ at' = at
        BY <1>2, <2>3 DEF Segments!MergeFragment
      <3>2. Onward(cuts') /\ Spans(cuts') /\ Short(cuts') /\ Merged(cuts') /\ Unmerged(cuts', at)
        BY <1>0, <2>1, <2>3, <3>1, FragmentTaken
      <3>3. Spans(cuts)' /\ Short(cuts)' /\ Merged(cuts)' /\ Unmerged(cuts, at)'
        BY <2>1, <3>1, <3>2 DEF Spans, Short, Merged, Unmerged
      <3> QED
        BY <1>0, <2>1, <3>1, <3>2, <3>3 DEF SegmentIInv
    <2>4. CASE ~(at >= Len(cuts)) /\ ~(cuts[at + 1] - cuts[at] < MinFrag)
      <3>1. stage' = stage /\ cuts' = cuts /\ at' = at + 1
        BY <1>2, <2>4 DEF Segments!MergeFragment
      <3>2. Spans(cuts)' /\ Short(cuts)' /\ Merged(cuts)' /\ Onward(cuts')
        BY <1>0, <2>1, <3>1 DEF Spans, Short, Merged
      <3>3. Unmerged(cuts, at)'
        <4>1. Unmerged(cuts, at + 1)
          BY <1>0, <2>1, <2>4 DEF Unmerged
        <4> QED
          BY <3>1, <4>1 DEF Unmerged
      <3> QED
        BY <1>0, <2>1, <3>1, <3>2, <3>3 DEF SegmentIInv
    <2> QED
      BY <2>2, <2>3, <2>4
  <1>3. CASE Segments!MergeTail
    <2>1. /\ stage = "tail" /\ Spans(cuts) /\ Short(cuts) /\ Merged(cuts)
          /\ UNCHANGED <<route, total, lost, answer>> /\ ~(route = "rk_stream" /\ lost # {})
      BY <1>3 DEF SegmentIInv, Segments!MergeTail
    <2>2. CASE Len(cuts) >= 3 /\ cuts[Len(cuts)] - cuts[Len(cuts) - 1] < MinTail
      <3>1. stage' = stage /\ cuts' = Segments!RemoveAt(cuts, Len(cuts) - 1) /\ at' = at
        BY <1>3, <2>2 DEF Segments!MergeTail
      <3>2. Onward(cuts') /\ Spans(cuts') /\ Short(cuts') /\ Merged(cuts')
        BY <1>0, <2>1, <2>2, <3>1, TailTaken
      <3>3. Spans(cuts)' /\ Short(cuts)' /\ Merged(cuts)'
        BY <2>1, <3>1, <3>2 DEF Spans, Short, Merged
      <3> QED
        BY <1>0, <2>1, <3>1, <3>2, <3>3 DEF SegmentIInv
    <2>3. CASE ~(Len(cuts) >= 3 /\ cuts[Len(cuts)] - cuts[Len(cuts) - 1] < MinTail)
      <3>1. at' = 1 /\ stage' = "bound" /\ cuts' = cuts
        BY <1>3, <2>3 DEF Segments!MergeTail
      <3>2. Spans(cuts)' /\ Short(cuts)' /\ Onward(cuts')
        BY <1>0, <2>1, <3>1 DEF Spans, Short
      <3>3. at' \in 1 .. Len(cuts') /\ Sliced(cuts, at)'
        BY <1>0, <2>1, <3>1 DEF Spans, Sliced
      <3> QED
        BY <1>0, <2>1, <3>1, <3>2, <3>3 DEF SegmentIInv
    <2> QED
      BY <2>2, <2>3
  <1> QED
    BY <1>1, <1>2, <1>3

\* The hard limit of the offline route.
LEMMA WhileSlicing ==
  ASSUME SegmentConstants, SegmentIInv, Segments!Bound
  PROVE  SegmentIInv'
  <1>1. /\ Onward(cuts) /\ cuts \in Seq(Nat) /\ total \in Nat /\ Len(cuts) \in Nat
        /\ stage = "bound" /\ Spans(cuts) /\ at \in 1 .. Len(cuts)
        /\ (Len(cuts) > 2 /\ route # "edge_offline" => Short(cuts))
        /\ (route = "edge_offline" => Sliced(cuts, at))
        /\ UNCHANGED <<route, total, lost, answer>> /\ ~(route = "rk_stream" /\ lost # {})
    BY DEF SegmentIInv, Segments!Bound, Onward
  <1>2. CASE route = "edge_offline" /\ at < Len(cuts) /\ cuts[at + 1] - cuts[at] > MaxSeg
    <2>1. cuts' = Segments!InsertAt(cuts, at + 1, cuts[at] + MaxSeg) /\ at' = at + 1 /\ stage' = stage
      <3>1. ~(cuts[at + 1] - cuts[at] <= MaxSeg)
        <4>1. cuts[at + 1] \in Nat /\ cuts[at] \in Nat
          BY <1>1, <1>2
        <4>2. PICK a \in Nat, b \in Nat : a = cuts[at] /\ b = cuts[at + 1]
          BY <4>1
        <4>3. b - a > MaxSeg /\ MaxSeg \in Nat
          BY <1>2, <4>2 DEF SegmentConstants
        <4> QED
          BY <4>2, <4>3
      <3> QED
        BY <1>2, <3>1 DEF Segments!Bound
    <2>2. Onward(cuts') /\ Spans(cuts') /\ Sliced(cuts', at + 1) /\ at + 1 \in 1 .. Len(cuts')
      BY <1>1, <1>2, <2>1, SliceTaken
    <2>3. Spans(cuts)' /\ Sliced(cuts, at)'
      BY <1>1, <2>1, <2>2 DEF Spans, Sliced
    <2> QED
      BY <1>1, <1>2, <2>1, <2>2, <2>3 DEF SegmentIInv
  <1>3. CASE route = "edge_offline" /\ at < Len(cuts) /\ ~(cuts[at + 1] - cuts[at] > MaxSeg)
    <2>1. cuts[at + 1] - cuts[at] <= MaxSeg
      <3>1. cuts[at + 1] \in Nat /\ cuts[at] \in Nat
        BY <1>1, <1>3
      <3>2. PICK a \in Nat, b \in Nat : a = cuts[at] /\ b = cuts[at + 1]
        BY <3>1
      <3>3. ~(b - a > MaxSeg) /\ MaxSeg \in Nat
        BY <1>3, <3>2 DEF SegmentConstants
      <3> QED
        BY <3>2, <3>3
    <2>2. cuts' = cuts /\ at' = at + 1 /\ stage' = stage
      BY <1>3, <2>1 DEF Segments!Bound
    <2>3. at + 1 \in 1 .. Len(cuts)
      BY <1>1, <1>3
    <2>4. Sliced(cuts, at + 1)
      <3>1. ASSUME NEW i \in 1 .. (at + 1) - 1 PROVE cuts[i + 1] - cuts[i] <= MaxSeg
        <4>1. CASE i = at
          BY <2>1, <4>1
        <4>2. CASE i # at
          <5>1. i \in 1 .. at - 1
            BY <1>1, <4>2
          <5> QED
            BY <1>1, <1>3, <5>1 DEF Sliced
        <4> QED
          BY <4>1, <4>2
      <3> QED
        BY <3>1 DEF Sliced
    <2>5. Spans(cuts)' /\ Sliced(cuts, at)' /\ Onward(cuts') /\ at' \in 1 .. Len(cuts')
      BY <1>1, <2>2, <2>3, <2>4 DEF Spans, Sliced
    <2> QED
      BY <1>1, <1>3, <2>2, <2>5 DEF SegmentIInv
  <1>4. CASE ~(route = "edge_offline" /\ at < Len(cuts))
    <2>1. at' = 1 /\ stage' = "transcribe" /\ cuts' = cuts
      BY <1>4 DEF Segments!Bound
    <2>2. Spans(cuts)' /\ (Len(cuts') > 2 /\ route' # "edge_offline" => Short(cuts)') /\ Onward(cuts')
      BY <1>1, <2>1 DEF Spans, Short
    <2>3. route' = "edge_offline" => Sliced(cuts, Len(cuts))'
      <3>1. route = "edge_offline" => at = Len(cuts)
        BY <1>1, <1>4
      <3> QED
        BY <1>1, <2>1, <3>1 DEF Sliced
    <2> QED
      BY <1>1, <2>1, <2>2, <2>3 DEF SegmentIInv
  <1> QED
    BY <1>2, <1>3, <1>4

\* The segments one after the other, and the answer.
LEMMA WhileTranscribing ==
  ASSUME SegmentConstants, SegmentIInv,
         \/ Segments!TranscribeWhole \/ Segments!Skip \/ Segments!Transcribe
         \/ Segments!MeetsUnloaded \/ Segments!Join
         \/ Segments!Load \/ Segments!Unload \/ UNCHANGED segmentState
  PROVE  SegmentIInv'
  <1>1. ASSUME stage = "transcribe", UNCHANGED <<route, total, stage, cuts, answer>>,
               at' \in Nat, route = "rk_stream" => lost' = lost
        PROVE  SegmentIInv'
    <2>1. Spans(cuts)' /\ (Len(cuts') > 2 /\ route' # "edge_offline" => Short(cuts)') /\ Onward(cuts')
      BY <1>1 DEF SegmentIInv, Spans, Short
    <2>2. route' = "edge_offline" => Sliced(cuts, Len(cuts))'
      BY <1>1 DEF SegmentIInv, Sliced
    <2>3. ~(route' = "rk_stream" /\ lost' # {})
      BY <1>1 DEF SegmentIInv
    <2> QED
      BY <1>1, <2>1, <2>2, <2>3 DEF SegmentIInv
  <1>2. CASE Segments!TranscribeWhole
    <2>1. UNCHANGED <<route, total, lost>> /\ stage = "whole"
      BY <1>2 DEF Segments!TranscribeWhole
    <2>2. \E k, t : Segments!Answer(k, t)
      BY <1>2 DEF Segments!TranscribeWhole
    <2>3. ~(route = "rk_stream" /\ lost' # {})
      BY <2>1 DEF SegmentIInv
    <2> QED
      BY <2>1, <2>2, <2>3, Answered
  <1>3. CASE Segments!Join
    <2>1. UNCHANGED <<route, total, lost>> /\ stage = "transcribe"
      BY <1>3 DEF Segments!Join
    <2>2. \E k, t : Segments!Answer(k, t)
      BY <1>3 DEF Segments!Join
    <2>3. ~(route = "rk_stream" /\ lost' # {})
      BY <2>1 DEF SegmentIInv
    <2> QED
      BY <2>1, <2>2, <2>3, Answered
  <1>4. CASE Segments!Skip \/ Segments!Transcribe
    <2>1. stage = "transcribe" /\ UNCHANGED <<route, total, stage, cuts, lost, answer>> /\ at' = at + 1
      BY <1>4 DEF Segments!Skip, Segments!Transcribe, Segments!AtSegment, Segments!ToEngine
    <2>2. at' \in Nat
      BY <2>1 DEF SegmentIInv
    <2> QED
      BY <1>1, <2>1, <2>2
  <1>5. CASE Segments!MeetsUnloaded
    <2>1. stage = "transcribe" /\ UNCHANGED <<route, total>>
      BY <1>5 DEF Segments!MeetsUnloaded, Segments!AtSegment, Segments!ToEngine
    <2>2. CASE route = "rk_stream"
      <3>1. Segments!Answer("unloaded", <<>>)
        BY <1>5, <2>2 DEF Segments!MeetsUnloaded, Segments!LiveInner
      <3> QED
        BY <2>1, <3>1, Answered
    <2>3. CASE route # "rk_stream"
      <3>1. at' = at + 1 /\ UNCHANGED <<stage, cuts, texts, answer>>
        BY <1>5, <2>3 DEF Segments!MeetsUnloaded, Segments!LiveInner
      <3>2. at' \in Nat
        BY <3>1 DEF SegmentIInv
      <3> QED
        BY <1>1, <2>1, <2>3, <3>1, <3>2
    <2> QED
      BY <2>2, <2>3
  <1>6. CASE Segments!Load \/ Segments!Unload \/ UNCHANGED segmentState
    <2>1. UNCHANGED <<route, total, stage, silent, cuts, at, lost, answer>>
      BY <1>6 DEF Segments!Load, Segments!Unload, segmentState
    <2> QED
      BY <2>1 DEF SegmentIInv, Onward, Cutting, Spans, Short, Merged, Unmerged, Sliced, Segments!CutPoints
  <1> QED
    BY <1>2, <1>3, <1>4, <1>5, <1>6

\* Every step of the request, from its audio to its answer.
LEMMA SegmentNextIInv ==
  ASSUME SegmentConstants, SegmentIInv, Segments!Next \/ UNCHANGED segmentState
  PROVE  SegmentIInv'
  BY BeforeTheCuts, WhileCutting, WhileSlicing, WhileTranscribing DEF Segments!Next

\* What the cuts are worth when the segments are transcribed.
LEMMA SegmentsHold ==
  ASSUME SegmentConstants, SegmentIInv
  PROVE  Segments!SegmentsAreSound
  <1>1. ASSUME stage = "transcribe"
        PROVE  /\ Head(cuts) = 0 /\ Segments!Last(cuts) = total
               /\ \A i \in 1 .. Len(cuts) - 1 :
                     /\ cuts[i] < cuts[i + 1]
                     /\ route = "edge_offline" => cuts[i + 1] - cuts[i] <= MaxSeg
                     /\ Len(cuts) > 2 => cuts[i + 1] - cuts[i] <= MaxSeg + MinTail
    <2>1. /\ Onward(cuts) /\ Spans(cuts) /\ cuts \in Seq(Nat) /\ Len(cuts) \in Nat
          /\ Len(cuts) > 2 /\ route # "edge_offline" => Short(cuts)
          /\ route = "edge_offline" => Sliced(cuts, Len(cuts))
      BY <1>1 DEF SegmentIInv, Onward
    <2>2. Head(cuts) = 0
      BY <2>1 DEF Onward
    <2>3. Segments!Last(cuts) = total
      BY <2>1 DEF Spans, Segments!Last
    <2>4. ASSUME NEW i \in 1 .. Len(cuts) - 1
          PROVE  /\ cuts[i] < cuts[i + 1]
                 /\ route = "edge_offline" => cuts[i + 1] - cuts[i] <= MaxSeg
                 /\ Len(cuts) > 2 => cuts[i + 1] - cuts[i] <= MaxSeg + MinTail
      <3>1. cuts[i] < cuts[i + 1]
        BY <2>1 DEF Onward
      <3>2. route = "edge_offline" => cuts[i + 1] - cuts[i] <= MaxSeg
        BY <2>1 DEF Sliced
      <3>3. Len(cuts) > 2 /\ route # "edge_offline" => cuts[i + 1] - cuts[i] <= MaxSeg + MinTail
        BY <2>1 DEF Short
      <3>4. cuts[i + 1] - cuts[i] <= MaxSeg => cuts[i + 1] - cuts[i] <= MaxSeg + MinTail
        <4>1. i \in 1 .. Len(cuts) /\ i + 1 \in 1 .. Len(cuts)
          BY <2>1
        <4>2. PICK a \in Nat, b \in Nat : a = cuts[i] /\ b = cuts[i + 1]
          BY <2>1, <4>1
        <4>3. b - a <= MaxSeg => b - a <= MaxSeg + MinTail
          BY DEF SegmentConstants
        <4> QED
          BY <4>2, <4>3
      <3> QED
        BY <3>1, <3>2, <3>3, <3>4
    <2> QED
      BY <2>2, <2>3, <2>4
  <1>2. route = "rk_stream" /\ lost # {} => answer.kind # "text"
    BY DEF SegmentIInv
  <1> QED
    BY <1>1, <1>2 DEF Segments!SegmentsAreSound, Segments!SegmentsFit, Segments!NoPartForTheWhole

\* However long the audio is and wherever it is silent, the segments cover it once and
\* in order, none longer than the longest segment and the shortest tail together
\* (audio/segment.py) or, on the offline route of the TRT backend, than the longest
\* segment; and a stream of an unloaded RK backend gives no part for the whole.
THEOREM SegmentsSafe ==
  ASSUME SegmentConstants
  PROVE  Spec => []SegmentsAreSound
  <1>1. Init => SegmentIInv
    BY SegmentInitIInv DEF Init
  <1>2. SegmentIInv /\ [Next]_vars => SegmentIInv'
    <2>1. [Next]_vars => Segments!Next \/ UNCHANGED segmentState
      BY DEF Next, vars
    <2> QED
      BY <2>1, SegmentNextIInv
  <1>3. SegmentIInv => SegmentsAreSound
    BY SegmentsHold DEF SegmentsAreSound
  <1> QED
    BY <1>1, <1>2, <1>3, PTL DEF Spec

(***************************************************************************)
(* Degeneration and TextGuard.  What the guard keeps of a text, for a text *)
(* of any length over any symbols: one run of copies is cut to its first.  *)
(* What is behind it: a unit that repeats repeats its first copy, and what *)
(* is left behind the last copy is not one more of them.                   *)
(***************************************************************************)
\* Every threshold of copies is three or more, none for single units is 0.
GuardConstants ==
    /\ \A t \in {MinSpaced, MinMulti, MinSingle, MinLong, MinTailRepeats, MinTailSingle,
                 MinInterior, MinInteriorSingle} : t \in Nat /\ t >= 3
    /\ LongUnit \in Nat \ {0} /\ MaxInteriorUnit \in Nat /\ MaxPeriodUnit \in Nat

\* What the guard may keep of a text: one run of copies is cut to its first, and
\* one more that is only started goes with them at the very end.
RunIsCut(s, kept, i, len, k) ==
    /\ Guard!Repeats(s, i, len, k)
    /\ LET before == SubSeq(s, 1, i + len - 1)
           after  == SubSeq(s, i + k * len, Len(s))
           started == after # <<>> /\ Guard!IsStrictPrefix(after, Guard!Unit(s, i, len))
       IN \/ k >= 3 /\ kept = before \o after
          \/ (k >= 3 \/ len >= LongUnit) /\ started /\ kept = before

CopiesGo(s, kept) ==
    \E i \in 1 .. Len(s), len \in 1 .. Len(s), k \in 2 .. Len(s) : RunIsCut(s, kept, i, len, k)

\* How often a unit is repeated: no more copies than Copies says.
LEMMA CopiesAre ==
  ASSUME NEW X, NEW s \in Seq(X), NEW i \in Nat \ {0}, NEW len \in Nat \ {0},
         i + len - 1 <= Len(s), NEW c, c = Guard!Copies(s, i, len)
  PROVE  /\ c \in Nat \ {0} /\ Guard!Repeats(s, i, len, c)
         /\ \A k \in Nat : k > c => ~Guard!Repeats(s, i, len, k)
  <1> DEFINE room == Len(s) - i + 1
             S == {k \in 1 .. room \div len : \A j \in i .. i + (k - 1) * len - 1 : s[j] = s[j + len]}
  <1>1. room \in Nat /\ room >= len
    OBVIOUS
  <1>2. c = Guard!Max(S)
    BY DEF Guard!Copies
  <1> HIDE DEF room
  <1>3. room \div len \in Nat /\ 1 <= room \div len
    <2>1. 1 * len <= room
      BY <1>1
    <2> QED
      BY <1>1, <2>1, HowManyFit
  <1>4. S \in SUBSET Nat /\ \A k \in S : k <= room \div len
    BY <1>3
  <1>5. 1 \in S
    <2>1. i + (1 - 1) * len - 1 = i - 1
      OBVIOUS
    <2> QED
      BY <1>3, <2>1
  <1>6. \A k \in Nat : k \in S <=> k >= 1 /\ Guard!Repeats(s, i, len, k)
    <2>1. ASSUME NEW k \in Nat, k >= 1 PROVE k <= room \div len <=> i + k * len - 1 <= Len(s)
      <3>1. k <= room \div len <=> k * len <= room
        BY <1>1, HowManyFit
      <3>2. k * len \in Nat
        OBVIOUS
      <3>3. k * len <= room <=> i + k * len - 1 <= Len(s)
        <4>1. PICK x \in Nat : x = k * len
          BY <3>2
        <4>2. x <= room <=> i + x - 1 <= Len(s)
          BY DEF room
        <4> QED
          BY <4>1, <4>2
      <3> QED
        BY <3>1, <3>3
    <2> QED
      BY <1>3, <2>1 DEF Guard!Repeats
  <1> HIDE DEF S
  <1>7. PICK x \in S : \A y \in S : x >= y
    BY <1>3, <1>4, <1>5, GreatestExists
  <1>8. c \in S /\ \A y \in S : c >= y
    BY <1>2, <1>7 DEF Guard!Max
  <1>9. c \in Nat \ {0} /\ Guard!Repeats(s, i, len, c)
    BY <1>4, <1>6, <1>8
  <1>10. ASSUME NEW k \in Nat, k > c PROVE ~Guard!Repeats(s, i, len, k)
    BY <1>6, <1>8, <1>9, <1>10
  <1> QED
    BY <1>9, <1>10

\* All copies are the first one.
LEMMA CopiesAgree ==
  ASSUME NEW X, NEW s \in Seq(X), NEW i \in Nat \ {0}, NEW len \in Nat \ {0}, NEW k \in Nat \ {0},
         Guard!Repeats(s, i, len, k), NEW j \in i .. i + len - 1, NEW m \in 0 .. k - 1
  PROVE  s[j + m * len] = s[j]
  <1> DEFINE T == {x \in 0 .. k - 1 : s[j + x * len] # s[j]}
  <1>1. SUFFICES ASSUME T # {} PROVE FALSE
    OBVIOUS
  <1>2. T \in SUBSET Nat
    OBVIOUS
  <1>3. PICK x \in T : \A y \in T : x <= y
    BY <1>1, <1>2, LeastExists
  <1>4. x \in 0 .. k - 1 /\ s[j + x * len] # s[j]
    OBVIOUS
  <1>5. x # 0
    <2>1. j + 0 * len = j
      OBVIOUS
    <2> QED
      BY <1>4, <2>1
  <1>6. PICK y \in 0 .. k - 2 : x = y + 1
    BY <1>4, <1>5
  <1>7. y \notin T
    BY <1>3, <1>6
  <1>8. s[j + y * len] = s[j]
    BY <1>6, <1>7
  <1> HIDE DEF T
  <1>9. s[j + y * len] = s[j + y * len + len]
    <2>1. y * len \in Nat /\ (k - 1) * len \in Nat /\ (y + 1) * len <= (k - 1) * len /\ (y + 1) * len = y * len + len
      <3>1. y \in Nat /\ y + 1 \in Nat /\ k - 1 \in Nat /\ y + 1 <= k - 1
        BY <1>6
      <3> QED
        BY <3>1, Multiples
    <2>2. j + y * len \in i .. i + (k - 1) * len - 1
      <3>1. PICK a \in Nat, b \in Nat : a = y * len /\ b = (k - 1) * len
        BY <2>1
      <3>2. a + len <= b
        BY <2>1, <3>1
      <3>3. j + a \in i .. i + b - 1
        BY <3>2
      <3> QED
        BY <3>1, <3>3
    <2> QED
      BY <2>2 DEF Guard!Repeats
  <1>10. j + y * len + len = j + x * len
    BY <1>6
  <1> QED
    BY <1>4, <1>8, <1>9, <1>10

\* The least and the greatest of two.
LEMMA OfTwo ==
  ASSUME NEW a \in Nat, NEW b \in Nat
  PROVE  /\ Guard!Min({a, b}) \in {a, b} /\ Guard!Min({a, b}) <= a /\ Guard!Min({a, b}) <= b
         /\ Guard!Max({a, b}) \in {a, b} /\ Guard!Max({a, b}) >= a /\ Guard!Max({a, b}) >= b
  <1>1. \E x \in {a, b} : \A y \in {a, b} : x <= y
    OBVIOUS
  <1>2. \E x \in {a, b} : \A y \in {a, b} : x >= y
    OBVIOUS
  <1>3. Guard!Min({a, b}) \in {a, b} /\ \A y \in {a, b} : Guard!Min({a, b}) <= y
    BY <1>1 DEF Guard!Min
  <1>4. Guard!Max({a, b}) \in {a, b} /\ \A y \in {a, b} : Guard!Max({a, b}) >= y
    BY <1>2 DEF Guard!Max
  <1> QED
    BY <1>3, <1>4

\* Three copies are needed, whatever the unit.
LEMMA ThreeAreNeeded ==
  ASSUME GuardConstants, NEW many \in Nat, many >= 3, NEW single \in Nat, single > 0 => single >= 3,
         NEW unit, NEW x, x = Guard!Needed(unit, many, single)
  PROVE  x \in Nat /\ x >= 3
  <1>1. MinLong \in Nat /\ MinLong >= 3
    BY DEF GuardConstants
  <1>2. Guard!Min({many, MinLong}) \in {many, MinLong}
    BY <1>1, OfTwo
  <1>3. x \in {single, Guard!Min({many, MinLong}), many} /\ (x = single => single > 0 \/ x \in {Guard!Min({many, MinLong}), many})
    BY DEF Guard!Needed
  <1> QED
    BY <1>1, <1>2, <1>3

\* The copies fit the text.
LEMMA CopiesFit ==
  ASSUME NEW X, NEW s \in Seq(X), NEW i \in Nat \ {0}, NEW len \in Nat \ {0}, NEW k \in Nat \ {0},
         Guard!Repeats(s, i, len, k)
  PROVE  /\ k * len \in Nat /\ k <= k * len /\ len <= k * len /\ i + k * len - 1 <= Len(s)
         /\ k \in 1 .. Len(s) /\ len \in 1 .. Len(s) /\ i \in 1 .. Len(s)
         /\ i + k * len \in 1 .. Len(s) + 1
  <1>1. k * len \in Nat /\ k <= k * len /\ len <= k * len
    OBVIOUS
  <1>2. i + k * len - 1 <= Len(s)
    BY DEF Guard!Repeats
  <1>3. PICK x \in Nat : x = k * len
    BY <1>1
  <1>4. k <= x /\ len <= x /\ i + x - 1 <= Len(s)
    BY <1>1, <1>2, <1>3
  <1>5. /\ k \in 1 .. Len(s) /\ len \in 1 .. Len(s) /\ i \in 1 .. Len(s)
        /\ i + x \in 1 .. Len(s) + 1
    BY <1>4
  <1> QED
    BY <1>1, <1>2, <1>3, <1>5

\* The first part of a sequence.
LEMMA FirstPart ==
  ASSUME NEW X, NEW s \in Seq(X), NEW t \in Seq(X), Len(s) <= Len(t),
         \A x \in 1 .. Len(s) : s[x] = t[x]
  PROVE  Guard!IsPrefix(s, t)
  <1>1. SubSeq(s, 1, Len(s)) \in Seq(X) /\ Len(SubSeq(s, 1, Len(s))) = Len(s)
        /\ \A x \in 1 .. Len(s) : SubSeq(s, 1, Len(s))[x] = s[x]
    OBVIOUS
  <1>2. SubSeq(t, 1, Len(s)) \in Seq(X) /\ Len(SubSeq(t, 1, Len(s))) = Len(s)
        /\ \A x \in 1 .. Len(s) : SubSeq(t, 1, Len(s))[x] = t[x]
    OBVIOUS
  <1>3. SubSeq(s, 1, Len(s)) = SubSeq(t, 1, Len(s))
    <2> DEFINE a == SubSeq(s, 1, Len(s))
               b == SubSeq(t, 1, Len(s))
    <2>1. a \in Seq(X) /\ b \in Seq(X) /\ Len(a) = Len(b) /\ \A x \in 1 .. Len(a) : a[x] = b[x]
      BY <1>1, <1>2
    <2> HIDE DEF a, b
    <2>2. a = b
      BY <2>1, SeqEqual
    <2> QED
      BY <2>2 DEF a, b
  <1> QED
    BY <1>3 DEF Guard!IsPrefix

\* What is left after the last copy, at the start of the text, is not one more.
LEMMA NoMoreCopies ==
  ASSUME NEW X, NEW s \in Seq(X), NEW len \in Nat \ {0}, len <= Len(s),
         NEW c, c = Guard!Copies(s, 1, len)
  PROVE  SubSeq(s, 1 + c * len, Len(s)) # Guard!Unit(s, 1, len)
  <1> DEFINE n == Len(s)
             unit == Guard!Unit(s, 1, len)
             after == SubSeq(s, 1 + c * len, n)
  <1>1. /\ c \in Nat \ {0} /\ Guard!Repeats(s, 1, len, c)
        /\ \A k \in Nat : k > c => ~Guard!Repeats(s, 1, len, k)
    BY CopiesAre
  <1>2. c * len \in Nat /\ c * len <= n /\ (c - 1) * len \in Nat /\ c * len = (c - 1) * len + len
    <2>1. c * len \in Nat /\ 1 + c * len - 1 <= n
      BY <1>1, CopiesFit
    <2>2. PICK e \in Nat : c = e + 1
      BY <1>1
    <2>3. e * len \in Nat /\ (e + 1) * len = e * len + len
      BY <2>2, Multiples
    <2> QED
      BY <2>1, <2>2, <2>3
  <1>3. PICK p \in Nat : p = c * len
    BY <1>2
  <1>4. SUFFICES ASSUME after = unit PROVE FALSE
    OBVIOUS
  <1>5. Len(unit) = len /\ \A x \in 1 .. len : unit[x] = s[x]
    BY DEF Guard!Unit
  <1>6. Len(after) = n - p /\ \A x \in 1 .. n - p : after[x] = s[p + x]
    <2>1. after = SubSeq(s, p + 1, n) /\ p <= n
      <3>1. 1 + c * len = p + 1 /\ p <= n
        BY <1>2, <1>3
      <3> QED
        BY <3>1
    <2> HIDE DEF after
    <2>2. /\ Len(SubSeq(s, p + 1, n)) = n - (p + 1) + 1
          /\ \A x \in 1 .. n - (p + 1) + 1 : SubSeq(s, p + 1, n)[x] = s[(p + 1) + x - 1]
      <3>1. p + 1 \in 1 .. Len(s) + 1 /\ n \in (p + 1) - 1 .. Len(s)
        BY <2>1
      <3> QED
        BY <3>1, PartOf
    <2>3. n - (p + 1) + 1 = n - p
      OBVIOUS
    <2>4. ASSUME NEW x \in 1 .. n - p PROVE after[x] = s[p + x]
      <3>1. (p + 1) + x - 1 = p + x /\ x \in 1 .. n - (p + 1) + 1
        OBVIOUS
      <3>2. SubSeq(s, p + 1, n)[x] = s[(p + 1) + x - 1]
        BY <2>2, <3>1
      <3> QED
        BY <2>1, <3>1, <3>2
    <2> QED
      BY <2>1, <2>2, <2>3, <2>4
  <1> HIDE DEF after, unit
  <1>7. n = p + len /\ \A x \in 1 .. len : s[p + x] = s[x]
    <2>1. n - p = len
      BY <1>4, <1>5, <1>6
    <2>2. n = p + len
      BY <2>1
    <2>3. ASSUME NEW x \in 1 .. len PROVE s[p + x] = s[x]
      <3>1. x \in 1 .. n - p
        BY <2>1
      <3> QED
        BY <1>4, <1>5, <1>6, <3>1
    <2> QED
      BY <2>2, <2>3
  <1>8. Guard!Repeats(s, 1, len, c + 1)
    <2>1. (c + 1) * len = p + len /\ ((c + 1) - 1) * len = p
      BY <1>1, <1>3, Multiples
    <2>2. ASSUME NEW j \in 1 .. p PROVE s[j] = s[j + len]
      <3>1. PICK q \in Nat : q = (c - 1) * len /\ p = q + len
        BY <1>2, <1>3
      <3>2. CASE j <= q
        <4>1. j \in 1 .. 1 + (c - 1) * len - 1
          BY <3>1, <3>2
        <4> QED
          BY <1>1, <4>1 DEF Guard!Repeats
      <3>3. CASE ~(j <= q)
        <4>1. PICK x \in 1 .. len : j = q + x
          <5>1. j - q \in 1 .. len /\ j = q + (j - q)
            BY <3>1, <3>3
          <5> QED
            BY <5>1
        <4>2. s[x + (c - 1) * len] = s[x]
          <5>1. ASSUME NEW y \in 1 .. 1 + len - 1, NEW m \in 0 .. c - 1 PROVE s[y + m * len] = s[y]
            BY <1>1, CopiesAgree
          <5>2. x \in 1 .. 1 + len - 1 /\ c - 1 \in 0 .. c - 1
            BY <1>1, <4>1
          <5> QED
            BY <5>1, <5>2
        <4>3. s[j] = s[x]
          BY <3>1, <4>1, <4>2
        <4>4. j + len = p + x
          BY <3>1, <4>1
        <4> QED
          BY <1>7, <4>1, <4>3, <4>4
      <3> QED
        BY <3>2, <3>3
    <2>3. 1 + (p + len) - 1 <= Len(s)
      BY <1>7
    <2>4. 1 .. 1 + p - 1 = 1 .. p
      OBVIOUS
    <2> QED
      BY <2>1, <2>2, <2>3, <2>4 DEF Guard!Repeats
  <1> QED
    BY <1>1, <1>8

\* What follows the last copy, when it is in the text.
LEMMA AfterTheCopies ==
  ASSUME NEW X, NEW s \in Seq(X), NEW p \in 0 .. Len(s)
  PROVE  /\ SubSeq(s, 1 + p, Len(s)) \in Seq(X) /\ Len(SubSeq(s, 1 + p, Len(s))) = Len(s) - p
         /\ \A x \in 1 .. Len(s) - p : SubSeq(s, 1 + p, Len(s))[x] = s[p + x]
         /\ SubSeq(s, 1 + p, Len(s)) = <<>> <=> p = Len(s)
  <1> DEFINE after == SubSeq(s, 1 + p, Len(s))
             n == Len(s)
  <1>1. /\ after \in Seq(X) /\ Len(after) = n - (1 + p) + 1
        /\ \A x \in 1 .. n - (1 + p) + 1 : after[x] = s[(1 + p) + x - 1]
    <2>1. 1 + p \in 1 .. Len(s) + 1 /\ n \in (1 + p) - 1 .. Len(s)
      OBVIOUS
    <2> QED
      BY <2>1, PartOf
  <1> HIDE DEF after
  <1>2. n - (1 + p) + 1 = n - p
    OBVIOUS
  <1>3. ASSUME NEW x \in 1 .. n - p PROVE after[x] = s[p + x]
    <2>1. (1 + p) + x - 1 = p + x /\ x \in 1 .. n - (1 + p) + 1
      OBVIOUS
    <2> QED
      BY <1>1, <2>1
  <1>4. after = <<>> <=> Len(after) = 0
    BY <1>1
  <1>5. Len(after) = 0 <=> p = n
    BY <1>1, <1>2
  <1> QED
    BY <1>1, <1>2, <1>3, <1>4, <1>5 DEF after

\* A unit of the text.
LEMMA UnitIs ==
  ASSUME NEW X, NEW s \in Seq(X), NEW i \in Nat \ {0}, NEW len \in Nat \ {0}, i + len - 1 <= Len(s)
  PROVE  /\ Guard!Unit(s, i, len) \in Seq(X) /\ Len(Guard!Unit(s, i, len)) = len
         /\ \A x \in 1 .. len : Guard!Unit(s, i, len)[x] = s[i + x - 1]
  <1> DEFINE u == SubSeq(s, i, i + len - 1)
  <1>1. /\ u \in Seq(X) /\ Len(u) = (i + len - 1) - i + 1
        /\ \A x \in 1 .. (i + len - 1) - i + 1 : u[x] = s[i + x - 1]
    <2>1. i \in 1 .. Len(s) + 1 /\ i + len - 1 \in i - 1 .. Len(s)
      OBVIOUS
    <2> QED
      BY <2>1, PartOf
  <1>2. (i + len - 1) - i + 1 = len
    OBVIOUS
  <1> HIDE DEF u
  <1>3. u \in Seq(X) /\ Len(u) = len /\ \A x \in 1 .. len : u[x] = s[i + x - 1]
    BY <1>1, <1>2
  <1> QED
    BY <1>3 DEF u, Guard!Unit

\* A copy cut short by the end is started and not finished.
LEMMA StartedCopy ==
  ASSUME NEW X, NEW s \in Seq(X), NEW len \in Nat \ {0}, len <= Len(s),
         NEW c, c = Guard!Copies(s, 1, len), Guard!Truncated(s, len)
  PROVE  LET after == SubSeq(s, 1 + c * len, Len(s))
         IN  after # <<>> /\ Guard!IsStrictPrefix(after, Guard!Unit(s, 1, len))
  <1> DEFINE n == Len(s)
             unit == Guard!Unit(s, 1, len)
             after == SubSeq(s, 1 + c * len, n)
  <1>1. c \in Nat \ {0} /\ Guard!Repeats(s, 1, len, c)
    BY CopiesAre
  <1>2. PICK p \in Nat : p = c * len /\ p <= n
    <2>1. c * len \in Nat /\ 1 + c * len - 1 <= n
      BY <1>1, CopiesFit
    <2> QED
      BY <2>1
  <1>3. p < n /\ n - p <= len /\ \A j \in p + 1 .. n : s[j] = s[j - p]
    BY <1>2 DEF Guard!Truncated
  <1>4. /\ after \in Seq(X) /\ Len(after) = n - p
        /\ \A x \in 1 .. n - p : after[x] = s[p + x]
        /\ after # <<>>
    <2>1. p \in 0 .. Len(s) /\ p # n
      BY <1>2, <1>3
    <2>2. after = SubSeq(s, 1 + p, Len(s))
      BY <1>2
    <2> HIDE DEF after
    <2> QED
      BY <2>1, <2>2, AfterTheCopies
  <1>5. unit \in Seq(X) /\ Len(unit) = len /\ \A x \in 1 .. len : unit[x] = s[x]
    <2>1. 1 + len - 1 <= Len(s) /\ 1 \in Nat \ {0}
      OBVIOUS
    <2>2. unit \in Seq(X) /\ Len(unit) = len /\ \A x \in 1 .. len : unit[x] = s[1 + x - 1]
      BY <2>1, UnitIs
    <2>3. \A x \in 1 .. len : 1 + x - 1 = x
      OBVIOUS
    <2> HIDE DEF unit
    <2> QED
      BY <2>2, <2>3
  <1>6. after # unit
    BY NoMoreCopies
  <1> HIDE DEF after, unit
  <1>7. ASSUME NEW x \in 1 .. n - p PROVE after[x] = unit[x]
    <2>1. p + x \in p + 1 .. n /\ (p + x) - p = x /\ x \in 1 .. len
      BY <1>2, <1>3
    <2>2. s[p + x] = s[x]
      BY <1>3, <2>1
    <2> QED
      BY <1>4, <1>5, <2>1, <2>2
  <1>8. Guard!IsPrefix(after, unit)
    BY <1>3, <1>4, <1>5, <1>7, FirstPart
  <1>9. after # <<>> /\ Guard!IsStrictPrefix(after, unit)
    BY <1>4, <1>6, <1>8 DEF Guard!IsStrictPrefix
  <1> QED
    BY <1>9 DEF after, unit

\* The period that was found is short enough, and repeated often enough.
LEMMA PeriodFound ==
  ASSUME GuardConstants, NEW X, NEW s \in Seq(X), NEW many \in Nat, many >= 3, NEW single \in Nat,
         single > 0 => single >= 3, NEW len \in Guard!PeriodUnits(s, many, single)
  PROVE  /\ len \in Nat \ {0} /\ len <= Len(s)
         /\ Guard!WholeRepeats(s, len) >= Guard!Needed(Guard!Unit(s, 1, len), many, single)
  <1> DEFINE three == {many, IF single > 0 THEN single ELSE many, MinLong - 1}
             lowest == Guard!Min(three)
             most == Len(s) \div Guard!Max({1, lowest})
  <1>1. MinLong \in Nat /\ MinLong >= 3 /\ MaxPeriodUnit \in Nat
    BY DEF GuardConstants
  <1>2. three \in SUBSET Nat /\ three # {}
    BY <1>1
  <1>3. \E x \in three : \A y \in three : x <= y
    <2> HIDE DEF three
    <2> QED
      BY <1>2, LeastExists
  <1>4. lowest \in Nat
    <2>1. lowest \in three
      BY <1>3 DEF Guard!Min
    <2> HIDE DEF lowest, three
    <2> QED
      BY <1>2, <2>1
  <1>5. len \in 1 .. Guard!Min({most, MaxPeriodUnit}) /\ Guard!Explains(s, len, many, single)
    BY DEF Guard!PeriodUnits
  <1> HIDE DEF three, lowest
  <1>6. Guard!Max({1, lowest}) \in Nat \ {0}
    BY <1>4, OfTwo
  <1>7. most \in Nat /\ most <= Len(s)
    BY <1>6, HowManyFit
  <1> HIDE DEF most
  <1>8. Guard!Min({most, MaxPeriodUnit}) <= most /\ Guard!Min({most, MaxPeriodUnit}) \in Nat
    BY <1>1, <1>7, OfTwo
  <1>9. len \in Nat \ {0} /\ len <= Len(s)
    BY <1>5, <1>7, <1>8
  <1> QED
    BY <1>5, <1>9 DEF Guard!Explains

\* A repetition of the whole text.
LEMMA PeriodKept ==
  ASSUME GuardConstants, NEW X, NEW s \in Seq(X), NEW many \in Nat, many >= 3, NEW single \in Nat,
         single > 0 => single >= 3, NEW len \in Guard!PeriodUnits(s, many, single)
  PROVE  CopiesGo(s, Guard!KeepPeriod(s, len))
  <1> DEFINE n == Len(s)
             c == Guard!Copies(s, 1, len)
             unit == Guard!Unit(s, 1, len)
             after == SubSeq(s, 1 + c * len, n)
             started == after # <<>> /\ Guard!IsStrictPrefix(after, unit)
             kept == Guard!KeepPeriod(s, len)
  <1>1. /\ len \in Nat \ {0} /\ len <= n
        /\ Guard!WholeRepeats(s, len) >= Guard!Needed(unit, many, single)
    BY PeriodFound
  <1>2. /\ c \in Nat \ {0} /\ Guard!Repeats(s, 1, len, c)
    <2>1. 1 + len - 1 <= Len(s) /\ 1 \in Nat \ {0}
      BY <1>1
    <2> QED
      BY <1>1, <2>1, CopiesAre
  <1>3. PICK p \in Nat : p = c * len /\ p <= n
    <2>1. c * len \in Nat /\ 1 + c * len - 1 <= n
      BY <1>1, <1>2, CopiesFit
    <2> QED
      BY <2>1
  <1>4. /\ after \in Seq(X) /\ Len(after) = n - p /\ (after = <<>> <=> p = n)
    <2>1. p \in 0 .. Len(s)
      BY <1>3
    <2>2. after = SubSeq(s, 1 + p, Len(s))
      BY <1>3
    <2> HIDE DEF after
    <2> QED
      BY <2>1, <2>2, AfterTheCopies
  <1>5. unit \in Seq(X) /\ Len(unit) = len
    <2>1. 1 + len - 1 <= Len(s) /\ 1 \in Nat \ {0}
      BY <1>1
    <2> QED
      BY <1>1, <2>1, UnitIs
  <1>6. after # unit
    BY <1>1, NoMoreCopies
  <1>7. Guard!Needed(unit, many, single) \in Nat /\ Guard!Needed(unit, many, single) >= 3
    BY ThreeAreNeeded
  <1>8. 1 \in 1 .. n /\ len \in 1 .. n /\ c \in 1 .. n
    BY <1>1, <1>2, CopiesFit
  <1>9. unit = SubSeq(s, 1, 1 + len - 1)
    BY DEF Guard!Unit
  <1>10. SUFFICES c >= 2 /\ (\/ c >= 3 /\ kept = unit \o after
                             \/ (c >= 3 \/ len >= LongUnit) /\ started /\ kept = unit)
    <2> HIDE DEF unit, c, kept
    <2>1. c \in 2 .. n
      BY <1>8, <1>10
    <2>2. RunIsCut(s, kept, 1, len, c)
      BY <1>2, <1>9, <1>10 DEF RunIsCut, unit
    <2> QED
      BY <1>8, <2>1, <2>2 DEF CopiesGo, kept
  <1>11. CASE Guard!Truncated(s, len) /\ len >= LongUnit
    <2>1. Guard!WholeRepeats(s, len) = c + 1
      BY <1>11 DEF Guard!WholeRepeats
    <2>2. c >= 2
      <3> HIDE DEF c, unit
      <3> QED
        BY <1>1, <1>2, <1>7, <2>1
    <2>3. started
      BY <1>1, <1>11, StartedCopy
    <2>4. kept = unit
      <3>1. (c + 1) * len = p + len
        BY <1>1, <1>2, <1>3, Multiples
      <3>2. n - p <= len
        BY <1>3, <1>11 DEF Guard!Truncated
      <3>3. kept = unit \o IF Guard!IsPrefix(SubSeq(s, p + len + 1, n), unit) THEN <<>>
                           ELSE SubSeq(s, p + len + 1, n)
        BY <2>1, <3>1 DEF Guard!KeepPeriod
      <3>4. SubSeq(s, p + len + 1, n) = <<>>
        <4>1. p + len + 1 > n /\ p + len + 1 \in Nat /\ n \in Nat
          BY <1>1, <3>2
        <4> QED
          BY <4>1
      <3> HIDE DEF unit, kept
      <3>5. kept = unit \o <<>>
        BY <3>3, <3>4
      <3> QED
        BY <1>5, <3>5
    <2> QED
      BY <1>11, <2>2, <2>3, <2>4
  <1>12. CASE ~(Guard!Truncated(s, len) /\ len >= LongUnit)
    <2>1. Guard!WholeRepeats(s, len) = c
      <3>1. Guard!WholeRepeats(s, len) = c + 0
        BY <1>12 DEF Guard!WholeRepeats
      <3> HIDE DEF c
      <3> QED
        BY <1>2, <3>1
    <2>2. c >= 3
      <3> HIDE DEF c, unit
      <3> QED
        BY <1>1, <1>2, <1>7, <2>1
    <2>3. kept = unit \o IF Guard!IsPrefix(after, unit) THEN <<>> ELSE after
      <3>1. kept = unit \o IF Guard!IsPrefix(SubSeq(s, c * len + 1, n), unit) THEN <<>>
                           ELSE SubSeq(s, c * len + 1, n)
        BY <2>1 DEF Guard!KeepPeriod
      <3>2. c * len + 1 = 1 + c * len
        BY <1>3
      <3> HIDE DEF unit, kept, c
      <3> QED
        BY <3>1, <3>2
    <2> HIDE DEF unit, after, kept, c, started
    <2>4. CASE ~Guard!IsPrefix(after, unit)
      BY <1>2, <2>2, <2>3, <2>4
    <2>5. CASE Guard!IsPrefix(after, unit)
      <3>1. kept = unit \o <<>>
        BY <2>3, <2>5
      <3>2. kept = unit
        BY <1>5, <3>1
      <3>3. CASE after = <<>>
        BY <1>2, <2>2, <3>1, <3>3
      <3>4. CASE after # <<>>
        <4>1. started
          BY <1>6, <2>5, <3>4 DEF started, Guard!IsStrictPrefix
        <4> QED
          BY <1>2, <2>2, <3>2, <4>1
      <3> QED
        BY <3>3, <3>4
    <2> QED
      BY <2>4, <2>5
  <1> QED
    BY <1>11, <1>12

\* The copies before the started one, counted from the end.
LEMMA TailCopiesAre ==
  ASSUME NEW X, NEW s \in Seq(X), NEW len \in Nat \ {0}, NEW p \in 0 .. Len(s), len <= Len(s) - p,
         NEW c, c = Guard!TailCopies(s, len, p)
  PROVE  /\ c \in Nat \ {0} /\ c * len \in Nat /\ c * len <= Len(s) - p
         /\ Guard!Repeats(s, Len(s) - p - c * len + 1, len, c)
  <1> DEFINE end == Len(s) - p
             S == {k \in 1 .. end \div len : \A j \in end - k * len + 1 .. end - len : s[j] = s[j + len]}
  <1>1. end \in Nat /\ end >= len /\ end <= Len(s)
    OBVIOUS
  <1>2. c = Guard!Max(S)
    BY DEF Guard!TailCopies
  <1> HIDE DEF end
  <1>3. end \div len \in Nat /\ 1 <= end \div len
    <2>1. 1 * len <= end
      BY <1>1
    <2> QED
      BY <1>1, <2>1, HowManyFit
  <1>4. S \in SUBSET Nat /\ \A k \in S : k <= end \div len
    BY <1>3
  <1>5. 1 \in S
    <2>1. end - 1 * len + 1 = end - len + 1
      BY <1>1
    <2>2. \A j \in end - len + 1 .. end - len : FALSE
      BY <1>1
    <2> QED
      BY <1>3, <2>1, <2>2
  <1>6. \A k \in S : \A j \in end - k * len + 1 .. end - len : s[j] = s[j + len]
    OBVIOUS
  <1> HIDE DEF S
  <1>7. PICK x \in S : \A y \in S : x >= y
    BY <1>3, <1>4, <1>5, GreatestExists
  <1>8. c \in S
    BY <1>2, <1>7 DEF Guard!Max
  <1>9. c \in Nat \ {0} /\ c <= end \div len
    <2>1. \A k \in S : k >= 1
      BY DEF S
    <2> QED
      BY <1>4, <1>8, <2>1
  <1>10. c * len \in Nat /\ c * len <= end
    BY <1>1, <1>9, HowManyFit
  <1>11. PICK e \in Nat : c = e + 1 /\ c * len = e * len + len /\ e * len \in Nat
    <2>1. PICK d \in Nat : c = d + 1
      BY <1>9
    <2> QED
      BY <2>1, Multiples
  <1>12. PICK a \in Nat, b \in Nat : a = c * len /\ b = e * len
    BY <1>10, <1>11
  <1>13. a = b + len /\ a <= end
    BY <1>10, <1>11, <1>12
  <1>14. end - a + 1 + a - 1 <= Len(s) /\ end - a + 1 + b - 1 = end - len
    BY <1>1, <1>13
  <1>15. Guard!Repeats(s, end - c * len + 1, len, c)
    <2>1. c - 1 = e
      BY <1>11
    <2>2. end - c * len + 1 + c * len - 1 <= Len(s)
      BY <1>12, <1>14
    <2>3. end - c * len + 1 + (c - 1) * len - 1 = end - len
      BY <1>12, <1>14, <2>1
    <2>4. \A j \in end - c * len + 1 .. end - len : s[j] = s[j + len]
      BY <1>6, <1>8
    <2> QED
      BY <2>2, <2>3, <2>4 DEF Guard!Repeats
  <1> QED
    BY <1>9, <1>10, <1>15 DEF end

\* The tail that was found: how it covers the end of the text.
LEMMA TailFound ==
  ASSUME GuardConstants, NEW X, NEW s \in Seq(X), NEW len \in Guard!TailUnits(s)
  PROVE  /\ len \in Nat \ {0} /\ 3 * len <= Len(s)
         /\ \E p \in 0 .. len - 1 :
              /\ Guard!TailCover(s, len) = Guard!TailCopies(s, len, p) * len + p
              /\ SubSeq(s, Len(s) - p + 1, Len(s)) = SubSeq(Guard!TailUnit(s, len, p), 1, p)
              /\ Guard!TailCopies(s, len, p) >= 3
  <1> DEFINE n == Len(s)
             least == Guard!Min({MinTailRepeats, MinLong})
  <1>1. /\ MinTailRepeats \in Nat /\ MinTailRepeats >= 3 /\ MinLong \in Nat /\ MinLong >= 3
        /\ MinTailSingle \in Nat /\ MinTailSingle >= 3 /\ MaxPeriodUnit \in Nat
    BY DEF GuardConstants
  <1>2. least \in Nat /\ least >= 3
    <2>1. least \in {MinTailRepeats, MinLong}
      BY <1>1, OfTwo
    <2> QED
      BY <1>1, <2>1
  <1>3. len \in 1 .. Guard!Min({n \div least, MaxPeriodUnit}) /\ Guard!TailCover(s, len) > 0
    BY DEF Guard!TailUnits
  <1> HIDE DEF least
  <1>4. n \div least \in Nat
    BY <1>2, HowManyFit
  <1>5. Guard!Min({n \div least, MaxPeriodUnit}) <= n \div least
        /\ Guard!Min({n \div least, MaxPeriodUnit}) \in Nat
    BY <1>1, <1>4, OfTwo
  <1>6. len \in Nat \ {0} /\ len <= n \div least
    BY <1>3, <1>4, <1>5
  <1>7. 3 * len <= n
    <2>1. len * least <= n
      BY <1>2, <1>6, HowManyFit
    <2>2. 3 * len <= least * len /\ least * len = len * least /\ least * len \in Nat /\ 3 * len \in Nat
      BY <1>2, <1>6, Multiples
    <2> QED
      BY <2>1, <2>2
  <1>8. DEFINE copies(p) == Guard!TailCopies(s, len, p)
               covers(p) == copies(p) * len + p
               fits(p) ==
                 /\ SubSeq(s, n - p + 1, n) = SubSeq(Guard!TailUnit(s, len, p), 1, p)
                 /\ copies(p) >= Guard!Needed(Guard!TailUnit(s, len, p), MinTailRepeats, MinTailSingle)
                 /\ 2 * covers(p) >= n
               S == {0} \cup {covers(p) : p \in {q \in 0 .. len - 1 : fits(q)}}
  <1>9. Guard!TailCover(s, len) = Guard!Max(S)
    BY DEF Guard!TailCover
  <1>10. ASSUME NEW p \in 0 .. len - 1
         PROVE  copies(p) \in Nat \ {0} /\ covers(p) \in Nat /\ covers(p) <= n
    <2>1. p \in 0 .. Len(s) /\ len <= Len(s) - p
      BY <1>6, <1>7
    <2>2. copies(p) \in Nat \ {0} /\ copies(p) * len \in Nat /\ copies(p) * len <= n - p
      BY <1>6, <2>1, TailCopiesAre
    <2> QED
      BY <2>1, <2>2
  <1>11. S \in SUBSET Nat /\ 0 \in S /\ \A x \in S : x <= n
    <2> HIDE DEF copies
    <2>1. \A p \in 0 .. len - 1 : covers(p) \in Nat /\ covers(p) <= n
      BY <1>10
    <2> HIDE DEF covers, fits
    <2> QED
      BY <2>1
  <1>12. PICK x \in S : \A y \in S : x >= y
    <2>1. n \in Nat
      OBVIOUS
    <2> HIDE DEF S, n
    <2>2. S # {}
      BY <1>11
    <2> QED
      BY <1>11, <2>1, <2>2, GreatestExists
  <1>13. Guard!Max(S) \in S
    <2> HIDE DEF S
    <2> QED
      BY <1>12 DEF Guard!Max
  <1>14. PICK p \in 0 .. len - 1 : fits(p) /\ Guard!TailCover(s, len) = covers(p)
    <2> HIDE DEF copies, covers, fits
    <2>1. Guard!TailCover(s, len) \in S /\ Guard!TailCover(s, len) > 0
      BY <1>3, <1>9, <1>13
    <2> QED
      BY <2>1
  <1>15. copies(p) >= 3
    <2>1. /\ Guard!Needed(Guard!TailUnit(s, len, p), MinTailRepeats, MinTailSingle) \in Nat
          /\ Guard!Needed(Guard!TailUnit(s, len, p), MinTailRepeats, MinTailSingle) >= 3
      <3> DEFINE u == Guard!TailUnit(s, len, p)
      <3> HIDE DEF u
      <3>1. Guard!Needed(u, MinTailRepeats, MinTailSingle) \in Nat
            /\ Guard!Needed(u, MinTailRepeats, MinTailSingle) >= 3
        BY <1>1, ThreeAreNeeded
      <3> QED
        BY <3>1 DEF u
    <2>2. copies(p) >= Guard!Needed(Guard!TailUnit(s, len, p), MinTailRepeats, MinTailSingle)
      BY <1>14
    <2>3. copies(p) \in Nat
      BY <1>10
    <2> HIDE DEF copies
    <2> QED
      BY <2>1, <2>2, <2>3
  <1> QED
    BY <1>6, <1>7, <1>14, <1>15

\* A repetition at the end of the text.
LEMMA TailKept ==
  ASSUME GuardConstants, NEW X, NEW s \in Seq(X), NEW len \in Guard!TailUnits(s)
  PROVE  CopiesGo(s, Guard!KeepTail(s, len))
  <1> DEFINE n == Len(s)
             kept == Guard!KeepTail(s, len)
  <1>1. len \in Nat \ {0} /\ 3 * len <= n
    BY TailFound
  <1>2. PICK p \in 0 .. len - 1 :
           /\ Guard!TailCover(s, len) = Guard!TailCopies(s, len, p) * len + p
           /\ SubSeq(s, n - p + 1, n) = SubSeq(Guard!TailUnit(s, len, p), 1, p)
           /\ Guard!TailCopies(s, len, p) >= 3
    BY TailFound
  <1> DEFINE c == Guard!TailCopies(s, len, p)
             i == n - p - c * len + 1
             unit == Guard!Unit(s, i, len)
             after == SubSeq(s, i + c * len, n)
             before == SubSeq(s, 1, i + len - 1)
             started == after # <<>> /\ Guard!IsStrictPrefix(after, unit)
  <1>3. p \in 0 .. Len(s) /\ len <= Len(s) - p /\ n \in Nat
    BY <1>1
  <1>4. /\ c \in Nat \ {0} /\ c * len \in Nat /\ c * len <= n - p
        /\ Guard!Repeats(s, i, len, c)
    BY <1>1, <1>3, TailCopiesAre
  <1>5. c >= 3
    BY <1>2
  <1> HIDE DEF c
  <1>6. PICK a \in Nat : a = c * len /\ a <= n - p /\ len <= a
    <2>1. 1 * len <= c * len /\ 1 * len = len
      BY <1>1, <1>4, Multiples
    <2> QED
      BY <1>4, <2>1
  <1>7. i \in Nat \ {0} /\ i = n - p - a + 1 /\ i + c * len = n - p + 1 /\ i + len - 1 = n - (a + p) + len
    BY <1>1, <1>3, <1>6
  <1>8. kept = before
    <2>1. kept = SubSeq(s, 1, n - (c * len + p) + len)
      BY <1>2 DEF Guard!KeepTail, c
    <2> QED
      BY <1>6, <1>7, <2>1
  <1>9. after = SubSeq(s, n - p + 1, n)
    BY <1>7
  <1>10. i \in Nat \ {0} /\ i + len - 1 \in Nat /\ i + len - 1 <= Len(s)
    <2>1. i = n - p - a + 1
      BY <1>7
    <2>2. /\ n - p - a + 1 \in Nat \ {0} /\ (n - p - a + 1) + len - 1 \in Nat
          /\ (n - p - a + 1) + len - 1 <= n
      BY <1>1, <1>3, <1>6
    <2> HIDE DEF i
    <2> QED
      BY <2>1, <2>2
  <1> HIDE DEF i, kept
  <1>11. i \in 1 .. n /\ len \in 1 .. n /\ c \in 1 .. n
    BY <1>1, <1>4, <1>7, CopiesFit
  <1>12. SUFFICES \/ c >= 3 /\ kept = before \o after
                  \/ (c >= 3 \/ len >= LongUnit) /\ started /\ kept = before
    <2> HIDE DEF n
    <2>1. c \in 2 .. n
      BY <1>3, <1>5, <1>11
    <2>2. RunIsCut(s, kept, i, len, c)
      BY <1>4, <1>12 DEF RunIsCut, n
    <2> QED
      BY <1>11, <2>1, <2>2 DEF CopiesGo, kept, n
  <1>13. before \in Seq(X)
    <2>1. i + len - 1 \in 1 - 1 .. Len(s) /\ 1 \in 1 .. Len(s) + 1
      BY <1>10
    <2> QED
      BY <2>1, PartOf
  <1>14. CASE p = 0
    <2>1. after = <<>>
      <3>1. n - p + 1 > n /\ n - p + 1 \in Nat
        BY <1>3, <1>14
      <3> HIDE DEF after
      <3> QED
        BY <1>3, <1>9, <3>1
    <2> HIDE DEF after, before
    <2>2. before = before \o <<>>
      BY <1>13
    <2> QED
      BY <1>5, <1>8, <2>1, <2>2
  <1>15. CASE p # 0
    <2> DEFINE tail == Guard!TailUnit(s, len, p)
    <2>1. /\ tail \in Seq(X) /\ Len(tail) = len /\ \A x \in 1 .. len : tail[x] = s[n - p - len + x]
      <3>0. n - p - len + 1 \in Nat \ {0} /\ (n - p - len + 1) + len - 1 <= Len(s)
        BY <1>1, <1>3
      <3>1. PICK t \in Nat \ {0} : t = n - p - len + 1 /\ t + len - 1 <= Len(s)
        BY <3>0
      <3>2. tail = Guard!Unit(s, t, len)
        BY <3>1 DEF Guard!TailUnit
      <3>3. /\ Guard!Unit(s, t, len) \in Seq(X) /\ Len(Guard!Unit(s, t, len)) = len
            /\ \A x \in 1 .. len : Guard!Unit(s, t, len)[x] = s[t + x - 1]
        BY <1>1, <3>1, UnitIs
      <3>4. \A x \in 1 .. len : t + x - 1 = n - p - len + x
        BY <1>1, <1>3, <3>1
      <3> HIDE DEF tail
      <3> QED
        BY <3>2, <3>3, <3>4
    <2>2. /\ unit \in Seq(X) /\ Len(unit) = len /\ \A x \in 1 .. len : unit[x] = s[i + x - 1]
      BY <1>1, <1>10, UnitIs
    <2>3. ASSUME NEW x \in 1 .. len PROVE unit[x] = tail[x]
      <3>1. ASSUME NEW y \in i .. i + len - 1, NEW m \in 0 .. c - 1 PROVE s[y + m * len] = s[y]
        BY <1>1, <1>4, <1>10, CopiesAgree
      <3>2. i + x - 1 \in i .. i + len - 1 /\ c - 1 \in 0 .. c - 1
        BY <1>1, <1>4, <1>7
      <3>3. s[(i + x - 1) + (c - 1) * len] = s[i + x - 1]
        BY <3>1, <3>2
      <3>4. (i + x - 1) + (c - 1) * len = n - p - len + x
        <4>1. PICK e \in Nat : c = e + 1
          BY <1>4
        <4>2. e * len \in Nat /\ c * len = e * len + len /\ c - 1 = e
          BY <1>1, <4>1, Multiples
        <4>3. PICK b \in Nat : b = e * len
          BY <4>2
        <4>4. a = b + len
          BY <1>6, <4>2, <4>3
        <4>5. (i + x - 1) + b = n - p - len + x
          BY <1>1, <1>3, <1>7, <4>4
        <4> QED
          BY <4>2, <4>3, <4>5
      <3> HIDE DEF tail, unit
      <3> QED
        BY <2>1, <2>2, <3>3, <3>4
    <2> HIDE DEF tail, unit
    <2>4. after \in Seq(X) /\ Len(after) = p /\ \A x \in 1 .. p : after[x] = tail[x]
      <3>1. after = SubSeq(tail, 1, p)
        BY <1>2, <1>9 DEF tail
      <3>2. 1 \in 1 .. Len(tail) + 1 /\ p \in 1 - 1 .. Len(tail)
        BY <1>1, <2>1
      <3>3. /\ SubSeq(tail, 1, p) \in Seq(X) /\ Len(SubSeq(tail, 1, p)) = p - 1 + 1
            /\ \A x \in 1 .. p - 1 + 1 : SubSeq(tail, 1, p)[x] = tail[1 + x - 1]
        BY <2>1, <3>2, PartOf
      <3>4. p - 1 + 1 = p /\ \A x \in 1 .. p : 1 + x - 1 = x
        BY <1>1
      <3> HIDE DEF after
      <3> QED
        BY <3>1, <3>3, <3>4
    <2> HIDE DEF after
    <2>5. ASSUME NEW x \in 1 .. p PROVE after[x] = unit[x]
      <3>1. x \in 1 .. len
        BY <1>1
      <3> QED
        BY <2>3, <2>4, <3>1
    <2>6. Guard!IsPrefix(after, unit)
      <3>1. Len(after) <= Len(unit) /\ \A x \in 1 .. Len(after) : after[x] = unit[x]
        BY <1>1, <2>2, <2>4, <2>5
      <3> QED
        BY <2>2, <2>4, <3>1, FirstPart
    <2>7. after # unit /\ after # <<>>
      BY <1>1, <1>15, <2>2, <2>4
    <2>8. started
      BY <2>6, <2>7 DEF Guard!IsStrictPrefix
    <2> QED
      BY <1>5, <1>8, <2>8
  <1> QED
    BY <1>14, <1>15

\* A repetition inside the text.
LEMMA InteriorKept ==
  ASSUME GuardConstants, NEW X, NEW s \in Seq(X), Guard!InteriorRuns(s) # {}
  PROVE  CopiesGo(s, Guard!KeepInterior(s))
  <1> DEFINE n == Len(s)
             runs == Guard!InteriorRuns(s)
             copies(r) == Guard!Copies(s, r[1], r[2])
             covers(r) == copies(r) * r[2]
             first(r) == \A q \in runs :
                   \/ covers(r) > covers(q)
                   \/ covers(r) = covers(q) /\ (r[2] < q[2] \/ (r[2] = q[2] /\ r[1] <= q[1]))
             best == CHOOSE r \in runs : first(r)
             kept == Guard!KeepInterior(s)
  <1>1. /\ MinInterior \in Nat /\ MinInterior >= 3
        /\ MinInteriorSingle \in Nat /\ MinInteriorSingle >= 3
    BY DEF GuardConstants
  <1>2. ASSUME NEW r \in runs
        PROVE  /\ r[1] \in Nat \ {0} /\ r[2] \in Nat \ {0} /\ r[1] + r[2] - 1 <= n
               /\ copies(r) >= 3 /\ copies(r) \in Nat \ {0} /\ Guard!Repeats(s, r[1], r[2], copies(r))
               /\ covers(r) \in Nat /\ covers(r) <= n
    <2>1. /\ r[1] \in Nat \ {0} /\ r[2] \in Nat \ {0} /\ r[1] + r[2] - 1 <= n
          /\ Guard!IsRun(s, r[1], r[2])
      <3>1. /\ r \in (1 .. n) \X (1 .. Guard!Min({MaxInteriorUnit, n \div Guard!Min({MinInterior, MinLong})}))
            /\ r[1] + r[2] - 1 <= n /\ Guard!IsRun(s, r[1], r[2])
        BY DEF Guard!InteriorRuns
      <3> QED
        BY <3>1
    <2>2. copies(r) \in Nat \ {0} /\ Guard!Repeats(s, r[1], r[2], copies(r))
      BY <2>1, CopiesAre
    <2>3. copies(r) >= 3
      <3> DEFINE u == Guard!Unit(s, r[1], r[2])
      <3>1. copies(r) >= Guard!Needed(u, MinInterior, MinInteriorSingle)
        BY <2>1 DEF Guard!IsRun
      <3> DEFINE needed == Guard!Needed(u, MinInterior, MinInteriorSingle)
                 made == copies(r)
      <3> HIDE DEF u, copies
      <3>2. needed \in Nat /\ needed >= 3
        BY <1>1, ThreeAreNeeded
      <3>3. made \in Nat /\ made >= needed
        BY <2>2, <3>1
      <3> HIDE DEF needed, made
      <3>4. made >= 3
        BY <3>2, <3>3
      <3> QED
        BY <3>4 DEF made
    <2> HIDE DEF copies
    <2>4. covers(r) \in Nat /\ r[1] + covers(r) - 1 <= Len(s)
      BY <2>1, <2>2, CopiesFit
    <2> QED
      BY <2>1, <2>2, <2>3, <2>4
  <1> HIDE DEF runs, copies, covers
  <1>3. PICK most \in Nat : (\E r \in runs : covers(r) = most) /\ \A r \in runs : covers(r) <= most
    <2> DEFINE C == {covers(r) : r \in runs}
    <2>1. C \in SUBSET Nat /\ C # {} /\ \A x \in C : x <= n
      BY <1>2 DEF runs
    <2>2. \A r \in runs : covers(r) \in C
      OBVIOUS
    <2>3. \A x \in C : \E r \in runs : covers(r) = x
      OBVIOUS
    <2>4. n \in Nat
      OBVIOUS
    <2> HIDE DEF C, n
    <2>5. PICK x \in C : \A y \in C : x >= y
      BY <2>1, <2>4, GreatestExists
    <2> QED
      BY <2>1, <2>2, <2>3, <2>5
  <1>4. PICK short \in Nat : /\ \E r \in runs : covers(r) = most /\ r[2] = short
                             /\ \A r \in runs : covers(r) = most => short <= r[2]
    <2> DEFINE C == {r[2] : r \in {q \in runs : covers(q) = most}}
    <2>1. C \in SUBSET Nat /\ C # {}
      BY <1>2, <1>3
    <2>2. \A r \in runs : covers(r) = most => r[2] \in C
      OBVIOUS
    <2>3. \A x \in C : \E r \in runs : covers(r) = most /\ r[2] = x
      OBVIOUS
    <2> HIDE DEF C
    <2>4. PICK x \in C : \A y \in C : x <= y
      BY <2>1, LeastExists
    <2> QED
      BY <2>1, <2>2, <2>3, <2>4
  <1>5. PICK left \in Nat : /\ \E r \in runs : covers(r) = most /\ r[2] = short /\ r[1] = left
                            /\ \A r \in runs : covers(r) = most /\ r[2] = short => left <= r[1]
    <2> DEFINE C == {r[1] : r \in {q \in runs : covers(q) = most /\ q[2] = short}}
    <2>1. C \in SUBSET Nat /\ C # {}
      BY <1>2, <1>4
    <2>2. \A r \in runs : covers(r) = most /\ r[2] = short => r[1] \in C
      OBVIOUS
    <2>3. \A x \in C : \E r \in runs : covers(r) = most /\ r[2] = short /\ r[1] = x
      OBVIOUS
    <2> HIDE DEF C
    <2>4. PICK x \in C : \A y \in C : x <= y
      BY <2>1, LeastExists
    <2> QED
      BY <2>1, <2>2, <2>3, <2>4
  <1>6. PICK r \in runs : first(r)
    <2>1. PICK r \in runs : covers(r) = most /\ r[2] = short /\ r[1] = left
      BY <1>5
    <2>2. ASSUME NEW q \in runs
          PROVE  \/ covers(r) > covers(q)
                 \/ covers(r) = covers(q) /\ (r[2] < q[2] \/ (r[2] = q[2] /\ r[1] <= q[1]))
      <3>1. covers(q) <= most /\ covers(q) \in Nat /\ q[2] \in Nat
        BY <1>2, <1>3
      <3>2. covers(q) = most => short <= q[2]
        BY <1>4
      <3>3. covers(q) = most /\ q[2] = short => left <= q[1]
        BY <1>5
      <3> QED
        BY <2>1, <3>1, <3>2, <3>3
    <2> QED
      BY <2>1, <2>2
  <1>7. best \in runs
    <2> HIDE DEF first
    <2> QED
      BY <1>6
  <1>8. kept = SubSeq(s, 1, best[1] + best[2] - 1) \o SubSeq(s, best[1] + covers(best), n)
    BY DEF Guard!KeepInterior, covers, copies, runs
  <1> HIDE DEF best, kept
  <1>9. PICK i \in Nat \ {0}, len \in Nat \ {0}, c \in Nat \ {0} :
           /\ c >= 3 /\ Guard!Repeats(s, i, len, c)
           /\ kept = SubSeq(s, 1, i + len - 1) \o SubSeq(s, i + c * len, n)
    <2>1. /\ best[1] \in Nat \ {0} /\ best[2] \in Nat \ {0} /\ copies(best) >= 3
          /\ copies(best) \in Nat \ {0} /\ Guard!Repeats(s, best[1], best[2], copies(best))
      BY <1>2, <1>7
    <2>2. covers(best) = copies(best) * best[2]
      BY DEF covers
    <2> QED
      BY <1>8, <2>1, <2>2
  <1>10. i \in 1 .. n /\ len \in 1 .. n /\ c \in 1 .. n
    BY <1>9, CopiesFit
  <1>11. RunIsCut(s, kept, i, len, c)
    BY <1>9 DEF RunIsCut
  <1>12. c \in 2 .. n
    BY <1>9, <1>10
  <1> QED
    BY <1>10, <1>11, <1>12 DEF CopiesGo, kept

\* Whatever the text is, the guard takes nothing else from it.
LEMMA CollapseKept ==
  ASSUME GuardConstants, NEW X, NEW s \in Seq(X), NEW sp, NEW kept, kept = Guard!Collapse(s, sp), kept # s
  PROVE  CopiesGo(s, kept)
  <1> DEFINE many == IF sp THEN MinSpaced ELSE MinMulti
             single == IF sp THEN 0 ELSE MinSingle
             periods == Guard!PeriodUnits(s, many, single)
             tails == Guard!TailUnits(s)
  <1>1. many \in Nat /\ many >= 3 /\ single \in Nat /\ (single > 0 => single >= 3)
    <2>1. /\ MinSpaced \in Nat /\ MinSpaced >= 3 /\ MinMulti \in Nat /\ MinMulti >= 3
          /\ MinSingle \in Nat /\ MinSingle >= 3
      BY DEF GuardConstants
    <2>2. many \in {MinSpaced, MinMulti} /\ single \in {0, MinSingle}
      OBVIOUS
    <2> HIDE DEF many, single
    <2> QED
      BY <2>1, <2>2
  <1>2. \/ periods # {} /\ kept = Guard!KeepPeriod(s, Guard!Least(periods))
        \/ tails # {} /\ kept = Guard!KeepTail(s, Guard!Least(tails))
        \/ Guard!InteriorRuns(s) # {} /\ kept = Guard!KeepInterior(s)
    BY DEF Guard!Collapse
  <1> HIDE DEF many, single
  <1>3. CASE periods # {} /\ kept = Guard!KeepPeriod(s, Guard!Least(periods))
    <2>1. \A x \in periods : x \in Nat
      BY <1>1, PeriodFound
    <2>2. Guard!Least(periods) \in periods
      <3> HIDE DEF periods
      <3>1. \E x \in periods : \A y \in periods : x <= y
        BY <1>3, <2>1, LeastExists
      <3> QED
        BY <3>1 DEF Guard!Least
    <2>3. ASSUME NEW len \in periods PROVE CopiesGo(s, Guard!KeepPeriod(s, len))
      BY <1>1, PeriodKept
    <2> HIDE DEF periods
    <2> QED
      BY <1>3, <2>2, <2>3
  <1>4. CASE tails # {} /\ kept = Guard!KeepTail(s, Guard!Least(tails))
    <2>1. \A x \in tails : x \in Nat
      BY TailFound
    <2>2. Guard!Least(tails) \in tails
      <3> HIDE DEF tails
      <3>1. \E x \in tails : \A y \in tails : x <= y
        BY <1>4, <2>1, LeastExists
      <3> QED
        BY <3>1 DEF Guard!Least
    <2>3. ASSUME NEW len \in tails PROVE CopiesGo(s, Guard!KeepTail(s, len))
      BY TailKept
    <2> HIDE DEF tails
    <2> QED
      BY <1>4, <2>2, <2>3
  <1>5. CASE Guard!InteriorRuns(s) # {} /\ kept = Guard!KeepInterior(s)
    BY <1>5, InteriorKept
  <1> QED
    BY <1>2, <1>3, <1>4, <1>5

\* The inductive invariant: what is shown is what is left of what was emitted.
GuardInv ==
    /\ units \in Seq(Symbol)
    /\ shown # units => CopiesGo(units, shown)

\* What the guard shows of whatever a decoder emits is the text with one run of
\* copies cut to its first (collapse_repetition and its three finders).
THEOREM GuardSafe ==
  ASSUME GuardConstants
  PROVE  Spec => []OnlyCopiesGo
  <1>1. Init => GuardInv
    BY DEF Init, Guard!Init, GuardInv
  <1>2. [Next]_vars => Guard!Next \/ UNCHANGED guardState
    BY DEF Next, vars
  <1>3. GuardInv /\ [Next]_vars => GuardInv'
    <2> SUFFICES ASSUME GuardInv, Guard!Next \/ UNCHANGED guardState PROVE GuardInv'
      BY <1>2
    <2>1. CASE UNCHANGED guardState
      BY <2>1 DEF GuardInv, guardState
    <2>2. CASE Guard!Next
      <3>1. PICK u \in Symbol : units' = Append(units, u) /\ shown' = Guard!Collapse(units', spaced)
        BY <2>2 DEF Guard!Next, Guard!Decode, Guard!Postprocess
      <3>2. units' \in Seq(Symbol)
        BY <3>1 DEF GuardInv
      <3>3. ASSUME NEW text \in Seq(Symbol), NEW kept, kept = Guard!Collapse(text, spaced), kept # text
            PROVE  CopiesGo(text, kept)
        BY <3>3, CollapseKept
      <3>4. shown' # units' => CopiesGo(units', shown')
        BY <3>1, <3>2, <3>3
      <3> QED
        BY <3>2, <3>4 DEF GuardInv, CopiesGo, RunIsCut
    <2> QED
      BY <2>1, <2>2
  <1>4. GuardInv => OnlyCopiesGo
    BY DEF GuardInv, OnlyCopiesGo, Guard!OnlyCopiesGo, CopiesGo, RunIsCut
  <1> QED
    BY <1>1, <1>3, <1>4, PTL DEF Spec

(***************************************************************************)
(* TextPieces, instantiated a second time with the proofs about it by      *)
(* itself: the two instances have the same beginnings and the same steps.  *)
(***************************************************************************)
PieceProofs == INSTANCE TextPiecesProofs

\* The two instances of TextPieces: its operators on texts,
LEMMA PieceTextSame ==
  /\ \A b : Pieces!Strip(b) = PieceProofs!Strip(b)
  /\ \A b : Pieces!LStrip(b) = PieceProofs!LStrip(b)
  /\ \A b : Pieces!HasCjk(b) = PieceProofs!HasCjk(b)
  /\ \A b, kinds : Pieces!Only(b, kinds) = PieceProofs!Only(b, kinds)
  /\ \A b : Pieces!Visible(b) = PieceProofs!Visible(b)
  /\ \A x : Pieces!FlattenSeq(x) = PieceProofs!FlattenSeq(x)
  /\ \A b : Pieces!Words(b) = PieceProofs!Words(b)
  /\ \A x : Pieces!Joined(x) = PieceProofs!Joined(x)
  <1>1. \A b : Pieces!Strip(b) = PieceProofs!Strip(b)
    BY DEF Pieces!Strip, Pieces!LStrip, Pieces!SelectInSeq, Pieces!Min,
       Pieces!SelectLastInSeq, Pieces!Max, PieceProofs!Strip, PieceProofs!LStrip,
       PieceProofs!SelectInSeq, PieceProofs!Min, PieceProofs!SelectLastInSeq, PieceProofs!Max
  <1>2. \A b : Pieces!LStrip(b) = PieceProofs!LStrip(b)
    BY DEF Pieces!LStrip, Pieces!SelectInSeq, Pieces!Min, PieceProofs!LStrip,
       PieceProofs!SelectInSeq, PieceProofs!Min
  <1>3. \A b : Pieces!HasCjk(b) = PieceProofs!HasCjk(b)
    BY DEF Pieces!HasCjk, Pieces!Contains, PieceProofs!HasCjk, PieceProofs!Contains
  <1>4. \A b, kinds : Pieces!Only(b, kinds) = PieceProofs!Only(b, kinds)
    BY DEF Pieces!Only, PieceProofs!Only
  <1>5. \A b : Pieces!Visible(b) = PieceProofs!Visible(b)
    BY DEF Pieces!Visible, Pieces!Only, PieceProofs!Visible, PieceProofs!Only
  <1>6. \A x : Pieces!FlattenSeq(x) = PieceProofs!FlattenSeq(x)
    BY DEF Pieces!FlattenSeq, PieceProofs!FlattenSeq
  <1>7. \A b : Pieces!Words(b) = PieceProofs!Words(b)
    BY DEF Pieces!Words, Pieces!NextWord, Pieces!FoldLeft, Pieces!MapThenFoldSet, Pieces!Max,
       Pieces!Front, Pieces!Last, PieceProofs!Words, PieceProofs!NextWord,
       PieceProofs!FoldLeft, PieceProofs!MapThenFoldSet, PieceProofs!Max, PieceProofs!Front,
       PieceProofs!Last
  <1>8. \A x : Pieces!Joined(x) = PieceProofs!Joined(x)
    BY DEF Pieces!Joined, Pieces!FlattenSeq, PieceProofs!Joined, PieceProofs!FlattenSeq
  <1> QED
    BY <1>1, <1>2, <1>3, <1>4, <1>5, <1>6, <1>7, <1>8

\* the folds over words and parts,
LEMMA PieceFoldsSame ==
  /\ \A b : Pieces!Packed(b) = PieceProofs!Packed(b)
  /\ \A x : Pieces!Merged(x) = PieceProofs!Merged(x)
  /\ \A b : Pieces!ByTokens(b) = PieceProofs!ByTokens(b)
  /\ \A b : Pieces!Parts(b) = PieceProofs!Parts(b)
  <1>1. \A b : Pieces!Packed(b) = PieceProofs!Packed(b)
    BY DEF Pieces!Packed, Pieces!PackWord, Pieces!Words, Pieces!NextWord, Pieces!FoldLeft,
       Pieces!MapThenFoldSet, Pieces!Max, Pieces!Front, Pieces!Last, PieceProofs!Packed,
       PieceProofs!PackWord, PieceProofs!Words, PieceProofs!NextWord, PieceProofs!FoldLeft,
       PieceProofs!MapThenFoldSet, PieceProofs!Max, PieceProofs!Front, PieceProofs!Last
  <1>2. \A x : Pieces!Merged(x) = PieceProofs!Merged(x)
    BY DEF Pieces!Merged, Pieces!MergePart, Pieces!HasCjk, Pieces!Contains, Pieces!ToSet,
       Pieces!HardBreak, Pieces!FoldLeft, Pieces!MapThenFoldSet, Pieces!Max, Pieces!Front,
       Pieces!Last, PieceProofs!Merged, PieceProofs!MergePart, PieceProofs!HasCjk,
       PieceProofs!Contains, PieceProofs!ToSet, PieceProofs!HardBreak, PieceProofs!FoldLeft,
       PieceProofs!MapThenFoldSet, PieceProofs!Max, PieceProofs!Front, PieceProofs!Last
  <1>3. \A x : Pieces!TakeWords(x) = PieceProofs!TakeWords(x)
    BY DEF Pieces!TakeWords, Pieces!TakeWord, Pieces!LongWord, Pieces!Visible, Pieces!Only,
       Pieces!FoldLeft, Pieces!MapThenFoldSet, Pieces!Max, PieceProofs!TakeWords,
       PieceProofs!TakeWord, PieceProofs!LongWord, PieceProofs!Visible, PieceProofs!Only,
       PieceProofs!FoldLeft, PieceProofs!MapThenFoldSet, PieceProofs!Max
  <1>4. \A b : Pieces!Parts(b) = PieceProofs!Parts(b)
    BY DEF Pieces!Parts, Pieces!NextPart, Pieces!Words, Pieces!NextWord, Pieces!FoldLeft,
       Pieces!MapThenFoldSet, Pieces!Max, Pieces!Front, Pieces!Last, PieceProofs!Parts,
       PieceProofs!NextPart, PieceProofs!Words, PieceProofs!NextWord, PieceProofs!FoldLeft,
       PieceProofs!MapThenFoldSet, PieceProofs!Max, PieceProofs!Front, PieceProofs!Last
  <1>5. \A b : Pieces!ByTokens(b) = PieceProofs!ByTokens(b)
    BY <1>3, PieceTextSame DEF Pieces!ByTokens, PieceProofs!ByTokens
  <1> QED
    BY <1>1, <1>2, <1>4, <1>5

\* its cuts,
LEMMA PieceCutsSame ==
  /\ \A b : Pieces!SentenceCut(b) = PieceProofs!SentenceCut(b)
  /\ \A b : Pieces!ClauseCut(b) = PieceProofs!ClauseCut(b)
  /\ \A b, ahead : Pieces!ContinuesAtom(b, ahead) = PieceProofs!ContinuesAtom(b, ahead)
  /\ \A b : Pieces!AtomPrefix(b) = PieceProofs!AtomPrefix(b)
  /\ \A b : Pieces!Part(b) = PieceProofs!Part(b)
  <1>1. ASSUME NEW b PROVE Pieces!SentenceCut(b) = PieceProofs!SentenceCut(b)
    <2> DEFINE Ends(i) == \/ b[i] = "stop" /\ (i = Len(b) \/ b[i + 1] # "stop")
                          \/ b[i] \in {"query", "dot"} /\ (i = Len(b) \/ b[i + 1] = "space")
               p == {i \in DOMAIN b :
                       Ends(i) /\ Len(Pieces!Strip(SubSeq(b, 1, i))) >= MinSentence}
               q == {i \in DOMAIN b :
                       Ends(i) /\ Len(PieceProofs!Strip(SubSeq(b, 1, i))) >= MinSentence}
    <2>1. p = q
      <3> HIDE DEF Ends
      <3> QED
        BY PieceTextSame
    <2>2. Pieces!SentenceCut(b) = IF p # {} THEN Pieces!Min(p)
                                 ELSE IF Len(b) >= MaxSentence THEN Len(b) ELSE 0
      BY DEF Pieces!SentenceCut
    <2>3. PieceProofs!SentenceCut(b) = IF q # {} THEN PieceProofs!Min(q)
                                      ELSE IF Len(b) >= MaxSentence THEN Len(b) ELSE 0
      BY DEF PieceProofs!SentenceCut
    <2> HIDE DEF p, q
    <2>4. Pieces!Min(p) = PieceProofs!Min(p)
      BY DEF Pieces!Min, PieceProofs!Min
    <2> QED
      BY <2>1, <2>2, <2>3, <2>4
  <1>2. \A b, cjk : Pieces!LengthCut(b, cjk) = PieceProofs!LengthCut(b, cjk)
    BY DEF Pieces!LengthCut, Pieces!SelectLastInSubSeq, Pieces!Max, PieceProofs!LengthCut,
       PieceProofs!SelectLastInSubSeq, PieceProofs!Max
  <1>3. ASSUME NEW b PROVE Pieces!ClauseCut(b) = PieceProofs!ClauseCut(b)
    <2> DEFINE h == LET I == {i \in 1 .. Len(b) : b[i] \in {"stop", "query"}}
                    IN IF I # {} THEN CHOOSE x \in I : \A y \in I : x <= y ELSE 0
               m == LET I == {i \in 1 .. Len(b) : b[i] = "colon"}
                    IN IF I # {} THEN CHOOSE x \in I : \A y \in I : x >= y ELSE 0
    <2>1. Pieces!ClauseCut(b) =
            CASE h > 0 /\ Len(Pieces!Strip(SubSeq(b, 1, h))) >= 2 -> h
              [] OTHER ->
                 IF m > 0 /\ Len(Pieces!Strip(SubSeq(b, 1, m))) >= MinClause THEN m
                 ELSE IF m > 0 /\ Len(Pieces!Strip(b)) >= TargetClause THEN Len(b)
                 ELSE IF Len(Pieces!Strip(b)) >= (IF cutter = "clauses, CJK" \/ Pieces!HasCjk(b)
                                                  THEN MaxClause ELSE TargetClause)
                 THEN Pieces!LengthCut(b, cutter = "clauses, CJK" \/ Pieces!HasCjk(b))
                 ELSE 0
      BY DEF Pieces!ClauseCut, Pieces!HardBreak, Pieces!SelectInSeq, Pieces!Min,
         Pieces!SelectLastInSeq, Pieces!Max
    <2>2. PieceProofs!ClauseCut(b) =
            CASE h > 0 /\ Len(PieceProofs!Strip(SubSeq(b, 1, h))) >= 2 -> h
              [] OTHER ->
                 IF m > 0 /\ Len(PieceProofs!Strip(SubSeq(b, 1, m))) >= MinClause THEN m
                 ELSE IF m > 0 /\ Len(PieceProofs!Strip(b)) >= TargetClause THEN Len(b)
                 ELSE IF Len(PieceProofs!Strip(b)) >= (IF cutter = "clauses, CJK" \/ PieceProofs!HasCjk(b)
                                                  THEN MaxClause ELSE TargetClause)
                 THEN PieceProofs!LengthCut(b, cutter = "clauses, CJK" \/ PieceProofs!HasCjk(b))
                 ELSE 0
      BY DEF PieceProofs!ClauseCut, PieceProofs!HardBreak, PieceProofs!SelectInSeq,
         PieceProofs!Min, PieceProofs!SelectLastInSeq, PieceProofs!Max
    <2> HIDE DEF h, m
    <2> QED
      BY <1>2, <2>1, <2>2, PieceTextSame
  <1>4. \A b, ahead : Pieces!ContinuesAtom(b, ahead) = PieceProofs!ContinuesAtom(b, ahead)
    BY DEF Pieces!ContinuesAtom, Pieces!AtomPunct, Pieces!Last, Pieces!SelectInSeq,
       Pieces!Min, PieceProofs!ContinuesAtom, PieceProofs!AtomPunct, PieceProofs!Last,
       PieceProofs!SelectInSeq, PieceProofs!Min
  <1>5. \A b : Pieces!AtomPrefix(b) = PieceProofs!AtomPrefix(b)
    BY DEF Pieces!AtomPrefix, Pieces!AtomPunct, Pieces!SelectLastInSeq, Pieces!Max,
       PieceProofs!AtomPrefix, PieceProofs!AtomPunct, PieceProofs!SelectLastInSeq,
       PieceProofs!Max
  <1>6. \A b : Pieces!Part(b) = PieceProofs!Part(b)
    BY PieceTextSame DEF Pieces!Part, Pieces!Contains, PieceProofs!Part, PieceProofs!Contains
  <1> QED
    BY <1>1, <1>3, <1>4, <1>5, <1>6

\* and its steps.
LEMMA PiecesSame ==
  /\ Pieces!Init => PieceProofs!Init
  /\ Pieces!Next => PieceProofs!Next
  /\ PieceProofs!PiecesAreText => Pieces!PiecesAreText
  <1>0. \A p : Pieces!Emitted(p) = PieceProofs!Emitted(p)
    BY DEF Pieces!Emitted, PieceProofs!Emitted
  <1>1. Pieces!Init => PieceProofs!Init
    BY DEF Pieces!Init, Pieces!Cutter, PieceProofs!Init, PieceProofs!Cutter
  <1>2. Pieces!Feed => PieceProofs!Feed
    BY DEF Pieces!Feed, Pieces!Streams, PieceProofs!Feed, PieceProofs!Streams
  <1>3. Pieces!Emit => PieceProofs!Emit
    <2>1. \A b : Pieces!Kept(b) = PieceProofs!Kept(b)
      BY PieceTextSame DEF Pieces!Kept, PieceProofs!Kept
    <2> QED
      BY <1>0, <2>1, PieceTextSame, PieceCutsSame DEF Pieces!Emit, PieceProofs!Emit
  <1>4. Pieces!Flush => PieceProofs!Flush
    BY <1>0, PieceTextSame DEF Pieces!Flush, Pieces!Streams, PieceProofs!Flush, PieceProofs!Streams
  <1>5. Pieces!Receive => PieceProofs!Receive
    BY PieceTextSame DEF Pieces!Receive, PieceProofs!Receive
  <1>6. \A b : Pieces!FlushCurrent(b) => PieceProofs!FlushCurrent(b)
    BY <1>0, PieceCutsSame DEF Pieces!FlushCurrent, PieceProofs!FlushCurrent
  <1>7. \A b, ahead : Pieces!AtLimit(b, ahead) => PieceProofs!AtLimit(b, ahead)
    <2>1. \A b, ahead : Pieces!MayGrow(b, ahead) = PieceProofs!MayGrow(b, ahead)
      BY PieceCutsSame DEF Pieces!MayGrow, Pieces!InsideAtom, Pieces!AtomPunct, Pieces!Last,
         PieceProofs!MayGrow, PieceProofs!InsideAtom, PieceProofs!AtomPunct, PieceProofs!Last
    <2>2. ASSUME NEW b, NEW ahead, Pieces!AtLimit(b, ahead) PROVE PieceProofs!AtLimit(b, ahead)
      <3> DEFINE cut == LET I == {i \in 1 .. Len(b) : b[i] = "colon"}
                        IN IF I # {} THEN CHOOSE x \in I : \A y \in I : x >= y ELSE 0
                 inAtom == /\ 1 < cut /\ cut < Len(b)
                           /\ Pieces!ContinuesAtom(SubSeq(b, 1, cut - 1), SubSeq(b, cut + 1, Len(b)))
                 inAtomToo == /\ 1 < cut /\ cut < Len(b)
                              /\ PieceProofs!ContinuesAtom(SubSeq(b, 1, cut - 1), SubSeq(b, cut + 1, Len(b)))
      <3>1. IF Pieces!MayGrow(b, ahead) THEN buf' = b /\ UNCHANGED pieces
            ELSE IF cut > MaxReq \div 3 /\ ~inAtom
            THEN /\ buf' = Pieces!LStrip(SubSeq(b, cut + 1, Len(b)))
                 /\ pieces' = Pieces!Emitted(Pieces!Strip(SubSeq(b, 1, cut)))
            ELSE Pieces!FlushCurrent(b)
        BY <2>2 DEF Pieces!AtLimit, Pieces!SelectLastInSeq, Pieces!Max
      <3>2. inAtom <=> inAtomToo
        <4> HIDE DEF cut
        <4> QED
          BY PieceCutsSame
      <3> DEFINE far == cut > MaxReq \div 3
                 early == SubSeq(b, 1, cut)
                 late  == SubSeq(b, cut + 1, Len(b))
      <3>3. IF Pieces!MayGrow(b, ahead) THEN buf' = b /\ UNCHANGED pieces
            ELSE IF far /\ ~inAtomToo
            THEN /\ buf' = Pieces!LStrip(late) /\ pieces' = Pieces!Emitted(Pieces!Strip(early))
            ELSE Pieces!FlushCurrent(b)
        <4> HIDE DEF inAtom, inAtomToo, cut
        <4> QED
          BY <3>1, <3>2
      <3> HIDE DEF inAtom, inAtomToo, cut, far, early, late
      <3>4. IF PieceProofs!MayGrow(b, ahead) THEN buf' = b /\ UNCHANGED pieces
            ELSE IF far /\ ~inAtomToo
            THEN /\ buf' = PieceProofs!LStrip(late)
                 /\ pieces' = PieceProofs!Emitted(PieceProofs!Strip(early))
            ELSE PieceProofs!FlushCurrent(b)
        BY <1>0, <1>6, <2>1, <3>3, PieceTextSame
      <3>5. IF PieceProofs!MayGrow(b, ahead) THEN buf' = b /\ UNCHANGED pieces
            ELSE IF cut > MaxReq \div 3 /\ ~inAtomToo
            THEN /\ buf' = PieceProofs!LStrip(SubSeq(b, cut + 1, Len(b)))
                 /\ pieces' = PieceProofs!Emitted(PieceProofs!Strip(SubSeq(b, 1, cut)))
            ELSE PieceProofs!FlushCurrent(b)
        BY <3>4 DEF far, early, late
      <3> QED
        BY <3>5 DEF inAtomToo, cut, PieceProofs!AtLimit, PieceProofs!SelectLastInSeq, PieceProofs!Max
    <2> QED
      BY <2>2
  <1>8. Pieces!Scan => PieceProofs!Scan
    BY <1>6, <1>7, PieceTextSame, PieceCutsSame
    DEF Pieces!Scan, PieceProofs!Scan, Pieces!HardBreak, PieceProofs!HardBreak
  <1>9. Pieces!ScanEnds => PieceProofs!ScanEnds
    BY <1>6 DEF Pieces!ScanEnds, PieceProofs!ScanEnds
  <1>10. Pieces!Pack => PieceProofs!Pack
    <2> DEFINE p == [i \in DOMAIN pieces |->
                      IF Len(pieces[i]) <= MaxReq THEN <<pieces[i]>> ELSE Pieces!Packed(pieces[i])]
               q == [i \in DOMAIN pieces |->
                      IF Len(pieces[i]) <= MaxReq THEN <<pieces[i]>> ELSE PieceProofs!Packed(pieces[i])]
    <2>1. p = q
      BY PieceFoldsSame
    <2> HIDE DEF p, q
    <2>2. Pieces!Merged(IF Pieces!HasCjk(said) THEN pieces ELSE Pieces!FlattenSeq(p))
            = PieceProofs!Merged(IF PieceProofs!HasCjk(said) THEN pieces ELSE PieceProofs!FlattenSeq(q))
      BY <2>1, PieceTextSame, PieceFoldsSame
    <2> QED
      BY <2>2 DEF Pieces!Pack, PieceProofs!Pack, p, q
  <1>11. Pieces!SplitStreamText => PieceProofs!SplitStreamText
    <2> DEFINE p(t) == [i \in DOMAIN Pieces!Parts(t) |-> Pieces!ByTokens(Pieces!Parts(t)[i])]
               q(t) == [i \in DOMAIN PieceProofs!Parts(t) |->
                          PieceProofs!ByTokens(PieceProofs!Parts(t)[i])]
    <2>1. \A t : p(t) = q(t)
      BY PieceFoldsSame
    <2>2. \A t : Pieces!FlattenSeq(p(t)) = PieceProofs!FlattenSeq(q(t))
      <3> HIDE DEF p, q
      <3> QED
        BY <2>1, PieceTextSame
    <2> QED
      BY <2>2, PieceTextSame DEF Pieces!SplitStreamText, PieceProofs!SplitStreamText
  <1>12. PieceProofs!PiecesAreText => Pieces!PiecesAreText
    BY PieceTextSame DEF Pieces!PiecesAreText, PieceProofs!PiecesAreText, Pieces!NothingLost,
       PieceProofs!NothingLost, Pieces!PiecesFit, PieceProofs!PiecesFit, Pieces!Streams,
       PieceProofs!Streams
  <1> QED
    BY <1>1, <1>2, <1>3, <1>4, <1>5, <1>8, <1>9, <1>10, <1>11, <1>12
    DEF Pieces!Next, PieceProofs!Next

\* Whatever is said and wherever the cuts fall, the pieces for speech are the text but for
\* spaces, and each is within its limit: that of a request counts its words and
\* numbers alone, not question marks, merged punctuation or spaces.
THEOREM PiecesSafe ==
  ASSUME {MinSentence, MaxSentence, MaxDelta, MinClause, TargetClause, MaxClause} \subseteq Nat,
         {MaxReq, AtomLimit, MinMerge, MaxTokens} \subseteq Nat,
         MaxSentence >= 1, MinClause >= 1, TargetClause >= 1, MaxTokens >= 1, AtomLimit >= 1,
         TargetClause <= MaxClause, MaxReq <= AtomLimit
  PROVE  Spec => []PiecesAreText
  <1>1. Init => PieceProofs!Init
    BY PiecesSame DEF Init
  <1>2. [Next]_vars => [PieceProofs!Next]_(PieceProofs!pieceVars)
    <2>1. [Next]_vars => Pieces!Next \/ UNCHANGED pieceState
      BY DEF Next, vars
    <2>2. UNCHANGED pieceState => UNCHANGED PieceProofs!pieceVars
      BY DEF PieceProofs!pieceVars, pieceState
    <2> QED
      BY <2>1, <2>2, PiecesSame
  <1>3. PieceProofs!PiecesAreText => PiecesAreText
    BY PiecesSame DEF PiecesAreText
  <1>4. PieceProofs!Limits
    BY DEF PieceProofs!Limits
  <1>5. PieceProofs!Spec => []PieceProofs!PiecesAreText
    BY <1>4, PieceProofs!PiecesCorrect
  <1> QED
    BY <1>1, <1>2, <1>3, <1>5, PTL DEF Spec, PieceProofs!Spec
=============================================================================
