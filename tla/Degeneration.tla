---------------------------- MODULE Degeneration ----------------------------
(***************************************************************************)
(* The guard against degenerate decoding (text/degenerate.py): a decoder   *)
(* that loops repeats one unit, and the guard keeps a single copy of it.   *)
(* Three anchors are tried in turn: a repetition that explains the whole   *)
(* text, one at its end, one in its middle; and a phrase that comes back   *)
(* segment after segment is cut to one segment.                            *)
(*                                                                         *)
(* A text is the sequence of its units (words when it is spaced, characters*)
(* when it is not) with the separators left out; what the code slices from *)
(* the original text is the slice of units here.  The thresholds are       *)
(* constants: the same comparisons, at lengths that can be enumerated.     *)
(***************************************************************************)
EXTENDS Naturals, Sequences, SequencesExt, FiniteSetsExt

CONSTANTS
    MinSpaced,          \* _MIN_REPEATS_SPACED
    MinMulti,           \* _MIN_REPEATS_MULTI_CHAR
    MinSingle,          \* _MIN_REPEATS_SINGLE_CHAR
    LongUnit,           \* _LONG_UNIT_WORDS
    MinLong,            \* _MIN_REPEATS_LONG_UNIT
    MinTailRepeats,     \* _MIN_TAIL_REPEATS
    MinTailSingle,      \* _MIN_TAIL_REPEATS_SINGLE_CHAR
    MinInterior,        \* _MIN_INTERIOR_REPEATS
    MinInteriorSingle,  \* _MIN_INTERIOR_REPEATS_SINGLE
    MaxInteriorUnit,    \* _MAX_INTERIOR_UNIT_LEN
    MaxPeriodUnit,      \* _MAX_PERIOD_UNIT_LEN
    MaxTailScan,        \* _MAX_TAIL_SCAN_UNITS
    ShortRun            \* _MIN_SEGMENT_RUN_SHORT

Least(S) == CHOOSE x \in S : \A y \in S : x <= y

\* Copies of the unit of length len at position i: repeats counts them from i on.
Copies(seq, i, len) ==
    Max({k \in 1 .. (Len(seq) - i + 1) \div len :
            \A j \in i .. i + (k - 1) * len - 1 : seq[j] = seq[j + len]})

Unit(seq, i, len) == SubSeq(seq, i, i + len - 1)

\* No threshold for single units (spaced text) is 0.
Needed(unit, many, single) ==
    IF single > 0 /\ Cardinality(ToSet(unit)) = 1 THEN single
    ELSE IF Len(unit) >= LongUnit THEN Min({many, MinLong}) ELSE many

\* _find_period: does the unit of length len explain the text from its start?
Truncated(seq, len) ==
    LET covered == Copies(seq, 1, len) * len
    IN covered < Len(seq) /\ Len(seq) - covered <= len
       /\ \A j \in covered + 1 .. Len(seq) : seq[j] = seq[j - covered]

WholeRepeats(seq, len) ==
    Copies(seq, 1, len) + IF Truncated(seq, len) /\ len >= LongUnit THEN 1 ELSE 0

Explains(seq, len, many, single) ==
    LET covered == IF Truncated(seq, len) THEN Len(seq) ELSE Copies(seq, 1, len) * len
    IN /\ WholeRepeats(seq, len) >= Needed(Unit(seq, 1, len), many, single)
       /\ 10 * covered >= 8 * Len(seq)

PeriodUnits(seq, many, single) ==
    LET lowest == Min({many, IF single > 0 THEN single ELSE many, MinLong - 1})
    IN IF Len(seq) < 4 THEN {}
       ELSE {len \in 1 .. Min({Len(seq) \div Max({1, lowest}), MaxPeriodUnit}) :
               Explains(seq, len, many, single)}

\* Mutant of KeepPeriod: what follows the repetition is dropped with it.
KeepUnit(seq, len) == Unit(seq, 1, len)

\* One copy, and what the period does not explain (a truncated copy is explained).
KeepPeriod(seq, len) ==
    LET whole == WholeRepeats(seq, len) * len
        rest  == SubSeq(seq, whole + 1, Len(seq))
    IN Unit(seq, 1, len) \o IF IsPrefix(rest, Unit(seq, 1, len)) THEN <<>> ELSE rest

\* _find_tail_period: the copies that end phase units before the end, the rest
\* being the start of one more copy.
TailCopies(seq, len, phase) ==
    LET end == Len(seq) - phase
    IN Max({k \in 1 .. end \div len :
              \A j \in end - k * len + 1 .. end - len : seq[j] = seq[j + len]})

TailUnit(seq, len, phase) == Unit(seq, Len(seq) - phase - len + 1, len)

\* How much of the end the unit length covers, 0 when it does not qualify.
TailCover(seq, len) ==
    LET covers(phase) == TailCopies(seq, len, phase) * len + phase
        fits(phase) ==
           /\ SubSeq(seq, Len(seq) - phase + 1, Len(seq))
                 = SubSeq(TailUnit(seq, len, phase), 1, phase)
           /\ TailCopies(seq, len, phase)
                 >= Needed(TailUnit(seq, len, phase), MinTailRepeats, MinTailSingle)
           /\ 2 * covers(phase) >= Len(seq)
    IN Max({0} \cup {covers(p) : p \in {q \in 0 .. len - 1 : fits(q)}})

TailUnits(seq) ==
    IF Len(seq) < 4 \/ Len(seq) > MaxTailScan THEN {}
    ELSE {len \in 1 .. Min({Len(seq) \div Min({MinTailRepeats, MinLong}), MaxPeriodUnit}) :
            TailCover(seq, len) > 0}

KeepTail(seq, len) == SubSeq(seq, 1, Len(seq) - TailCover(seq, len) + len)

\* _find_interior_run: the run that covers most, the shortest unit first, the
\* leftmost first.
IsRun(seq, i, len) ==
    Copies(seq, i, len) >= Needed(Unit(seq, i, len), MinInterior, MinInteriorSingle)

\* Where it looks for a unit of a length: behind a run it has found it goes on.
LookedAt(seq, len) ==
    LET last == Len(seq) + 1 - len * Min({MinInterior, MinLong})
        look(scan, i) ==
           IF i < scan.next THEN scan
           ELSE [at   |-> scan.at \cup {i},
                 next |-> IF IsRun(seq, i, len) THEN i + Copies(seq, i, len) * len ELSE i + 1]
    IN FoldLeft(look, [at |-> {}, next |-> 1], [i \in 1 .. last |-> i]).at

InteriorRuns(seq) ==
    IF Len(seq) < 4 \/ Len(seq) > MaxTailScan THEN {}
    ELSE {r \in (1 .. Len(seq)) \X
                (1 .. Min({MaxInteriorUnit, Len(seq) \div Min({MinInterior, MinLong})})) :
            /\ r[1] + r[2] - 1 <= Len(seq)
            /\ r[1] \in LookedAt(seq, r[2]) /\ IsRun(seq, r[1], r[2])}

KeepInterior(seq) ==
    LET covers(r) == Copies(seq, r[1], r[2]) * r[2]
        best == CHOOSE r \in InteriorRuns(seq) : \A q \in InteriorRuns(seq) :
                   \/ covers(r) > covers(q)
                   \/ covers(r) = covers(q) /\ (r[2] < q[2] \/ (r[2] = q[2] /\ r[1] <= q[1]))
    IN SubSeq(seq, 1, best[1] + best[2] - 1)
          \o SubSeq(seq, best[1] + covers(best), Len(seq))

\* collapse_repetition
Collapse(seq, spaced) ==
    LET many   == IF spaced THEN MinSpaced ELSE MinMulti
        single == IF spaced THEN 0 ELSE MinSingle
        periods == PeriodUnits(seq, many, single)
        tail    == Least(TailUnits(seq))
    IN IF periods # {} THEN KeepPeriod(seq, Least(periods))
       ELSE IF TailUnits(seq) # {} /\ TailCover(seq, tail) < Len(seq) THEN KeepTail(seq, tail)
       ELSE IF InteriorRuns(seq) # {} THEN KeepInterior(seq)
       ELSE seq

\* collapse_segment_repeats: a run of segments that say the same is cut to its
\* first one when it is long enough for the length of its text.
CollapseSegments(texts, Long) ==
    LET run(i) == {j \in DOMAIN texts : \A k \in (i .. j) \cup (j .. i) : texts[k] = texts[i]}
        enough(i) == Cardinality(run(i)) >= IF texts[i] \in Long THEN MinMulti ELSE ShortRun
        kept == {i \in DOMAIN texts : enough(i) => i = Least(run(i))}
    IN [n \in 1 .. Cardinality(kept) |-> texts[SetToSortSeq(kept, <)[n]]]
=============================================================================
