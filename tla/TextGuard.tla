----------------------------- MODULE TextGuard ------------------------------
(***************************************************************************)
(* A decoder that emits one unit after the other, and the common exit of   *)
(* every text of the TRT Edge-LLM ASR backend (_postprocess_text), which   *)
(* puts each partial and final through the guard of Degeneration.          *)
(***************************************************************************)
EXTENDS Degeneration

CONSTANTS Symbol,       \* the units there are
          MaxUnits      \* bound: units of a text

VARIABLES spaced,       \* the text has spaces: its units are words
          units,        \* what the decoder has emitted
          shown         \* what the guard lets through

guardVars == <<spaced, units, shown>>

Init == spaced \in BOOLEAN /\ units = <<>> /\ shown = <<>>

Postprocess(text) == Collapse(text, spaced)

Decode ==
    /\ Len(units) < MaxUnits
    /\ \E u \in Symbol : units' = Append(units, u)
    /\ shown' = Postprocess(units')
    /\ UNCHANGED spaced

Next == Decode

Spec == Init /\ [][Next]_guardVars

\* seq is left, the unit of length len repeated k times from i, one more copy
\* of which may be cut short by the end, and right.
Repeats(seq, i, len, k) ==
    /\ i + k * len - 1 <= Len(seq)
    /\ \A j \in i .. i + (k - 1) * len - 1 : seq[j] = seq[j + len]

\* Whatever the decoder emits, the guard drops nothing but copies: what it
\* shows is the text with one run of at least three equal neighbours (of two
\* and a started third for a long unit) cut to its first copy, and a started
\* copy is dropped only at the very end.  Speech before the run, after it, and
\* a thing said twice stay word for word.
OnlyCopiesGo ==
    shown # units =>
        \E i \in 1 .. Len(units), len \in 1 .. Len(units), k \in 2 .. Len(units) :
           /\ Repeats(units, i, len, k)
           /\ LET before == SubSeq(units, 1, i + len - 1)
                  after  == SubSeq(units, i + k * len, Len(units))
                  started == after # <<>> /\ IsStrictPrefix(after, Unit(units, i, len))
              IN \/ k >= 3 /\ shown = before \o after
                 \/ (k >= 3 \/ len >= LongUnit) /\ started /\ shown = before
=============================================================================
