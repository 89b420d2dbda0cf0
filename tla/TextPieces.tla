----------------------------- MODULE TextPieces -----------------------------
(***************************************************************************)
(* Text on its way to speech is cut into pieces a synthesizer can take:    *)
(*   sentences  conversation._SentenceBuffer, fed by the LLM's deltas      *)
(*   clauses    engine/tts_buffer.LowLatencyTTSBuffer, fed likewise        *)
(*   requests   trt_edge_llm_tts._split_tts_text, of a whole text          *)
(*   tokens     Kokoro's _split_stream_text, of a whole text               *)
(* A character is one of a few kinds, by the part it plays in the cutting: *)
(* "han" a CJK one; "letter" a Latin letter or a digit; "space"; "stop" a  *)
(* CJK full stop; "query" the question mark; "dot" a full stop; "colon".   *)
(* Brackets are left out.                                                  *)
(***************************************************************************)
EXTENDS Naturals, SequencesExt

CONSTANTS
    Char,                       \* the kinds in use
    MinSentence, MaxSentence,   \* min_chars, max_buffer of _SentenceBuffer
    MinClause, TargetClause, MaxClause,     \* the knobs of LowLatencyTTSBuffer
    MaxReq, AtomLimit, MinMerge,    \* max_chars, atom_limit, min_chars of _split_tts_text
    MaxTokens,                  \* max_tokens of _split_stream_text
    MaxDelta, MaxText           \* bounds: characters of a delta, of a text

VARIABLES
    cutter,     \* which of the four
    said,       \* history: the text there has been
    unread,     \* the part of a whole text the loop has not come to
    buf,        \* _buf of the buffers, current of the loop
    pieces,     \* what came out, in order
    mode        \* "idle", "emit" while add's generator runs, "scan", "pack", "done"

pieceVars == <<cutter, said, unread, buf, pieces, mode>>

Cutter == {"sentences", "clauses", "clauses, CJK", "requests", "tokens"}

Init ==
    /\ cutter \in Cutter
    /\ said = <<>> /\ unread = <<>> /\ buf = <<>> /\ pieces = <<>> /\ mode = "idle"

(***************************************************************************)
(* Characters and spaces.                                                  *)
(***************************************************************************)
HardBreak == {"stop", "query"}
AtomPunct == {"dot", "query", "colon"}      \* of ._:/?&=%+#-

\* The characters of the given kinds, in their order.
Only(s, kinds) ==
    LET only[n \in 0 .. Len(s)] ==
            IF n = 0 THEN <<>>
            ELSE IF s[n] \in kinds THEN Append(only[n - 1], s[n]) ELSE only[n - 1]
    IN only[Len(s)]

Visible(s) == Only(s, Char \ {"space"})

LStrip(s) ==
    LET first == SelectInSeq(s, LAMBDA c : c # "space")
    IN IF first = 0 THEN <<>> ELSE SubSeq(s, first, Len(s))

Strip(s) == LStrip(SubSeq(s, 1, SelectLastInSeq(s, LAMBDA c : c # "space")))

HasCjk(s) == Contains(s, "han")

\* text.split(): the words between the spaces.
NextWord(ws, c) ==
    IF c # "space" THEN Append(Front(ws), Append(Last(ws), c))
    ELSE IF Last(ws) = <<>> THEN ws ELSE Append(ws, <<>>)

Words(s) ==
    LET ws == FoldLeft(NextWord, <<<<>>>>, s)
    IN IF Last(ws) = <<>> THEN Front(ws) ELSE ws

\* " ".join
Joined(ws) == IF ws = <<>> THEN <<>> ELSE Tail(FlattenSeq([i \in DOMAIN ws |-> <<"space">> \o ws[i]]))

(***************************************************************************)
(* The buffers.  A cut is a position in the buffer, 0 for none yet.        *)
(***************************************************************************)
\* _SentenceBuffer._extract: the first sentence end with enough before it.
SentenceCut(b) ==
    LET Ends(i) == \/ b[i] = "stop" /\ (i = Len(b) \/ b[i + 1] # "stop")
                   \/ b[i] \in {"query", "dot"} /\ (i = Len(b) \/ b[i + 1] = "space")
        ends == {i \in DOMAIN b : Ends(i) /\ Len(Strip(SubSeq(b, 1, i))) >= MinSentence}
    IN IF ends # {} THEN Min(ends) ELSE IF Len(b) >= MaxSentence THEN Len(b) ELSE 0

\* _choose_length_cut: at a comma or a space if one is far enough.
LengthCut(b, cjk) ==
    LET limit == IF Len(b) < MaxClause THEN Len(b) ELSE MaxClause
        mark  == IF cjk THEN "colon" ELSE "space"
        at    == SelectLastInSubSeq(b, 1, limit, LAMBDA c : c = mark)
    IN IF at >= MinClause THEN at
       ELSE IF cjk THEN limit
       ELSE IF Len(b) < TargetClause THEN Len(b) ELSE TargetClause

\* _next_chunk: the first full stop, else the last comma, else by length.
ClauseCut(b) ==
    LET cjk  == cutter = "clauses, CJK" \/ HasCjk(b)
        hard == SelectInSeq(b, LAMBDA c : c \in HardBreak)
        soft == SelectLastInSeq(b, LAMBDA c : c = "colon")
        seen == Len(Strip(b))
    IN CASE hard > 0 /\ Len(Strip(SubSeq(b, 1, hard))) >= 2 -> hard
         [] OTHER ->
            IF soft > 0 /\ Len(Strip(SubSeq(b, 1, soft))) >= MinClause THEN soft
            ELSE IF soft > 0 /\ seen >= TargetClause THEN Len(b)
            ELSE IF seen >= (IF cjk THEN MaxClause ELSE TargetClause) THEN LengthCut(b, cjk)
            ELSE 0

Streams == cutter \in {"sentences", "clauses", "clauses, CJK"}

\* add: the delta joins the buffer and its generator starts.
Feed ==
    /\ Streams /\ mode = "idle"
    /\ \E n \in 1 .. MaxDelta : \E delta \in [1 .. n -> Char] :
          /\ Len(said) + n <= MaxText
          /\ said' = said \o delta /\ buf' = buf \o delta
    /\ mode' = "emit"
    /\ UNCHANGED <<cutter, unread, pieces>>

Emitted(piece) == IF piece = <<>> THEN pieces ELSE Append(pieces, piece)

\* The clause buffer drops the spaces in front of what it keeps.
Kept(b) == IF cutter = "sentences" THEN b ELSE LStrip(b)

\* One turn of the generator: a piece, or the end of what can be emitted.
Emit ==
    /\ mode = "emit"
    /\ LET b   == Kept(buf)
           cut == IF b = <<>> THEN 0 ELSE IF cutter = "sentences" THEN SentenceCut(b) ELSE ClauseCut(b)
       IN /\ buf' = Kept(SubSeq(b, cut + 1, Len(b)))
          /\ pieces' = Emitted(Strip(SubSeq(b, 1, cut)))
          /\ mode' = IF cut = 0 THEN "idle" ELSE "emit"
    /\ UNCHANGED <<cutter, said, unread>>

\* flush: the rest is the last piece.
Flush ==
    /\ Streams /\ mode = "idle"
    /\ pieces' = Emitted(Strip(buf)) /\ buf' = <<>> /\ mode' = "done"
    /\ UNCHANGED <<cutter, said, unread>>

(***************************************************************************)
(* _split_tts_text.                                                        *)
(***************************************************************************)
Receive ==
    /\ cutter = "requests" /\ mode = "idle"
    /\ \E n \in 1 .. MaxText : \E text \in [1 .. n -> Char] :
          /\ said' = IF HasCjk(text) THEN Strip(text) ELSE Joined(Words(text))
          /\ unread' = said'
    /\ mode' = "scan"
    /\ UNCHANGED <<cutter, buf, pieces>>

\* continues_latin_atom: a letter behind, and ahead one after punctuation at most.
ContinuesAtom(b, ahead) ==
    LET next == SelectInSeq(ahead, LAMBDA c : c \notin AtomPunct)
    IN b # <<>> /\ Last(b) = "letter" /\ next > 0 /\ ahead[next] = "letter"

AtomPrefix(b) == SubSeq(b, 1, SelectLastInSeq(b, LAMBDA c : c \notin AtomPunct))

\* The request a run of characters makes: spaces around a Latin word within
\* CJK text stay.
Part(b) == IF HasCjk(b) /\ Contains(b, "letter") THEN b ELSE Strip(b)

FlushCurrent(b) == buf' = <<>> /\ pieces' = Emitted(Part(b))

\* Mutant of MayGrow: an atom is kept whole whatever its length.
InsideAtom(b, ahead) ==
    ContinuesAtom(b, ahead) \/ (Last(b) \in AtomPunct /\ ContinuesAtom(AtomPrefix(b), ahead))

\* A request may be too long in order to keep an atom whole, within limits.
MayGrow(b, ahead) == Len(b) < AtomLimit /\ InsideAtom(b, ahead)

\* The request is long enough: go on within an atom, cut at a comma, or flush.
AtLimit(b, ahead) ==
    LET cut == SelectLastInSeq(b, LAMBDA c : c = "colon")
        InAtom == /\ 1 < cut /\ cut < Len(b)
                  /\ ContinuesAtom(SubSeq(b, 1, cut - 1), SubSeq(b, cut + 1, Len(b)))
    IN IF MayGrow(b, ahead)
       THEN buf' = b /\ UNCHANGED pieces
       ELSE IF cut > MaxReq \div 3 /\ ~InAtom
       THEN /\ buf' = LStrip(SubSeq(b, cut + 1, Len(b)))
            /\ pieces' = Emitted(Strip(SubSeq(b, 1, cut)))
       ELSE FlushCurrent(b)

\* One character of the loop.
Scan ==
    /\ mode = "scan" /\ unread # <<>>
    /\ unread' = Tail(unread)
    /\ LET c == Head(unread)
           b == Append(buf, c)
       IN IF c \in HardBreak
          THEN IF c = "query" /\ ContinuesAtom(AtomPrefix(buf), unread')
               THEN buf' = b /\ UNCHANGED pieces ELSE FlushCurrent(b)
          ELSE IF Len(Strip(b)) >= MaxReq THEN AtLimit(b, unread')
          ELSE buf' = b /\ UNCHANGED pieces
    /\ UNCHANGED <<cutter, said, mode>>

ScanEnds ==
    /\ mode = "scan" /\ unread = <<>>
    /\ FlushCurrent(buf) /\ mode' = "pack"
    /\ UNCHANGED <<cutter, said, unread>>

\* Words are put together as long as the limit allows; what ends a request
\* that is not the last keeps the space behind it.
PackWord(ps, w) ==
    IF Len(Last(ps)) > 0 /\ Len(Last(ps)) + 1 + Len(w) > MaxReq
    THEN Append(Append(Front(ps), Append(Last(ps), "space")), w)
    ELSE Append(Front(ps), IF Last(ps) = <<>> THEN w ELSE Last(ps) \o <<"space">> \o w)

Packed(part) == FoldLeft(PackWord, <<<<>>>>, Words(part))

\* Punctuation by itself, and a short part, join the request before them.
MergePart(ms, p) ==
    IF ms = <<>> THEN <<p>>
    ELSE LET sep == IF HasCjk(p \o Last(ms)) THEN <<>> ELSE <<"space">>
         IN IF ToSet(p) \subseteq HardBreak \cup {"colon"}
            THEN Append(Front(ms), Last(ms) \o p)
            ELSE IF Len(p) < MinMerge /\ Len(Last(ms)) + Len(sep) + Len(p) <= MaxReq
            THEN Append(Front(ms), Last(ms) \o sep \o p)
            ELSE Append(ms, p)

Merged(parts) == FoldLeft(MergePart, <<>>, parts)

Pack ==
    /\ mode = "pack"
    /\ LET packed == IF HasCjk(said) THEN pieces
                     ELSE FlattenSeq([i \in DOMAIN pieces |->
                             IF Len(pieces[i]) <= MaxReq THEN <<pieces[i]>> ELSE Packed(pieces[i])])
       IN pieces' = Merged(packed)
    /\ mode' = "done"
    /\ UNCHANGED <<cutter, said, unread, buf>>

(***************************************************************************)
(* Kokoro: a character of a word is a token.                               *)
(***************************************************************************)
\* _split_long_word
LongWord(w) ==
    [i \in 1 .. (Len(w) + MaxTokens - 1) \div MaxTokens |->
        SubSeq(w, (i - 1) * MaxTokens + 1, IF i * MaxTokens < Len(w) THEN i * MaxTokens ELSE Len(w))]

\* _split_text_by_token_count: done, and the words that wait (current_words).
TakeWord(acc, w) ==
    LET full == acc.words # <<>> /\ Len(Visible(acc.words)) + Len(w) > MaxTokens
        done == IF full THEN Append(acc.done, acc.words) ELSE acc.done
        now  == IF full \/ acc.words = <<>> THEN w ELSE acc.words \o <<"space">> \o w
    IN IF Len(Visible(now)) > MaxTokens THEN [done |-> done \o LongWord(now), words |-> <<>>]
       ELSE [done |-> done, words |-> now]

TakeWords(ws) == FoldLeft(TakeWord, [done |-> <<>>, words |-> <<>>], ws)

ByTokens(part) ==
    LET all == TakeWords(Words(part))
    IN IF Len(Visible(part)) <= MaxTokens THEN <<part>>
       ELSE IF all.words = <<>> THEN all.done ELSE Append(all.done, all.words)

\* The parts end where a space follows a full stop, a colon or the like.
NextPart(ps, w) ==
    IF Last(ps) # <<>> /\ Last(Last(ps)) \in {"dot", "query", "colon"} THEN Append(ps, w)
    ELSE Append(Front(ps), IF Last(ps) = <<>> THEN w ELSE Last(ps) \o <<"space">> \o w)

Parts(text) == FoldLeft(NextPart, <<<<>>>>, Words(text))

SplitStreamText ==
    /\ cutter = "tokens" /\ mode = "idle"
    /\ \E n \in 1 .. MaxText : \E text \in [1 .. n -> Char] :
          /\ said' = Joined(Words(text))
          /\ pieces' = IF said' = <<>> THEN <<>>
                       ELSE FlattenSeq([i \in DOMAIN Parts(said') |-> ByTokens(Parts(said')[i])])
    /\ mode' = "done"
    /\ UNCHANGED <<cutter, unread, buf>>

Next == Feed \/ Emit \/ Flush \/ Receive \/ Scan \/ ScanEnds \/ Pack \/ SplitStreamText

Spec == Init /\ [][Next]_pieceVars

(***************************************************************************)
(* Properties.                                                             *)
(***************************************************************************)
\* Whatever the deltas and wherever the cuts fall, the pieces, then what is
\* kept, then what is not read yet, are the text that was said: no character is
\* lost, repeated or moved.  Only spaces may go.
NothingLost == Visible(FlattenSeq(pieces) \o buf \o unread) = Visible(said)

\* No buffer holds back a text of its longest length, so that no piece is longer
\* than that and a delta; a piece for Kokoro has at most MaxTokens tokens.  The
\* words and numbers of a request, its CJK characters, letters and full stops, are
\* at most AtomLimit.  The rest of a request has no limit: the loop takes a run of
\* question marks within an atom before it looks at any, parts of nothing but
\* punctuation join the request before them, and spaces count only once something
\* follows.
PiecesFit ==
    /\ (Streams /\ mode = "idle") =>
          Len(Strip(buf)) < IF cutter = "sentences" THEN MaxSentence ELSE MaxClause
    /\ \A i \in DOMAIN pieces :
          LET p == pieces[i]
          IN CASE cutter = "sentences" -> Len(p) < MaxSentence + MaxDelta
               [] cutter = "requests" ->
                    Len(Only(p, {"han", "letter", "dot"})) <= AtomLimit
               [] cutter = "tokens" -> Len(Visible(p)) <= MaxTokens
               [] OTHER -> Len(Visible(p)) < MaxClause + MaxDelta

\* Both: the pieces are the text, and what is counted of each is within its limit.
PiecesAreText == NothingLost /\ PiecesFit
=============================================================================
