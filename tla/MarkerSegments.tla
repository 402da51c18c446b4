----------------------------- MODULE MarkerSegments -----------------------------
(* MarkerWhisperTranscriber (stt_service/service/whisper_marker_transcriber.py): the
   speech of a recording is cut into spans, the spans are packed into chunks with a
   spoken marker between them, a chunk is decoded as a whole, and the marker's words in
   the text say which words belong to which span. What a decoder hears is external:
   any text. Markers are heard approximately, twice or not at all, so the text is
   divided where a cost is least; a text that cannot be divided is decoded again with
   Gipformer, and then span by span.

   A token is a word. Lengths are in seconds, costs in thousandths, rounded down.     *)
EXTENDS Integers, SequencesExt, FiniteSetsExt

CONSTANTS Marker,       \* normalize_tokens(MARKER_TEXT)
          Blacklist,    \* HALLUCINATION_BLACKLIST, normalized
          Enders,       \* words that end a sentence
          MaxPacked,    \* MAX_PACKED_S
          Bridge,       \* length of the marker and its guards
          Recordings,   \* lists of the lengths of a recording's spans
          Texts,        \* bound: what a decoder may hear of a chunk
          MaxSegments   \* bound: Whisper's own segments of a chunk

VARIABLES spans,        \* lengths of the recording's spans
          packed,       \* chunks still to be transcribed, each a list of span numbers
          stage,        \* where iter_segments is with the first of them
          heard,        \* the last decode: its tokens, and Whisper's segment boundaries
          slots,        \* what each span of the chunk is given
          yielded       \* spans of the segments yielded, in that order
markerVars == <<spans, packed, stage, heard, slots, yielded>>

Positions(s) == 0..Len(s)                       \* a position has as many tokens before it
Window(s, from, to) == SubSeq(s, from + 1, to)
--------------------------------------------------------------------------------
(* Packing *)

Length(chunk) == FoldLeft(LAMBDA n, id : n + spans[id], Bridge * (Len(chunk) - 1), chunk)

\* pack_speech_with_marker: a span joins the last chunk if it fits behind a bridge.
PackSpeech ==
  FoldLeft(LAMBDA chunks, id :
             IF chunks # <<>> /\ Length(Last(chunks)) + Bridge + spans[id] <= MaxPacked
             THEN [chunks EXCEPT ![Len(chunks)] = Append(@, id)]
             ELSE Append(chunks, <<id>>),
           <<>>, [i \in DOMAIN spans |-> i])
--------------------------------------------------------------------------------
(* Finding the markers *)

Differs(s, t, i, j) == IF s[i] = t[j] THEN 0 ELSE 1

\* token_edit_distance and the table of aligned_marker_indexes: costs[i, j] is the
\* distance of the first i tokens of s from the first j of t.
Costs(s, t) ==
  LET costs[i \in Positions(s), j \in Positions(t)] ==
        IF i = 0 \/ j = 0 THEN i + j
        ELSE Min({costs[i - 1, j] + 1, costs[i, j - 1] + 1, costs[i - 1, j - 1] + Differs(s, t, i, j)})
  IN costs

\* aligned_marker_indexes: the tokens of s that stand for one of t's on the way back
\* through the table, which goes along the diagonal where it can.
Aligned(s, t) ==
  LET costs == Costs(s, t)
      back[i \in Positions(s), j \in Positions(t)] ==
        IF i + j = 0 THEN {}
        ELSE IF i > 0 /\ j > 0 /\ costs[i, j] = costs[i - 1, j - 1] + Differs(s, t, i, j) THEN {i} \cup back[i - 1, j - 1]
        ELSE IF i > 0 /\ costs[i, j] = costs[i - 1, j] + 1 THEN back[i - 1, j]
        ELSE back[i, j - 1]
  IN back[Len(s), Len(t)]

\* marker_matches
Matches(tokens) ==
  LET n == Len(Marker)
      windows == {w \in Positions(tokens) \X (n - 1 .. n + 1) : w[1] + w[2] <= Len(tokens)}
      at(w) == Window(tokens, w[1], w[1] + w[2])
      distance(w) == Costs(at(w), Marker)[w[2], n]
      match(w) == LET aligned == Aligned(at(w), Marker) IN
                  [start |-> w[1] + Min(aligned) - 1, end |-> w[1] + Max(aligned), exact |-> at(w) = Marker]
  IN {match(w) : w \in {v \in windows : distance(v) <= 1}}

\* The first of the matches; of those that start there an exact one, then the longest.
Earliest(matches) ==                                        \* mutant: the first to end, exact or not
  CHOOSE m \in matches : \A o \in matches : m.start <= o.start /\ (o.start = m.start => m.end <= o.end)
BestMatch(matches) ==
  CHOOSE m \in matches :
    \A o \in matches : /\ m.start <= o.start
                       /\ o.start = m.start => \/ m.exact /\ ~o.exact
                                               \/ m.exact = o.exact /\ m.end >= o.end

\* select_marker_matches: from left to right, without overlaps.
SelectedMatches(tokens) ==
  LET matches == Matches(tokens)
      select[cursor \in Positions(tokens)] ==
        LET available == {m \in matches : m.start >= cursor} IN
          IF available = {} THEN {} ELSE {BestMatch(available)} \cup select[BestMatch(available).end]
  IN select[0]

\* The tokens but those in `removed`, and where a position is after their removal.
Kept(tokens, removed) ==
  FoldLeftDomain(LAMBDA kept, i : IF i \in removed THEN kept ELSE Append(kept, tokens[i]), <<>>, tokens)
Moved(position, removed) == Cardinality((1..position) \ removed)

\* filter_whisper_hallucinations
WithoutHallucinations(text) ==
  LET spam == UNION {(i + 1)..(i + Len(p)) : <<i, p>> \in
                       {x \in Positions(text.tokens) \X Blacklist : IsPrefix(x[2], Window(text.tokens, x[1], Len(text.tokens)))}}
      rest == Kept(text.tokens, spam)
  IN [tokens |-> rest, boundaries |-> {Moved(b, spam) : b \in text.boundaries} \cap 1..(Len(rest) - 1)]
--------------------------------------------------------------------------------
(* Dividing a text among the spans of its chunk *)

\* What it costs to cut at a position: least at a marker, then where Whisper or the
\* sentence ends, and much anywhere else.
CutCost(reading, position) ==
  IF position \in reading.hints THEN -20000
  ELSE IF position \in reading.boundaries THEN -3000
  ELSE IF position > 0 /\ reading.tokens[position] \in Enders THEN -1500
  ELSE 50000

\* What it costs to give a span so many of n tokens: the square of the distance from
\* its share of the time, over the larger of 1.5 squared and that share.
ShareCost(lengths, i, actual, n) ==
  LET total == FoldLeft(+, 0, lengths)
      target == n * lengths[i]                         \* times total
      away == actual * total - target
  IN (4000 * away * away) \div (total * Max({9 * total, 4 * target}))
     + (IF actual = 0 /\ target >= total THEN 3000 ELSE 0)

\* estimate_boundaries keeps, span by span, the cheapest way to each position.
Forgetful(way, cost) == [cost |-> cost, cuts |-> way.cuts]   \* mutant: what led here is not counted
Onward(way, cost) == [cost |-> way.cost + cost, cuts |-> way.cuts]
EstimateBoundaries(reading, lengths) ==
  LET n == Len(reading.tokens)
      k == Len(lengths)
      step(ways, i) ==
        [end \in IF i = k THEN {n} ELSE 0..n |->
           LET from == [start \in {s \in DOMAIN ways : s <= end} |->
                          Onward(ways[start], ShareCost(lengths, i, end - start, n) + IF i = k THEN 0 ELSE CutCost(reading, end))]
               least == Min({from[s].cost : s \in DOMAIN from})
               best == Min({s \in DOMAIN from : from[s].cost = least})
           IN IF i = k THEN from[best] ELSE [from[best] EXCEPT !.cuts = Append(@, end)]]
  IN FoldLeft(step, [start \in {0} |-> [cost |-> 0, cuts |-> <<>>]], [i \in 1..k |-> i])[n].cuts

\* partition_tokens: the text without its markers, where they were, and Whisper's own
\* boundaries in it; each span is given the words between two cuts.
Run(m) == (m.start + 1)..m.end
Reading(text, matches) ==
  LET removed == UNION {Run(m) : m \in matches}
  IN [tokens |-> Kept(text.tokens, removed),
      hints |-> {Moved(m.start, removed) : m \in matches},
      boundaries |-> {Moved(b, removed) : b \in text.boundaries \cap 1..(Len(text.tokens) - 1)}]

Lengths(chunk) == [i \in DOMAIN chunk |-> spans[chunk[i]]]
PartitionTokens(reading, chunk) ==
  LET cuts == <<0>> \o EstimateBoundaries(reading, Lengths(chunk)) \o <<Len(reading.tokens)>>
  IN [i \in DOMAIN chunk |-> Window(reading.tokens, cuts[i], cuts[i + 1])]

\* resolved_slots: no slots for an empty text, or one of markers only.
Usable(given) == \E i \in DOMAIN given : given[i] # <<>>
--------------------------------------------------------------------------------
(* prepare_audio and iter_segments *)

Nothing == [tokens |-> <<>>, boundaries |-> {}]

Init == /\ spans \in Recordings /\ packed = <<>> /\ stage = "prepare"
        /\ heard = Nothing /\ slots = <<>> /\ yielded = <<>>

Chunk == Head(packed)
Begin(chunks) == stage' = IF chunks = <<>> THEN "over" ELSE "whisper"

PrepareAudio ==
  /\ stage = "prepare"
  /\ packed' = PackSpeech /\ Begin(packed')
  /\ UNCHANGED <<spans, heard, slots, yielded>>

\* The text is divided, or the chunk is left to the next decoder.
Resolve(text, otherwise) ==
  \E matches \in {SelectedMatches(text.tokens)} : \E reading \in {Reading(text, matches)} :
  \E given \in {PartitionTokens(reading, Chunk)} :
    IF text.tokens # <<>> /\ Usable(given)
    THEN heard' = text /\ slots' = given /\ stage' = "yield"
    ELSE heard' = Nothing /\ slots' = <<>> /\ stage' = otherwise

TranscribeWithWhisper ==
  /\ stage = "whisper"
  /\ \E tokens \in Texts : \E boundaries \in SUBSET (1..(Len(tokens) - 1)) :
       /\ Cardinality(boundaries) < MaxSegments
       /\ \E text \in {WithoutHallucinations([tokens |-> tokens, boundaries |-> boundaries])} : Resolve(text, "gipformer")
  /\ UNCHANGED <<spans, packed, yielded>>

TranscribeWithGipformer ==
  /\ stage = "gipformer"
  /\ \E tokens \in Texts : Resolve([tokens |-> tokens, boundaries |-> {}], "children")
  /\ UNCHANGED <<spans, packed, yielded>>

\* The last resort: each span by itself, where no marker can be.
TranscribeChildrenWithGipformer ==
  /\ stage = "children"
  /\ slots' \in [DOMAIN Chunk -> {t \in Texts : Len(t) <= 1}] /\ stage' = "yield"
  /\ UNCHANGED <<spans, packed, heard, yielded>>

\* The spans that were given words are yielded in their order.
YieldSegments ==
  /\ stage = "yield"
  /\ yielded' = yielded \o SelectSeq(Chunk, LAMBDA id : \E i \in DOMAIN Chunk : Chunk[i] = id /\ slots[i] # <<>>)
  /\ packed' = Tail(packed) /\ Begin(packed')
  /\ heard' = Nothing /\ slots' = <<>>
  /\ UNCHANGED spans

Next == \/ PrepareAudio \/ TranscribeWithWhisper \/ TranscribeWithGipformer
        \/ TranscribeChildrenWithGipformer \/ YieldSegments
Spec == Init /\ [][Next]_markerVars
--------------------------------------------------------------------------------
(* Properties *)

Divided == stage = "yield" /\ heard # Nothing

\* A run of words that is the marker but for one word more, less or other.
AlmostMarker(s) ==
  \/ Len(s) = Len(Marker) /\ Cardinality({i \in DOMAIN s : s[i] # Marker[i]}) <= 1
  \/ \E i \in DOMAIN s : RemoveAt(s, i) = Marker
  \/ \E i \in DOMAIN Marker : RemoveAt(Marker, i) = s

\* A marker that was heard is never given to a speaker, and no more than it is taken
\* from one: each match is the marker but for one word, and does not start or end with
\* a word in excess. The other words of the text are given away whole and in order.
MarkersAreRemoved ==
  Divided =>
    LET tokens == heard.tokens
        matches == SelectedMatches(tokens) IN
    /\ \A i \in 0..(Len(tokens) - Len(Marker)) :
         Window(tokens, i, i + Len(Marker)) = Marker => (i + 1)..(i + Len(Marker)) \subseteq UNION {Run(m) : m \in matches}
    /\ \A m \in matches :
         LET s == Window(tokens, m.start, m.end) IN AlmostMarker(s) /\ Tail(s) # Marker /\ Front(s) # Marker
    /\ FlattenSeq(slots) = Reading(heard, matches).tokens

\* The cuts are a cheapest of all the ways to divide the text in order, whichever
\* candidates the search gave up on its way (reference: all ways are compared).
Cuts == [i \in 1..(Len(slots) - 1) |-> FoldLeft(LAMBDA n, j : n + Len(slots[j]), 0, [j \in 1..i |-> j])]
CostOf(cuts, reading, lengths) ==
  LET n == Len(reading.tokens)
      k == Len(lengths)
      ends == <<0>> \o cuts \o <<n>>
  IN FoldLeft(LAMBDA c, i : c + ShareCost(lengths, i, ends[i + 1] - ends[i], n) + IF i = k THEN 0 ELSE CutCost(reading, ends[i + 1]),
              0, [i \in 1..k |-> i])
CutsAreCheapest ==
  Divided =>
    LET reading == Reading(heard, SelectedMatches(heard.tokens))
        lengths == Lengths(Chunk)
        least == CostOf(Cuts, reading, lengths)
    IN \A way \in [1..(Len(lengths) - 1) -> 0..Len(reading.tokens)] :
         (\A i \in 2..(Len(lengths) - 1) : way[i - 1] <= way[i]) => least <= CostOf(way, reading, lengths)

\* What the markers are for: when every bridge of a chunk was heard, the text is cut at
\* all of them. The code breaks it for three spans and more.
MarkersDivide ==
  Divided =>
    LET matches == SelectedMatches(heard.tokens) IN
      Cardinality(matches) = Len(Chunk) - 1 /\ (\A m \in matches : m.exact)
        => Reading(heard, matches).hints = Range(Cuts)
================================================================================
