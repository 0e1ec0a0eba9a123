----------------------------- MODULE Attribution -----------------------------
(***************************************************************************)
(* Which unit said which word (internal/transcribe/units.go): each word of *)
(* a transcription goes to the transmission it starts in, a blip right     *)
(* before another unit's transmission goes to that unit, the words of a    *)
(* speaker's segment stay together where it merely brushes a transmission, *)
(* and words in a row of one unit make a segment of the text.              *)
(*                                                                         *)
(* Times are in units of 50 ms.  A word is a token; the text is a sequence *)
(* of tokens, in which a word may be missing.                              *)
(***************************************************************************)
EXTENDS Integers, Sequences, FiniteSetsExt, SequencesExt

CONSTANTS
  SrcLists,     \* the calls' lists of units: [src, pos]
  Duration,     \* how long the calls are
  Words,        \* the words: [token, start, end, utterance]
  Texts         \* the full texts, <<>> if there is none

SilenceGap == 6                    \* 0.3 s between transmissions
BriefTolerance == 10               \* 0.5 s before a transmission's end
BriefWordThreshold == 1            \* 0.05 s
ClusterGap == 3                    \* 0.15 s between the words of a cluster
MinOverlap == 10                   \* 0.5 s

VARIABLES
  txs, input, text,                \* what came in: transmissions, words, text
  src,                             \* the unit of each word, so far
  i,                               \* the gap between words that is looked at
  segments,                        \* [src, text]
  pc

vars == <<txs, input, text, src, i, segments, pc>>
Index == DOMAIN input

TypeOK ==
  /\ pc = "idle" \/ (input \in Words /\ text \in Texts)
  /\ src \in [Index -> {0} \cup {txs[n].src : n \in DOMAIN txs}] /\ i \in Nat
  /\ pc \in {"idle", "attribute", "boundary", "snap", "segments", "done"}

Init ==
  /\ txs = <<>> /\ input = <<>> /\ text = <<>>
  /\ src = <<>> /\ i = 1 /\ segments = <<>> /\ pc = "idle"

-----------------------------------------------------------------------------
(* A transmission lasts until the next one in the list.                    *)

ParseSrcList(srcList) ==
  LET upTo(n) == (IF n < Len(srcList) THEN srcList[n + 1].pos ELSE Duration) - srcList[n].pos
  IN [n \in DOMAIN srcList |->
        [src |-> srcList[n].src, pos |-> srcList[n].pos,
         duration |-> IF upTo(n) < 0 THEN 0 ELSE upTo(n)]]

Receive ==
  /\ pc = "idle" /\ pc' = "attribute"
  /\ \E srcList \in SrcLists : txs' = ParseSrcList(srcList)
  /\ input' \in Words /\ text' \in Texts
  /\ src' = [k \in DOMAIN input' |-> 0]
  /\ UNCHANGED <<i, segments>>

TxEnd(tx) == tx.pos + tx.duration
FirstOf(S) == CHOOSE n \in S : \A m \in S : n <= m
Distance(a, b) == IF a > b THEN a - b ELSE b - a

\* The transmissions that contain a time: the first one counts.
FindContainingTx(t) == {n \in DOMAIN txs : txs[n].pos <= t /\ t < TxEnd(txs[n])}

\* No transmission contains it: the one whose start is nearest.
Nearest(t) ==
  {n \in DOMAIN txs : \A m \in DOMAIN txs : Distance(t, txs[n].pos) <= Distance(t, txs[m].pos)}

FindTransmission(t) ==
  LET within == FindContainingTx(t)
  IN IF txs = <<>> THEN 0 ELSE txs[FirstOf(IF within # {} THEN within ELSE Nearest(t))].src

AttributeWords ==
  /\ pc = "attribute"
  /\ src' = [k \in Index |-> FindTransmission(input[k].start)]
  /\ pc' = IF Len(txs) < 2 \/ Len(input) < 2 THEN "snap" ELSE "boundary"
  /\ UNCHANGED <<txs, input, text, i, segments>>

-----------------------------------------------------------------------------
(* fixBoundaryWords: from a silence back, the brief words before it.       *)

NearTheEnd(k) ==
  LET tx == FindContainingTx(input[k].start)
  IN tx # {} /\ TxEnd(txs[FirstOf(tx)]) - input[k].start <= BriefTolerance

\* A slip: a word of any length near the end of its transmission.
IsAnyWord(k) == NearTheEnd(k)

Brief(k) == input[k].end - input[k].start < BriefWordThreshold
IsArtifact(k) == NearTheEnd(k) /\ Brief(k)

\* Word k goes to the unit after gap g if every word between does.
Reassigned(g) ==
  {j \in 1 .. g :
     \A k \in j .. g : /\ src[k] # src[g + 1]
                       /\ IsArtifact(k)
                       /\ k < g => input[k + 1].start - input[k].end <= ClusterGap}

FixBoundaryWords ==
  /\ pc = "boundary"
  /\ src' = IF input[i + 1].start - input[i].end < SilenceGap THEN src
            ELSE LET moved == Reassigned(i)
                 IN [k \in Index |-> IF k \in moved THEN src[i + 1] ELSE src[k]]
  /\ IF i + 1 < Len(input) THEN i' = i + 1 /\ UNCHANGED pc ELSE pc' = "snap" /\ UNCHANGED i
  /\ UNCHANGED <<txs, input, text, segments>>

-----------------------------------------------------------------------------
(* snapUtterances: the words a diarizer gave to one speaker.               *)

SameUtterance(k) ==
  {j \in Index : \A m \in (IF j < k THEN j .. k ELSE k .. j) :
                    input[m].utterance = input[k].utterance}

\* How long a transmission overlaps the utterance of word k.
OverlapTx(k, tx) ==
  LET us == SameUtterance(k)
      from == input[FirstOf(us)].start
      to == input[Max(us)].end
      o == (IF to < TxEnd(tx) THEN to ELSE TxEnd(tx)) - (IF from > tx.pos THEN from ELSE tx.pos)
  IN IF o < 0 THEN 0 ELSE o

\* What the first n transmissions of a unit overlap.
Overlap(k, s, n) ==
  MapThenSumSet(LAMBDA m : OverlapTx(k, txs[m]), {m \in 1 .. n : txs[m].src = s})

\* A unit's transmissions overlap the utterance of word k too little to keep its words.
Brushes(k, s) == input[k].utterance # 0 /\ Overlap(k, s, Len(txs)) < MinOverlap

\* The unit that overlaps it most; of two that do, the one that did first.  The word
\* keeps its unit if there is none.
Best(k) ==
  LET reached == [m \in DOMAIN txs |-> Overlap(k, txs[m].src, m)]
      top == {m \in DOMAIN txs : reached[m] > 0 /\ \A l \in DOMAIN txs : reached[m] >= reached[l]}
  IN IF top = {} THEN src[k] ELSE txs[FirstOf(top)].src

SnapUtterances ==
  /\ pc = "snap"
  /\ src' = [k \in Index |-> IF Brushes(k, src[k]) THEN Best(k) ELSE src[k]]
  /\ pc' = "segments"
  /\ UNCHANGED <<txs, input, text, i, segments>>

-----------------------------------------------------------------------------
(* buildSegments: the text is cut where the unit changes.                  *)

\* mapWordPositions: each word is looked for behind the one before; one that is not
\* found stays there.
Found(k, from) == {p \in from .. Len(text) : text[p] = input[k].token}
Place(k, from) == IF Found(k, from) = {} THEN from ELSE FirstOf(Found(k, from))
Behind(k, from) == IF Found(k, from) = {} THEN from ELSE FirstOf(Found(k, from)) + 1

MapWordPositions ==
  LET searchFrom[k \in 0 .. Len(input)] == IF k = 0 THEN 1 ELSE Behind(k, searchFrom[k - 1])
  IN [k \in Index |-> Place(k, searchFrom[k - 1])]

\* buildSegmentsFallback: without a full text, the words are.
Tokens == [k \in Index |-> input[k].token]

Starts == {k \in Index : k = 1 \/ src[k] # src[k - 1]}
StartOf(n) == CHOOSE k \in Starts : Cardinality({j \in Starts : j <= k}) = n

BuildSegments ==
  /\ pc = "segments" /\ pc' = "done"
  /\ segments' =
       LET many == Cardinality(Starts)
           at == MapWordPositions
           last(n) == IF n < many THEN StartOf(n + 1) - 1 ELSE Len(input)
           end(n) == IF n < many THEN at[StartOf(n + 1)] - 1 ELSE Len(text)
       IN [n \in 1 .. many |->
             [src |-> src[StartOf(n)],
              text |-> IF text = <<>> THEN SubSeq(Tokens, StartOf(n), last(n))
                       ELSE SubSeq(text, at[StartOf(n)], end(n))]]
  /\ UNCHANGED <<txs, input, text, src, i>>

Next == Receive \/ AttributeWords \/ FixBoundaryWords \/ SnapUtterances \/ BuildSegments

Spec == Init /\ [][Next]_vars

-----------------------------------------------------------------------------
(* Properties.                                                             *)

\* A word that is no blip stays with the unit that was transmitting when it
\* started, unless its speaker's segment merely brushes that unit's transmissions
\* (fixBoundaryWords, snapUtterances).
WordsKeepTheirUnit ==
  pc = "done" =>
    \A k \in Index :
      LET unit == FindTransmission(input[k].start)
      IN ~Brief(k) /\ ~Brushes(k, unit) => src[k] = unit

\* The segments are the text from the first word on, or the words if there is no text,
\* each token once and in order; two segments in a row are of two units (buildSegments).
SegmentsAreTheText ==
  pc = "done" =>
    /\ FlattenSeq([n \in DOMAIN segments |-> segments[n].text])
         = IF text = <<>> \/ input = <<>> THEN Tokens
           ELSE SubSeq(text, MapWordPositions[1], Len(text))
    /\ \A n \in 1 .. Len(segments) - 1 : segments[n].src # segments[n + 1].src
=============================================================================
