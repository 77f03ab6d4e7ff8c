------------------------------ MODULE SpeechText ------------------------------
(***************************************************************************)
(* From the text of a response to the sentences that are synthesized       *)
(* (interaction/segmenter.py, AccumulatingAdapter, StreamingTts.feed).     *)
(*                                                                         *)
(* A text is a sequence of pieces: segment() splits it where white space   *)
(* follows a full stop, so there is such a gap between two pieces and none *)
(* inside one.  A piece is the sequence of the sentences written into it,  *)
(* one sentence unless two were joined without a gap.                      *)
(***************************************************************************)
EXTENDS Naturals, SequencesExt

CONSTANTS
    Size,           \* Size[s] : number of characters of sentence s
    MinSentence     \* _MIN_SENTENCE_LEN

PieceLength(piece) == FoldLeft(LAMBDA n, s : n + Size[s], 0, piece)

Length(text) ==
    FoldLeft(LAMBDA n, piece : n + PieceLength(piece), 0, text) + (Len(text) - 1)

NoSentence == [done |-> <<>>, pending |-> <<>>]

\* Mutant: a short sentence is dropped where it should wait for the next one.
ExtendDropsShort(acc, piece) ==
    IF acc.pending # <<>> /\ Length(acc.pending) < MinSentence
    THEN [done |-> acc.done, pending |-> <<piece>>]
    ELSE [done |-> IF acc.pending = <<>> THEN acc.done ELSE Append(acc.done, acc.pending),
          pending |-> <<piece>>]

\* One more piece: it joins a sentence that is too short to be an element.
Extend(acc, piece) ==
    IF acc.pending # <<>> /\ Length(acc.pending) < MinSentence
    THEN [done |-> acc.done, pending |-> Append(acc.pending, piece)]
    ELSE [done |-> IF acc.pending = <<>> THEN acc.done ELSE Append(acc.done, acc.pending),
          pending |-> <<piece>>]

\* segment: one element per sentence; a short one is joined with the next.
Segment(text) ==
    LET upTo[i \in 0..Len(text)] ==
            IF i = 0 THEN NoSentence ELSE Extend(upTo[i - 1], text[i])
        all == upTo[Len(text)]
    IN  IF all.pending = <<>> THEN all.done ELSE Append(all.done, all.pending)

\* The deltas AccumulatingAdapter yields for a response.
Deltas(sentences) == Segment([i \in DOMAIN sentences |-> <<sentences[i]>>])

\* buffer += delta.  segment() strips its text, so a buffer ends without a
\* gap and its last piece runs into the first piece of the delta.
Joined(buffer, delta) ==
    IF buffer = <<>> THEN delta
    ELSE Front(buffer) \o <<Last(buffer) \o Head(delta)>> \o Tail(delta)

\* feed: all sentences but the last are ready, the last stays in the buffer.
ReadyAfter(buffer, delta) == Front(Segment(Joined(buffer, delta)))
BufferAfter(buffer, delta) == Last(Segment(Joined(buffer, delta)))

\* The sentences a text consists of, in order.
Spoken(text) == FlattenSeq(text)
=============================================================================
