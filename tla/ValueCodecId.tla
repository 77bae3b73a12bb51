--------------------------- MODULE ValueCodecId ---------------------------
(* The protocol of the stable identifiers of the value codecs:             *)
(* value/value_codec_id.rs. An id is a sequence of bytes, and of a byte    *)
(* only its class matters: "letter", "digit", "underscore", "dot" or       *)
(* "other". Indices are those of the code plus one.                        *)
EXTENDS Naturals, Sequences, SequencesExt

ByteClasses == {"letter", "digit", "underscore", "dot", "other"}

\* validate_segment(bytes, start, end), end not included.
ValidateSegment(bytes, start, end) ==
    IF \/ start = end
       \/ bytes[start] # "letter"
       \/ \E i \in (start + 1)..(end - 1) :
              bytes[i] \notin {"letter", "digit", "underscore"}
    THEN "InvalidSegment" ELSE "Ok"

\* Mutant: a dot at the end of the id is not noticed.
AtDotTrailing(bytes, start, index) ==
    IF start = index THEN "EmptySegment"
    ELSE ValidateSegment(bytes, start, index)

\* The body of validate's loop at a dot, with the segment begun at start.
AtDot(bytes, start, index) ==
    IF start = index \/ index = Len(bytes) THEN "EmptySegment"
    ELSE ValidateSegment(bytes, start, index)

\* Where the segment that ends at index begins.
SegmentStart(bytes, index) ==
    1 + SelectLastInSubSeq(bytes, 1, index - 1, LAMBDA b : b = "dot")

\* validate: the first dot that ends a bad segment decides; the last segment
\* is looked at when no dot does.
Validate(bytes) ==
    LET bad == {i \in 1..Len(bytes) :
                   /\ bytes[i] = "dot"
                   /\ AtDot(bytes, SegmentStart(bytes, i), i) # "Ok"}
        end == Len(bytes) + 1
    IN  IF bytes = <<>> THEN "Empty"
        ELSE IF bad # {} THEN AtDot(bytes, SegmentStart(bytes, Min(bad)), Min(bad))
        ELSE ValidateSegment(bytes, SegmentStart(bytes, end), end)

===========================================================================
