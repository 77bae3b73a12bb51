---------------------------- MODULE DecodeBridge ----------------------------
(* What the blocking and the asynchronous decode bridge share (transcode/  *)
(* io/transcode_decode_input.rs, async_transcode_decode_input.rs): a       *)
(* buffered reader that drives any Transcoder as decoder. Units are their  *)
(* positions in the source: fetched have been read from it, consumed of    *)
(* those have left the buffer. The source may report its end and have more *)
(* units later (a file that is still written to).                          *)
(*                                                                         *)
(* The decoder is a parameter of every call and stands for any honest one: *)
(* it turns each unit into at most one value, keeps up to MaxHeld values   *)
(* back, and asks for at most MaxNeed units or MaxRoom slots. Its values   *)
(* are numbered. With FaultyDecoder its progress reports are arbitrary.    *)
EXTENDS TranscodeContract, BufferedInput, Sequences

CONSTANTS StreamLen,     \* units the source will ever have
          FirstCap,      \* capacity the buffer starts with
          MaxNeed,       \* most units a NeedInput asks for
          MaxRoom,       \* most slots a NeedOutput asks for
          MaxHeld,       \* most values a decoder keeps back
          MaxReset,      \* Transcoder::max_reset_output_len
          MaxFinish,     \* Transcoder::max_finish_output_len
          Ranges,        \* <<output_index, count, output.len()>> of a call
          FaultyDecoder  \* TRUE: progress reports may break the contract

ASSUME DecodeBridgeAssumption ==
    /\ StreamLen \in Nat
    /\ FirstCap \in Nat \ {0}
    /\ MaxNeed \in Nat
    /\ MaxRoom \in Nat
    /\ MaxHeld \in Nat
    /\ MaxReset \in Nat
    /\ MaxFinish \in Nat
    /\ Ranges \subseteq Nat \X Nat \X Nat
    /\ FaultyDecoder \in BOOLEAN

VARIABLES
    arrived,     \* units the source has so far
    fetched,     \* units read from the source
    eofSeen,     \* the source has reported its end since the last unit came
    consumed,    \* units that left the buffer
    cap,         \* capacity of the buffer
    decSt,       \* the decoder: "new", "open", "done", "broken", "lied" when
                 \* it has broken its contract, or "stale" after an
                 \* operation that goes past it
    decNext,     \* the unit the decoder has to see next
    decLast,     \* its last answer, forgotten when a unit comes
    made,        \* values it has made since the reset
    held,        \* those of them it has not written yet
    got,         \* values reported to the caller since the reset
    ret          \* what the last call returned

sourceVars == <<arrived, fetched, eofSeen>>
bufferVars == <<consumed, cap>>
decoderVars == <<decSt, decNext, decLast, made, held>>

Unread == fetched - consumed

Waiting == arrived - fetched

NoAnswer == [eof |-> FALSE, tag |-> "none"]

IoFailures == {"InvalidInput", "InvalidData", "IoError", "OutOfMemory",
               "DecoderError"}

\* SliceRange::checked_range_end fails for <<output_index, count, length>>.
BadRange(r) == r[1] + r[2] > r[3]

----------------------------------------------------------------------------
(* The decoder. An answer is a progress, the values made on the way and    *)
(* whether it keeps the contract.                                          *)

Report(tag, required, read, written, new, honest) ==
    [tag |-> tag, required |-> required, read |-> read, written |-> written,
     new |-> new, honest |-> honest]

\* held and unit counts allow reading r units, making k values, writing w.
Possible(r, w, k) == k <= r /\ held + k - w \in 0..MaxHeld

\* Complete leaves no unit and, at the end of input, no value; NeedOutput
\* leaves one or the other.
Honest(n, m, eof) ==
    {Report("Complete", 0, n, x[1], x[2], TRUE) :
         x \in {y \in (0..m) \X (0..n) :
                   /\ Possible(n, y[1], y[2])
                   /\ eof => held + y[2] = y[1]}}
    \cup {Report("NeedInput", x[4], x[1], x[2], x[3], TRUE) :
         x \in {y \in (0..n) \X (0..m) \X (0..n) \X (1..MaxNeed) :
                   /\ ~eof
                   /\ Possible(y[1], y[2], y[3])
                   /\ y[4] > n - y[1]}}
    \cup {Report("NeedOutput", x[4], x[1], x[2], x[3], TRUE) :
         x \in {y \in (0..n) \X (0..m) \X (0..n) \X (1..MaxRoom) :
                   /\ Possible(y[1], y[2], y[3])
                   /\ y[4] > m - y[2]
                   /\ y[1] < n \/ held + y[3] > y[2]}}

\* Any report; required is a NonZeroUsize.
Dishonest(n, m) ==
    {Report(x[1], x[2], x[3], x[4], 0, FALSE) :
        x \in ProgressTags \X (1..MaxNeed) \X (0..(n + 1)) \X (0..(m + 1))}

Answers(n, m, eof) ==
    Honest(n, m, eof) \cup (IF FaultyDecoder THEN Dishonest(n, m) ELSE {})

DecoderBreaks ==
    /\ decSt' = IF decSt = "lied" THEN "lied" ELSE "broken"
    /\ decLast' = NoAnswer
    /\ UNCHANGED <<decNext, made, held>>

\* An accepted answer. A decoder caught lying is good for nothing afterwards.
DecoderMoves(a, eof) ==
    /\ decLast' = [eof |-> eof, tag |-> a.tag]
    /\ \/ /\ a.honest
          /\ decNext' = decNext + a.read
          /\ made' = made + a.new
          /\ held' = held + a.new - a.written
          /\ UNCHANGED decSt
       \/ /\ ~a.honest
          /\ decSt' = "lied"
          /\ decNext' = 0 /\ made' = 0 /\ held' = 0

\* An operation went past the decoder: the caller has to reset it.
DecoderPassedBy ==
    /\ decSt' = IF decSt = "open" THEN "stale" ELSE decSt
    /\ decLast' = NoAnswer
    /\ UNCHANGED <<decNext, made, held>>

\* Only a refill happened.
DecoderWaits(f) ==
    /\ decLast' = IF f.k > 0 THEN NoAnswer ELSE decLast
    /\ UNCHANGED <<decSt, decNext, made, held>>

\* The values of an answer, in the order they were made; those of a liar are
\* nothing.
Values(a) == [i \in 1..a.written |-> IF a.honest THEN made - held + i ELSE 0]

----------------------------------------------------------------------------
(* The reader.                                                             *)

\* A refill ended with f.
Fetch(f) ==
    /\ fetched' = fetched + f.k
    /\ eofSeen' = (f.res = "end" \/ (eofSeen /\ f.k = 0))
    /\ UNCHANGED arrived

NoFetch == Fill(0, "more")

\* try_reserve_capacity.
Grown(count) == IF count > cap THEN count ELSE cap

AllocationFails(count) == IoErrors /\ count > cap

\* The units a step works on: fill_more only when the buffer is empty.
StepFetches == IF Unread = 0 THEN FillMore(0, cap, Waiting) ELSE {NoFetch}

----------------------------------------------------------------------------
BridgeInit ==
    /\ arrived \in 0..StreamLen
    /\ fetched = 0
    /\ eofSeen = FALSE
    /\ consumed = 0
    /\ cap = FirstCap
    /\ decSt = "new"
    /\ decNext = 0
    /\ decLast = NoAnswer
    /\ made = 0
    /\ held = 0
    /\ got = <<>>
    /\ ret = Return("none")

\* The source gets another unit.
SourceGrows ==
    /\ arrived < StreamLen
    /\ arrived' = arrived + 1
    /\ UNCHANGED <<fetched, eofSeen, bufferVars, decoderVars, got, ret>>

----------------------------------------------------------------------------
(* reset(&self, decoder, output, output_index, count) and finish: the      *)
(* bridge only checks.                                                     *)

BoundFailure(max, r) ==
    IF max > UsizeMax THEN "InvalidData"
    ELSE IF BadRange(r) THEN "InvalidInput"
    ELSE IF r[2] < max THEN "InvalidData" ELSE "none"

LifecycleRefused(max, r) ==
    /\ BoundFailure(max, r) # "none"
    /\ ret' = Return(BoundFailure(max, r))
    /\ UNCHANGED <<decoderVars, got>>

LifecycleBreaks ==
    /\ DecoderBreaks
    /\ \/ ret' = Return("DecoderError")
       \/ FaultyDecoder /\ ret' = Return("Panic")
    /\ UNCHANGED got

ResetSucceeds ==
    /\ decSt' = "open"
    /\ decNext' = consumed
    /\ decLast' = NoAnswer
    /\ made' = 0
    /\ held' = 0
    /\ got' = <<>>
    /\ \E w \in 0..MaxReset : ret' = Wrote("ResetOk", w)

\* A decoder that is not open refuses and stays as it is.
DecoderRefuses ==
    /\ decSt # "open"
    /\ ret' = Return("DecoderError")

FinishSucceeds ==
    /\ decSt = "open"
    /\ decSt' = "done"
    /\ decLast' = NoAnswer
    /\ \E w \in 0..MaxFinish : ret' = Wrote("FinishOk", w)
    /\ UNCHANGED <<decNext, made, held, got>>

ResetBody ==
    \E r \in Ranges :
        \/ LifecycleRefused(MaxReset, r)
        \/ /\ BoundFailure(MaxReset, r) = "none"
           /\ LifecycleBreaks \/ ResetSucceeds

FinishBody ==
    /\ decSt # "stale"
    /\ \E r \in Ranges :
          \/ LifecycleRefused(MaxFinish, r)
          \/ /\ BoundFailure(MaxFinish, r) = "none"
             /\ \/ DecoderRefuses /\ UNCHANGED <<decoderVars, got>>
                \/ decSt = "open" /\ LifecycleBreaks
                \/ FinishSucceeds

----------------------------------------------------------------------------
(* One decoder call on n units and m slots from output index on, and what  *)
(* the bridge makes of it.                                                 *)

\* Mutant: the counts of a streaming report are trusted.
DecodeFailureEofOnly(a, n, index, m, eof) ==
    IF eof /\ Validate(a, 0, n, index, m) # "none" THEN "InvalidData"
    ELSE IF eof /\ a.tag = "NeedInput" THEN "InvalidData" ELSE "none"

\* validate_decode_progress and validate_eof_decode_progress.
DecodeFailure(a, n, index, m, eof) ==
    IF Validate(a, 0, n, index, m) # "none" THEN "InvalidData"
    ELSE IF eof /\ a.tag = "NeedInput" THEN "InvalidData" ELSE "none"

\* The decoder's error, or a report that fails validation: nothing is
\* consumed. f is the refill of the same step.
DecodeFails(f, n, index, m, eof) ==
    /\ \/ DecoderRefuses /\ DecoderWaits(f)
       \/ decSt = "open" /\ DecoderBreaks /\ ret' = Return("DecoderError")
       \/ /\ decSt = "open"
          /\ \E a \in Answers(n, m, eof) :
                /\ DecodeFailure(a, n, index, m, eof) # "none"
                /\ ret' = Return(DecodeFailure(a, n, index, m, eof))
                /\ decSt' = IF a.honest THEN "broken" ELSE "lied"
          /\ decLast' = NoAnswer
          /\ UNCHANGED <<decNext, made, held>>
    /\ UNCHANGED consumed

\* Mutant: a unit is consumed per value written.
DecodeAcceptsWritten(a, n, index, m, eof) ==
    /\ decSt = "open"
    /\ DecodeFailure(a, n, index, m, eof) = "none"
    /\ DecoderMoves(a, eof)
    /\ consumed' = consumed + a.written

\* An accepted progress commits its reads.
DecodeAccepts(a, n, index, m, eof) ==
    /\ decSt = "open"
    /\ DecodeFailure(a, n, index, m, eof) = "none"
    /\ DecoderMoves(a, eof)
    /\ consumed' = consumed + a.read

----------------------------------------------------------------------------
(* One decoder step of the caller's.                                       *)

\* Both refuse a bad range and do nothing for no slots.
StepTrivial(r) ==
    /\ \/ BadRange(r) /\ ret' = Return("InvalidInput")
       \/ ~BadRange(r) /\ r[2] = 0 /\ ret' = Progress("Complete", 0, 0, 0)
    /\ UNCHANGED <<sourceVars, bufferVars, decoderVars, got>>

\* The caller learns the whole progress.
StepDone(a) ==
    /\ ret' = Progress(a.tag, a.required, a.read, a.written)
    /\ got' = got \o Values(a)

StepDecodes(f, r) ==
    /\ f.res = "more"
    /\ \/ DecodeFails(f, Unread + f.k, r[1], r[2], FALSE) /\ UNCHANGED got
       \/ \E a \in Answers(Unread + f.k, r[2], FALSE) :
             DecodeAccepts(a, Unread + f.k, r[1], r[2], FALSE) /\ StepDone(a)

StepStarves(f) ==
    /\ f.res # "more"
    /\ ret' = Return(IF f.res = "end" THEN "EndOfInput" ELSE "IoError")
    /\ DecoderWaits(f)
    /\ UNCHANGED <<consumed, got>>

\* What a refill reports.
Refilled(f) ==
    ret' = Return(CASE f.res = "more" -> "Filled"
                    [] f.res = "end" -> "EndOfInput"
                    [] f.res = "error" -> "IoError")

\* consume(count), assertion included.
ConsumeBody ==
    \/ /\ ret' = Return("Panic")
       /\ UNCHANGED <<consumed, decoderVars>>
    \/ \E k \in 1..Unread :
          /\ consumed' = consumed + k
          /\ DecoderPassedBy
          /\ ret' = Return("RawOk")

----------------------------------------------------------------------------
\* The output ranges TLC takes: past the slice, no slots, one slot, two slots
\* behind an offset.
SomeRanges == {<<1, 1, 1>>, <<0, 0, 1>>, <<0, 1, 1>>, <<1, 2, 3>>}

=============================================================================
