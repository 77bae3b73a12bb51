---------------------------- MODULE EncodeBridge ----------------------------
(* What the blocking and the asynchronous encode bridge share (transcode/  *)
(* io/transcode_encode_output.rs, async_transcode_encode_output.rs): a     *)
(* buffered writer that any TranscodeEncoder writes into. pend units wait  *)
(* in the buffer; owed counts what accepted calls have made of the values  *)
(* and the wrapped output does not have yet. The caller encodes SourceLen  *)
(* values, of which it has consumed base.                                  *)
(*                                                                         *)
(* The encoder is a parameter of every call and stands for any that keeps  *)
(* the contract of the Transcoder trait: a value is at most MaxEncode      *)
(* units, up to MaxHeld units are kept back, its planned bounds cover both *)
(* in every state, and it goes on once it is given the room it asked for.  *)
(* A faulty one reports arbitrary counts and its bounds may overflow.      *)
EXTENDS TranscodeContract, BufferedOutput

CONSTANTS SourceLen,     \* values the caller encodes in a stream
          FirstCap,      \* capacity the buffer starts with
          MaxEncode,     \* units of the widest value
          MaxHeld,       \* most units an encoder keeps back
          MaxReset,      \* Transcoder::max_reset_output_len
          MaxFinish,     \* what finish may add to the units kept back
          MaxCap         \* the largest buffer the allocator can give

ASSUME EncodeBridgeAssumption ==
    /\ SourceLen \in Nat
    /\ FirstCap \in Nat \ {0}
    /\ MaxEncode \in Nat \ {0}
    /\ MaxHeld \in Nat
    /\ MaxReset \in Nat
    /\ MaxFinish \in Nat
    /\ MaxCap \in FirstCap..UsizeMax

VARIABLES
    faulty,      \* the encoder may break its contract; never changes
    pend,        \* units in the buffer
    owed,        \* units made and not delivered
    cap,         \* capacity of the buffer
    encSt,       \* the encoder: "new", "open", "done" or "broken"
    held,        \* units the encoder keeps back
    asked,       \* the room its last NeedOutput asked for, 0 if there is none
    base,        \* values the caller has consumed
    ret          \* what the last call returned

writerVars == <<pend, owed, cap>>
encoderVars == <<encSt, held, asked>>

IoFailures == {"InvalidInput", "InvalidData", "IoError", "OutOfMemory",
               "EncoderError"}

----------------------------------------------------------------------------
(* The encoder.                                                            *)

Report(tag, required, read, written, new, honest) ==
    [tag |-> tag, required |-> required, read |-> read, written |-> written,
     new |-> new, honest |-> honest]

\* The bounds do not depend on the state: what could be kept back counts.
MaxTranscodeOutputLen(n) == CheckedAdd(MaxHeld, CheckedMul(n, MaxEncode))

MaxFinishOutputLen == CheckedAdd(MaxHeld, MaxFinish)

\* What a planned bound comes to when it is queried.
Planned(bound) == {bound} \cup (IF faulty THEN {Overflow} ELSE {})

\* r values and what is held give w units to write and kept to hold back.
Possible(r, w, kept) == w + kept - held \in 0..(r * MaxEncode)

\* Complete takes every value. NeedOutput leaves something to write, asks for
\* no more than everything that is left, and comes after some progress when
\* the room is what the encoder had asked for.
Honest(n, m) ==
    {Report("Complete", 0, n, x[1], x[1] + x[2] - held, TRUE) :
         x \in {y \in (0..m) \X (0..MaxHeld) : Possible(n, y[1], y[2])}}
    \cup {Report("NeedOutput", x[4], x[1], x[2], x[2] + x[3] - held, TRUE) :
         x \in {y \in (0..n) \X (0..m) \X (0..MaxHeld)
                          \X (1..(MaxHeld + n * MaxEncode)) :
                   /\ y[4] > m - y[2]
                   /\ y[4] <= y[3] + (n - y[1]) * MaxEncode
                   /\ Possible(y[1], y[2], y[3])
                   /\ asked \in 1..m => y[1] + y[2] > 0}}

\* Reports on both sides of what validate() looks at.
Dishonest(n, m) ==
    {Report(x[1], x[2], x[3], x[4], 0, FALSE) :
        x \in ProgressTags \X {1, m + 1} \X {0, n, n + 1} \X {0, m, m + 1}}

Answers(n, m) == Honest(n, m) \cup (IF faulty THEN Dishonest(n, m) ELSE {})

\* An accepted call made k units, while drain d delivered some.
Makes(k, d) == owed' = owed + k - d.j

\* The report is accepted. An encoder caught lying is not used again.
EncoderMoves(a, d) ==
    \/ /\ a.honest
       /\ held' = held + a.new - a.written
       /\ asked' = a.required
       /\ Makes(a.new, d)
       /\ UNCHANGED encSt
    \/ /\ ~a.honest
       /\ encSt' = "broken"
       /\ held' = 0
       /\ asked' = a.required
       /\ Makes(a.written - held, d)

\* What it kept back is given up with the stream.
EncoderBreaks(d) ==
    /\ encSt' = "broken"
    /\ held' = 0
    /\ asked' = 0
    /\ Makes(-held, d)

EncoderRests(d) == Makes(0, d) /\ UNCHANGED encoderVars

----------------------------------------------------------------------------
(* The writer.                                                             *)

\* try_reserve_capacity(count).
Grown(count) == IF count > cap THEN count ELSE cap

MayAllocate(count) == count <= cap \/ count <= MaxCap

AllocationFails(count) == count > cap /\ (IoErrors \/ count > MaxCap)

\* d was delivered and n units follow in the buffer: advance(n).
Drain(d, n) == pend' = pend - d.j + n

\* The writable units from the first spare one on.
Spare(d, count) == Grown(count) - (pend - d.j)

\* A failed reservation of count units: the bound overflowed, which the caller
\* is told as overflow, or the buffer cannot grow.
ReservationFailure(count, overflow) ==
    (IF count > UsizeMax THEN {overflow} ELSE {})
    \cup (IF count <= UsizeMax /\ AllocationFails(count) THEN {"OutOfMemory"} ELSE {})

----------------------------------------------------------------------------
BridgeInit ==
    /\ faulty \in BOOLEAN
    /\ pend = 0
    /\ owed = 0
    /\ cap = FirstCap
    /\ encSt = "new"
    /\ held = 0
    /\ asked = 0
    /\ base = 0
    /\ ret = "none"

----------------------------------------------------------------------------
(* Encoder calls in the window that d leaves of a reservation.             *)

ResetFails(d) ==
    /\ EncoderBreaks(d)
    /\ Drain(d, 0)
    /\ ret' = "EncoderError" \/ (faulty /\ ret' = "Panic")
    /\ UNCHANGED base

ResetSucceeds(d) ==
    /\ encSt' = "open"
    /\ held' = 0
    /\ asked' = 0
    /\ base' = 0
    /\ \E w \in 0..MaxReset : Makes(w - held, d) /\ Drain(d, w)
    /\ ret' = "ResetOk"

\* Mutant: the counts of a report are trusted.
EncodeFailureTagOnly(a, n, index, m) ==
    IF a.tag = "NeedInput" THEN "InvalidData" ELSE "none"

\* validate_encode_progress.
EncodeFailure(a, n, index, m) ==
    IF Validate(a, base, n, index, m) # "none" \/ a.tag = "NeedInput"
    THEN "InvalidData" ELSE "none"

\* The encoder's error, or a refused report: nothing is advanced.
EncodeFails(n, index, m, d) ==
    \/ encSt # "open" /\ ret' = "EncoderError" /\ EncoderRests(d)
    \/ /\ encSt = "open"
       /\ EncoderBreaks(d)
       /\ ret' \in {"EncoderError"} \cup
                  ({EncodeFailure(a, n, index, m) : a \in Answers(n, m)} \ {"none"})

EncodeAccepts(a, n, index, m, d) ==
    /\ encSt = "open"
    /\ EncodeFailure(a, n, index, m) = "none"
    /\ EncoderMoves(a, d)

\* .max(1) of the planned bound.
AtLeastOne(n) == IF n = 0 THEN 1 ELSE n

\* Mutant: the units are committed before the report is validated.
StepEncoderCommitsFirst(n, m, d) ==
    \E a \in Answers(n, m) :
        /\ Drain(d, a.written)
        /\ \/ /\ EncodeAccepts(a, n, pend - d.j, m, d)
              /\ base' = base + a.read
              /\ ret' = a.tag
           \/ EncodeFails(n, pend - d.j, m, d) /\ UNCHANGED base

\* One encoder call of a single step, on n values and m spare units.
StepEncoder(n, m, d) ==
    \/ EncodeFails(n, pend - d.j, m, d) /\ Drain(d, 0) /\ UNCHANGED base
    \/ \E a \in Answers(n, m) :
          /\ EncodeAccepts(a, n, pend - d.j, m, d)
          /\ Drain(d, a.written)
          /\ base' = base + a.read
          /\ ret' = a.tag

\* encoder.finish(...): a stream that is not open is refused by the encoder.
FinishFails(d) ==
    \/ encSt # "open" /\ ret' = "EncoderError" /\ EncoderRests(d)
    \/ /\ encSt = "open"
       /\ EncoderBreaks(d)
       /\ ret' = "EncoderError" \/ (faulty /\ ret' = "Panic")

\* w units end the stream, those kept back among them.
FinishSucceeds(w, d) ==
    /\ encSt = "open"
    /\ encSt' = "done"
    /\ held' = 0
    /\ asked' = 0
    /\ w \in held..MaxFinishOutputLen
    /\ Makes(w - held, d)
    /\ ret' = "FinishOk"

\* A call that ends before it touches anything.
Refused(tag) ==
    /\ ret' = tag
    /\ UNCHANGED <<writerVars, encoderVars, base>>

=============================================================================
