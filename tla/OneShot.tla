------------------------------ MODULE OneShot ------------------------------
(* Transcoder::transcode_complete_into (transcode/transcoder.rs): reset,   *)
(* the whole input and finish in one call, on a transcoder that earlier    *)
(* calls may have left anywhere in a stream. The value codecs' calls are   *)
(* one-shot too: a caller has a transcoder or a codec.                     *)
(*                                                                         *)
(* An input unit becomes at most PerUnit units, of which up to MaxHeld are *)
(* kept back; finish gives them up and adds a trailer.                     *)
EXTENDS ValueCodecs

CONSTANTS PerUnit, MaxHeld, MaxReset, MaxTrailer, MaxOutput

ASSUME OneShotAssumption ==
    {PerUnit, MaxHeld, MaxReset, MaxTrailer, MaxOutput} \subseteq Nat

VARIABLES
    side,        \* the caller has a "transcoder" or a "codec"; constant
    overrides,   \* the transcoder has a transcode_eof of its own; constant
    st,          \* the transcoder: "new", "open", "done" or "broken"
    held,        \* units it keeps back
    stale,       \* it carries state of an earlier stream
    call         \* the running call

valueVars == <<faulty, emits, vec, told>>
otherVars == <<valueVars, side, overrides>>
transcoderVars == <<st, held, stale>>
vars == <<otherVars, ret, transcoderVars, call>>

NoCall == [pc |-> "idle"]

----------------------------------------------------------------------------
(* The transcoder.                                                         *)

MaxTranscodeOutputLen(n) == CheckedAdd(MaxHeld, CheckedMul(n, PerUnit))

MaxFinishOutputLen == CheckedAdd(MaxHeld, MaxTrailer)

\* A bound as it is answered. A faulty transcoder's overflows, or is too low.
Planned(bound) == {bound} \cup (IF faulty THEN {Overflow, 0} ELSE {})

\* read units and what is held give written units and kept to hold back.
Possible(read, written, kept) == written + kept - held \in 0..(read * PerUnit)

Report(tag, required, read, written, kept) ==
    [tag |-> tag, required |-> required, read |-> read, written |-> written,
     kept |-> kept]

\* It takes everything, or ends in the middle of a value, or lacks room for
\* what is left.
Honest(n, m) ==
    {r \in [tag : ProgressTags, required : 0..(MaxHeld + n * PerUnit + 1),
            read : 0..n, written : 0..m, kept : 0..MaxHeld] :
        /\ Possible(r.read, r.written, r.kept)
        /\ CASE r.tag = "Complete" -> r.required = 0 /\ r.read = n
             [] r.tag = "NeedInput" -> r.read < n /\ r.required = n - r.read + 1
             [] r.tag = "NeedOutput" ->
                   /\ r.required > m - r.written
                   /\ r.required <= r.kept + (n - r.read) * PerUnit}

Dishonest(n, m) ==
    {Report(x[1], x[2], x[3], x[4], 0) :
        x \in ProgressTags \X {1, n + m + 1} \X {0, n, n + 1} \X {0, m, m + 1}}

\* What transcode, or an overriding transcode_eof, may report: at the end of
\* input the latter asks for no more of it.
Answers(n, m) ==
    {r \in Honest(n, m) : overrides => r.tag # "NeedInput"}
    \cup (IF faulty THEN Dishonest(n, m) ELSE {})

----------------------------------------------------------------------------
Init ==
    /\ ValueInit
    /\ side \in {"transcoder", "codec"}
    /\ side = "transcoder" => ~emits
    /\ overrides \in (IF side = "transcoder" THEN BOOLEAN ELSE {FALSE})
    /\ st = "new"
    /\ held = 0
    /\ stale = FALSE
    /\ call = NoCall

\* The call returns an error; ran: its lifecycle had begun.
Ends(res, ran) ==
    /\ ret' = [op |-> "complete", res |-> res, ran |-> ran]
    /\ call' = NoCall

\* The call ends with an error; what it wrote and the transcoder's state stay.
Fails(res) ==
    /\ Ends(res, TRUE)
    /\ st' = "broken"
    /\ stale' = TRUE
    /\ UNCHANGED <<held, otherVars>>

\* Mutant: the bound of finish is left out.
SumOutputBoundsNoFinish(reset, transcode, finish) == CheckedAdd(reset, transcode)

\* sum_output_bounds, add_output_bounds.
SumOutputBounds(reset, transcode, finish) ==
    CheckedAdd(CheckedAdd(reset, transcode), finish)

\* The bounds are queried and the output checked before anything is touched.
Begin(n, m) ==
    /\ side = "transcoder" /\ call = NoCall
    /\ \E r \in Planned(MaxReset), t \in Planned(MaxTranscodeOutputLen(n)),
          f \in Planned(MaxFinishOutputLen) :
          LET failure == PlannedCapacityFailure(m, 0, SumOutputBounds(r, t, f))
          IN  \/ failure # "none" /\ Ends(failure, FALSE)
              \/ /\ failure = "none"
                 /\ call' = [pc |-> "reset", input |-> n, output |-> m,
                             reset |-> r, finish |-> f, cursor |-> 0, made |-> 0]
                 /\ ret' = NoReturn
    /\ UNCHANGED <<transcoderVars, otherVars>>

Available == call.output - call.cursor

\* The counts of reset and finish: more than the bound, or than fits, panics.
WriteCounts(max) == 0..(IF faulty THEN max + 1 ELSE max)

ResetStep ==
    /\ call.pc = "reset"
    /\ \/ Fails("ResetError")
       \/ \E n \in WriteCounts(MaxReset) :
             \/ (n > call.reset \/ n > call.output) /\ Fails("Panic")
             \/ /\ n <= call.reset /\ n <= call.output
                /\ st' = "open"
                /\ held' = 0
                /\ stale' = FALSE
                /\ call' = [call EXCEPT !.pc = "transcode", !.cursor = n, !.made = n]
                /\ UNCHANGED <<ret, otherVars>>

\* The default transcode_eof: transcode's report is validated, and a report
\* that asks for input is an error at the end of input. An overriding one
\* is not checked here.
TranscodeEof(a) ==
    IF overrides THEN "none"
    ELSE IF Validate(a, 0, call.input, call.cursor, Available) # "none"
    THEN "InvalidProgress"
    ELSE IF a.tag = "NeedInput" THEN "IncompleteInput" ELSE "none"

\* complete_progress_written: only a complete report goes on.
CompleteProgress(a) ==
    IF Validate(a, 0, call.input, call.cursor, Available) # "none" THEN "Panic"
    ELSE CASE a.tag = "Complete" -> "none"
           [] a.tag = "NeedOutput" -> "InsufficientOutput"
           [] a.tag = "NeedInput" -> "IncompleteInput"

TranscodeStep ==
    /\ call.pc = "transcode"
    /\ \/ Fails(IF st = "open" THEN "TranscodeError" ELSE "Refused")
       \/ /\ st = "open"
          /\ \E a \in Answers(call.input, Available) :
                LET failure == IF TranscodeEof(a) # "none" THEN TranscodeEof(a)
                               ELSE CompleteProgress(a)
                IN  \/ failure # "none" /\ Fails(failure)
                    \/ /\ failure = "none"
                       /\ held' = a.kept
                       /\ call' = [call EXCEPT !.pc = "finish",
                                      !.cursor = @ + a.written,
                                      !.made = @ + a.written + a.kept - held]
                       /\ UNCHANGED <<st, stale, ret, otherVars>>

\* finish writes n units, those kept back among them.
FinishStep ==
    /\ call.pc = "finish"
    /\ \/ Fails(IF st = "open" THEN "FinishError" ELSE "Refused")
       \/ /\ st = "open"
          /\ \E n \in WriteCounts(MaxFinishOutputLen) :
                /\ faulty \/ n \in held..(held + MaxTrailer)
                /\ \/ (n > call.finish \/ n > Available) /\ Fails("Panic")
                   \/ /\ n <= call.finish /\ n <= Available
                      /\ ret' = [op |-> "complete", res |-> "Ok",
                                 n |-> call.cursor + n, made |-> call.made + n - held,
                                 output |-> call.output, stale |-> stale]
                      /\ call' = NoCall
                      /\ st' = "done"
                      /\ held' = 0
                      /\ stale' = TRUE
                      /\ UNCHANGED otherVars

\* The caller also drives the transcoder in pieces, and leaves a stream.
Abandon ==
    /\ side = "transcoder" /\ call = NoCall
    /\ st \in {"new", "done"}
    /\ st' = "open"
    /\ held' \in 0..MaxHeld
    /\ stale' = TRUE
    /\ UNCHANGED <<ret, call, otherVars>>

ValueCall ==
    /\ side = "codec"
    /\ ValueNext
    /\ UNCHANGED <<side, overrides, transcoderVars, call>>

Next ==
    \/ \E n \in 0..MaxInput, m \in 0..MaxOutput : Begin(n, m)
    \/ ResetStep
    \/ TranscodeStep
    \/ FinishStep
    \/ Abandon
    \/ ValueCall

Spec == Init /\ [][Next]_vars

----------------------------------------------------------------------------
(* What a one-shot call promises.                                          *)

(* A successful transcode_complete_into has written a whole stream and     *)
(* nothing else: everything that reset, the input and finish made is in    *)
(* the output, nothing is kept back, and nothing comes from a stream that  *)
(* an earlier failed call or an abandoned stream left in the transcoder.   *)
(* Once the output is large enough for the planned bound, a transcoder     *)
(* that keeps its contract runs out of no room and no assertion fails; and *)
(* whatever a faulty one reports, the count returned lies in the output.   *)
CompleteStreamIsWhole ==
    ret.op = "complete" =>
        /\ ret.res = "Ok" => ret.n <= ret.output
        /\ ~faulty =>
              /\ ret.res = "Ok" => ret.n = ret.made /\ ~ret.stale
              /\ (ret.res # "Ok" /\ ret.ran) =>
                    ret.res \notin CapacityFailures
                                     \cup {"Panic", "InvalidProgress", "Refused"}

(* The caller's vector is its successful encodings and nothing else:       *)
(* neither the padding it was resized with nor the units of a failed call  *)
(* stay in it (encode_into: "the vector length is restored to its original *)
(* value"). A decode succeeds only when its input is exactly one value,    *)
(* and fails on such an input only with an error of the codec's own.       *)
ValueIsWhole ==
    /\ (ret.op = "encode" /\ ret.res # "Panic") => (faulty \/ vec = told)
    /\ (ret.op \in DecodeCalls) =>
          /\ ret.res = "Ok" => ret.read = ret.len
          /\ (~faulty /\ ret.res = "Ok") => ret.width = ret.len
          /\ (~faulty /\ ret.width = ret.len) =>
                ret.res \notin {"Panic", "TrailingInput", "IncompleteInput"}

----------------------------------------------------------------------------
(* The inductive invariant of the proofs.                                  *)

Calls == [pc : {"reset", "transcode", "finish"}, input : Nat, output : Nat,
          reset : Nat, finish : Nat, cursor : Nat, made : Nat]

\* A running call is inside its output, and once reset has run, on a stream of
\* its own.
CallOnFreshStream ==
    call # NoCall =>
        /\ call \in Calls
        /\ call.cursor <= call.output
        /\ call.pc # "reset" => st = "open" /\ ~stale
        /\ call.pc = "transcode" => held = 0

\* The room that was planned for a transcoder that keeps its contract is there
\* for every phase still to come, and what it made is written or kept back.
PlanHolds ==
    (~faulty /\ call # NoCall) =>
        LET tail == MaxHeld + MaxTrailer
            plan == MaxReset + (MaxHeld + call.input * PerUnit) + tail
        IN  /\ call.reset = MaxReset
            /\ call.finish = tail
            /\ call.input <= UsizeMax
            /\ plan <= UsizeMax /\ plan <= call.output
            /\ call.pc = "transcode" =>
                  call.cursor <= MaxReset /\ call.made = call.cursor
            /\ call.pc = "finish" =>
                  /\ call.made = call.cursor + held
                  /\ call.cursor + tail <= call.output

IInv ==
    /\ faulty \in BOOLEAN
    /\ overrides \in BOOLEAN
    /\ emits \in BOOLEAN
    /\ held \in 0..MaxHeld
    /\ vec \in Nat
    /\ told \in Nat
    /\ ~faulty => vec = told
    /\ CallOnFreshStream
    /\ PlanHolds
    /\ CompleteStreamIsWhole
    /\ ValueIsWhole

============================================================================
