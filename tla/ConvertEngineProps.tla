------------------------- MODULE ConvertEngineProps -------------------------
(* What makes TranscodeConvertEngine correct.                              *)
EXTENDS ConvertEngine

\* Types, and the unchecked cursors of a running call: however wrong the counts
\* of codecs and hooks are, they stay inside the caller's slices.
TypeOK ==
    /\ faulty \in BOOLEAN
    /\ phase \in Phases /\ dPhase \in Phases /\ ePhase \in Phases
    /\ pending = <<>> \/ pending \in [{1} -> Values]
    /\ stream \in [1..StreamLen -> Items]
    /\ tail \in Tails
    /\ target \in [0..(StreamLen - 1) -> Targets]
    /\ mark \in MarkTargets
    /\ visible \in 0..StreamLen
    /\ base \in 0..StreamLen
    /\ pc \in {"idle"} \cup ResetSteps \cup TranscodeSteps \cup FinishSteps
    /\ eof \in BOOLEAN
    /\ inCur \in 0..StreamLen
    /\ outStart \in Nat /\ outLen \in Nat /\ outCur \in Nat
    /\ queue \in Nat
    /\ buf \in Seq(Encodings)
    /\ delivered \in Seq(Encodings)
    /\ failed \in BOOLEAN
    /\ ret \in Returns
    /\ pc # "idle" => /\ base <= inCur /\ inCur <= visible
                      /\ outStart <= outCur /\ outCur <= outLen

\* The converter calls into its engines past their own guards. It does so only
\* while both are between a whole reset and a finish, and it calls itself
\* finished only when both are: a reset or finish that stopped between the two
\* engines is refused everything but another reset.
InnerEnginesInStep ==
    /\ phase \in Active \/ pc \in TranscodeSteps \cup {"finishDrain", "finishDecoder"}
         => dPhase = "Fresh" /\ ePhase = "Fresh"
    /\ phase = "Finished" => dPhase = "Finished" /\ ePhase = "Finished"

\* Both hold whatever the codecs answer.
SafeForAnyCodec == TypeOK /\ InnerEnginesInStep

\* reset and finish reserve their whole output before they start: the
\* assertions that the reserved output sufficed never fire, whatever is
\* pending, while codecs and hooks keep their contracts.
ReservedOutputSuffices == ~faulty /\ ~LyingTarget => ret.tag # "Panic"

\* A caller that reserves max_transcode_output_len is never asked for more,
\* not even when a value of an earlier call is still waiting; one that reserves
\* max_finish_output_len is never refused a finish for want of room; and the
\* encodings of a whole stream, however many calls it took, are so few and each
\* so small that max_total_output_len, unless it overflows, has room for them at
\* their widest and for the encoder's own reset and finish units.
OutputBoundSuffices ==
    /\ [][(pc \in TranscodeSteps) /\ ret'.tag = "NeedOutput"
            => outLen - outStart < MaxTranscodeOutputLen(visible - base)]_vars
    /\ [](CurrentFinishOutputLen <= MaxFinishOutputLen)
    /\ [](LET out == delivered \o buf
          IN  /\ MaxTotalOutputLen(visible) # Overflow =>
                    Len(out) * MaxEncode + EMaxReset + EMaxFinish
                      <= MaxTotalOutputLen(visible)
              /\ \A i \in DOMAIN out : out[i].len <= MaxEncode)

----------------------------------------------------------------------------
AbstractState ==
    IF pc \in ResetSteps THEN "opening"
    ELSE IF pc \in {"finishValues", "finishEncoder"} THEN "closing"
    ELSE IF pc \in {"finishDrain", "finishDecoder"} \/ phase \in Active
    THEN IF failed THEN "rejected" ELSE "open"
    ELSE CASE phase = "Uninitialized" -> "new"
           [] phase = "Finished"      -> "done"
           [] OTHER                   -> "broken"

\* A value in the slot is not accounted for yet.
AbstractPos == IF pending = <<>> THEN inCur ELSE pending[1].at

\* A decoder that lies promises nothing about the values of the stream.
Abstract == INSTANCE ConvertStream
    WITH st  <- IF faulty THEN "new" ELSE AbstractState,
         pos <- IF faulty THEN 0 ELSE AbstractPos,
         out <- IF faulty THEN <<>> ELSE delivered \o buf

\* No decoded value is lost, repeated or reordered by output that runs out in
\* the middle of a call: the converter implements ConvertStream.
ImplementsConvertStream == Abstract!Spec

----------------------------------------------------------------------------
(* The inductive invariant of the proofs.                                  *)

\* The three guards and the locals of a call, at each of its steps.
CallsInStep ==
    /\ base <= inCur /\ inCur <= visible
    /\ pc \notin TranscodeSteps /\ ~failed => inCur = base
    /\ pc = "idle" => buf = <<>> /\ queue = 0
    /\ pc \in ResetSteps => phase = "Poisoned" /\ ~failed
    /\ pc \in {"resetDecoder", "resetValues"} => ePhase = "Fresh"
    /\ pc = "resetValues" => dPhase = "Fresh"
    /\ pc \in TranscodeSteps => /\ phase = "Streaming"
                                /\ ~failed
                                /\ eof => visible = StreamLen
    /\ pc \in FinishSteps => phase = "Poisoned"
    /\ pc \in {"finishValues", "finishEncoder"}
         => dPhase = "Finished" /\ ePhase = "Fresh"

\* The slot holds at most the value that ends at the input cursor; it is empty
\* whenever input is read, and wherever a value could be put into it unasked.
SlotInStep ==
    /\ pc = "encode" => pending # <<>>
    /\ pc \in {"loop", "finishDecoder", "finishValues", "finishEncoder"} \cup ResetSteps
         => pending = <<>>
    /\ failed => pending = <<>>
    /\ pending # <<>> => /\ pending[1].sub \in {"value", "replacement", "tail"}
                         /\ pending[1].at < StreamLen
    /\ pending # <<>> /\ ~faulty =>
          LET r == Abstract!Whole(stream[pending[1].at + 1], StreamLen - pending[1].at)
          IN  r.act = "Emit" /\ r.sub = pending[1].sub /\ pending[1].at + r.n = inCur

\* What reset and finish have reserved and not used yet.
Reserved ==
    CASE pc = "resetEncoder"  -> DMaxReset * MaxEncode + EMaxReset
      [] pc = "resetDecoder"  -> DMaxReset * MaxEncode
      [] pc = "resetValues"   -> queue * MaxEncode
      [] pc = "finishDrain"   -> (IF pending = <<>> THEN 0 ELSE MaxEncode)
                                   + DMaxFinish * MaxEncode + EMaxFinish
      [] pc = "finishDecoder" -> DMaxFinish * MaxEncode + EMaxFinish
      [] pc = "finishValues"  -> queue * MaxEncode + EMaxFinish
      [] pc = "finishEncoder" -> EMaxFinish
      [] OTHER                -> 0

RoomIsReserved == Reserved <= outLen - outCur

\* What a transcode call that has not returned yet has written, and a value that
\* waits, is paid for by the units it has read and one value of an earlier call.
UnitsArePaid ==
    pc \in TranscodeSteps =>
        /\ ret.tag = "none"
        /\ outLen <= UsizeMax
        /\ outCur - outStart + (IF pending = <<>> THEN 0 ELSE MaxEncode)
             <= (inCur - base + 1) * MaxEncode

\* The values of a stream that were encoded or wait: those of the decoder's reset,
\* at most one for each unit read, those of its finish.
Encoded == Len(delivered) + Len(buf) + (IF pending = <<>> THEN 0 ELSE 1)

EncodingsArePlanned ==
    /\ Encoded <= DMaxReset + inCur + DMaxFinish
    /\ pc \in {"resetEncoder", "resetDecoder"} => Encoded = 0
    /\ pc = "resetValues" => Encoded + queue <= DMaxReset
    /\ pc \in TranscodeSteps \cup {"finishDrain", "finishDecoder"}
         => Encoded <= DMaxReset + inCur
    /\ pc = "idle" /\ phase \in Active => Encoded <= DMaxReset + inCur
    /\ pc = "finishValues" => Encoded + queue <= DMaxReset + inCur + DMaxFinish

\* No encoding is wider than the codec's bound.
EncodingsAreNarrow ==
    /\ \A i \in DOMAIN delivered : delivered[i].len <= MaxEncode
    /\ \A i \in DOMAIN buf : buf[i].len <= MaxEncode

\* What the bounds rest on.
PlanIsKept == UnitsArePaid /\ EncodingsArePlanned /\ EncodingsAreNarrow

IInv ==
    /\ TypeOK
    /\ InnerEnginesInStep
    /\ CallsInStep
    /\ SlotInStep
    /\ RoomIsReserved
    /\ ReservedOutputSuffices

----------------------------------------------------------------------------
Drained == base = StreamLen /\ visible = StreamLen /\ pending = <<>>

\* The steps of a caller that drives one stream to its end.
CallerNext ==
    \/ Arrive
    \/ phase = "Uninitialized" /\ Reset
    \/ phase \in Active /\ ~Drained /\ Transcode
    \/ pc \in ResetSteps /\ Reset
    \/ Loop

\* The steps of a call are sequential code. The source delivers, and the caller
\* keeps announcing the end with room for the widest encoding: strongly fair,
\* because both are disabled while a call runs.
FairSpec ==
    /\ Spec
    /\ WF_vars(Loop)
    /\ SF_vars(Arrive)
    /\ SF_vars(/\ phase \in Active
               /\ ~Drained
               /\ \E w \in Windows : w[2] >= w[1] + MaxEncode /\ Begin(TRUE, w))

\* Once a caller does nothing but drive its stream, whatever calls came before,
\* an open stream is read to its end and every value of it written, or
\* rejected: a value in the slot does not wait forever.
StreamIsConverted ==
    <>[][CallerNext]_vars => []<>(Drained \/ failed \/ phase \notin Active)

=============================================================================
