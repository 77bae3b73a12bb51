---------------------------- MODULE EncodeOutput ----------------------------
(* TranscodeEncodeOutput (transcode/io/transcode_encode_output.rs): the    *)
(* blocking encode bridge, in steps, batches, single values and raw        *)
(* writes.                                                                 *)
EXTENDS EncodeBridge

CONSTANTS MaxRaw,        \* units of a raw write
          EncodeReset, EncodeValue, EncodeFinish  \* of the single-value codec

ASSUME EncodeOutputAssumption ==
    /\ MaxRaw \in Nat
    /\ {EncodeReset, EncodeValue, EncodeFinish} \subseteq Nat

Value == INSTANCE ValueLifecycle WITH FaultyCodec <- faulty

VARIABLES
    pc,          \* "idle", or the place in a running call
    call         \* count and read_total of a batch, units left of a write_all

callVars == <<pc, call>>
vars == <<faulty, writerVars, encoderVars, base, callVars, ret>>

\* The call writes into what is spare already.
NoDrain == Drained(0, "ok")

NoCall == [count |-> 0, read |-> 0, left |-> 0, calls |-> 0]

Tags == {"none", "ResetOk", "FinishOk", "FlushedOk", "FlushOk", "SpareOk",
         "BatchOk", "ValueOk", "RawOk", "BoundInsufficient", "WriteZero",
         "InsufficientOutput", "Panic"} \cup ProgressTags \cup IoFailures

\* ensure_spare_capacity(count) of the adapter for a planned count, and an
\* action on the window it leaves: the reservation fails, the drain fails, or
\* After(d).
ReservedOr(overflow, count, After(_)) ==
    \/ \E tag \in ReservationFailure(count, overflow) :
          Refused(tag) /\ UNCHANGED callVars
    \/ /\ MayAllocate(count)
       /\ cap' = Grown(count)
       /\ \E d \in EnsureSpare(pend, Grown(count), count) :
             \/ /\ d.res = "error"
                /\ Drain(d, 0)
                /\ ret' = "IoError"
                /\ EncoderRests(d)
                /\ UNCHANGED <<base, callVars>>
             \/ d.res = "ok" /\ After(d)

\* A planner that overflows is capacity_error_to_invalid_data.
Reserved(count, After(_)) == ReservedOr("InvalidData", count, After)

----------------------------------------------------------------------------
Init ==
    /\ BridgeInit
    /\ pc = "idle"
    /\ call = NoCall

----------------------------------------------------------------------------
(* ensure_spare_capacity, flush, seek.                                     *)

\* Mutant: a count beyond the capacity is drained for, not grown for.
EnsureSpareOfNeverGrows(count) ==
    /\ pc = "idle"
    /\ \E d \in EnsureSpare(pend, cap, IF count > cap THEN cap ELSE count) :
          /\ Drain(d, 0)
          /\ EncoderRests(d)
          /\ ret' = IF d.res = "ok" THEN "SpareOk" ELSE "IoError"
    /\ UNCHANGED <<faulty, cap, base, callVars>>

EnsureSpareOf(count) ==
    /\ pc = "idle"
    /\ Reserved(count, LAMBDA d : /\ Drain(d, 0)
                                  /\ ret' = "SpareOk"
                                  /\ EncoderRests(d)
                                  /\ UNCHANGED <<base, callVars>>)
    /\ UNCHANGED faulty

EnsureSpareCall == \E count \in 0..(MaxEncode + MaxHeld) : EnsureSpareOf(count)

\* flush, and the drain seek starts with.
Flush ==
    /\ pc = "idle"
    /\ \E d \in FlushAll(pend) :
          /\ Drain(d, 0)
          /\ EncoderRests(d)
          /\ ret' = (IF d.res = "ok" THEN "FlushOk" ELSE "IoError")
    /\ UNCHANGED <<faulty, cap, base, callVars>>

----------------------------------------------------------------------------
(* reset(encoder): the bound is reserved before the encoder is called.     *)

Reset ==
    /\ pc = "idle"
    /\ \E bound \in Planned(MaxReset) :
          Reserved(bound, LAMBDA d : /\ ResetFails(d) \/ ResetSucceeds(d)
                                     /\ UNCHANGED callVars)
    /\ UNCHANGED faulty

----------------------------------------------------------------------------
\* transcode_step plans for one value and calls the encoder once.
StepBound == AtLeastOne(MaxTranscodeOutputLen(1))

\* transcode_step with n values; a range past the slice is refused, an empty
\* one does nothing.
StepOf(n) ==
    /\ pc = "idle"
    /\ \E bound \in Planned(StepBound) :
          Reserved(bound, LAMBDA d : /\ StepEncoder(n, Spare(d, bound), d)
                                     /\ UNCHANGED callVars)
    /\ UNCHANGED faulty

TranscodeStep ==
    \/ /\ pc = "idle"
       /\ \/ Refused("InvalidInput")
          \/ /\ ret' = "Complete"
             /\ UNCHANGED <<writerVars, encoderVars, base>>
       /\ UNCHANGED <<faulty, callVars>>
    \/ \E n \in 1..(SourceLen - base) : StepOf(n)

----------------------------------------------------------------------------
(* transcode: the batch call reserves the bound of all n values once.      *)

BatchBound(n) == AtLeastOne(MaxTranscodeOutputLen(n))

BatchStarts(n, d) ==
    /\ Drain(d, 0)
    /\ pc' = "loop"
    /\ call' = [NoCall EXCEPT !.count = n]
    /\ ret' = "none"
    /\ EncoderRests(d)
    /\ UNCHANGED base

Transcode ==
    /\ pc = "idle"
    /\ \/ Refused("InvalidInput") /\ UNCHANGED callVars
       \/ /\ ret' = "BatchOk"
          /\ UNCHANGED <<writerVars, encoderVars, base, callVars>>
       \/ \E n \in 1..(SourceLen - base) :
             \E bound \in Planned(BatchBound(n)) :
                Reserved(bound, LAMBDA d : BatchStarts(n, d))
    /\ UNCHANGED faulty

LeaveCall == pc' = "idle" /\ call' = NoCall

\* NeedOutput although the bound was reserved.
BoundInsufficient(a, m) ==
    /\ a.tag = "NeedOutput"
    /\ \/ call.read + a.read = call.count
       \/ m - a.written < a.required
       \/ a.read = 0 /\ a.written = 0

BatchEnds(a, m) ==
    \/ /\ a.tag = "Complete"
       /\ ret' = "BatchOk"
       /\ base' = base + call.read + a.read
       /\ LeaveCall
    \/ /\ BoundInsufficient(a, m)
       /\ ret' = "BoundInsufficient"
       /\ LeaveCall
       /\ UNCHANGED base
    \/ /\ a.tag # "Complete" /\ ~BoundInsufficient(a, m)
       /\ call' = [call EXCEPT !.read = @ + a.read, !.calls = @ + 1]
       /\ UNCHANGED <<pc, base, ret>>

\* One iteration: the window is whatever is spare, values from read_total on.
LoopEncodes ==
    /\ pc = "loop"
    /\ LET n == call.count - call.read
           m == cap - pend
       IN  \/ /\ EncodeFails(n, pend, m, NoDrain)
              /\ LeaveCall
              /\ UNCHANGED <<pend, base>>
           \/ \E a \in Answers(n, m) :
                 /\ EncodeAccepts(a, n, pend, m, NoDrain)
                 /\ Drain(NoDrain, a.written)
                 /\ BatchEnds(a, m)
    /\ UNCHANGED <<faulty, cap>>

----------------------------------------------------------------------------
(* finish_to_buffer makes room by growing the buffer: it must not deliver. *)
(* finish then flushes.                                                    *)

\* The pending units stay where they are.
FinishBound(bound) == CheckedAdd(pend, bound)

FinishInBuffer ==
    \E bound \in Planned(MaxFinishOutputLen) :
        \/ \E tag \in ReservationFailure(FinishBound(bound), "InvalidData") : Refused(tag)
        \/ /\ MayAllocate(FinishBound(bound))
           /\ cap' = Grown(FinishBound(bound))
           /\ \/ FinishFails(NoDrain) /\ UNCHANGED pend
              \/ \E w \in 0..bound :
                    FinishSucceeds(w, NoDrain) /\ Drain(NoDrain, w)
           /\ UNCHANGED base

FinishToBuffer ==
    /\ pc = "idle"
    /\ FinishInBuffer
    /\ UNCHANGED <<faulty, callVars>>

Finish ==
    /\ pc = "idle"
    /\ FinishInBuffer
    /\ pc' = IF ret' = "FinishOk" THEN "flush" ELSE "idle"
    /\ UNCHANGED <<faulty, call>>

FinishFlushes ==
    /\ pc = "flush"
    /\ pc' = "idle"
    /\ \E d \in FlushAll(pend) :
          /\ Drain(d, 0)
          /\ EncoderRests(d)
          /\ ret' = (IF d.res = "ok" THEN "FlushedOk" ELSE "IoError")
    /\ UNCHANGED <<faulty, cap, base, call>>

----------------------------------------------------------------------------
(* write_encoded_with: one value, whole or not at all. The codec's bound   *)
(* overflows as an error of the value, which is invalid input.             *)

WriteValue(d) ==
    \E v \in Value!EncodeComplete(Value!MaxCompleteEncodeUnits,
                                    Spare(d, Value!MaxCompleteEncodeUnits)) :
        /\ Drain(d, v.n)
        /\ Makes(v.n, d)
        /\ ret' = CASE v.res = "Ok" -> "ValueOk"
                    [] v.res \in {"Panic", "InsufficientOutput"} -> v.res
                    [] OTHER -> "EncoderError"
        /\ UNCHANGED <<encoderVars, base, callVars>>

WriteEncodedWith ==
    /\ pc = "idle"
    /\ ReservedOr("InvalidInput", Value!MaxCompleteEncodeUnits, WriteValue)
    /\ UNCHANGED faulty

----------------------------------------------------------------------------
(* write_all of raw units: Interrupted is retried, a zero count fails.     *)

WriteAll ==
    /\ pc = "idle"
    /\ pc' = "write"
    /\ call' = [NoCall EXCEPT !.left = MaxRaw]
    /\ ret' = "none"
    /\ UNCHANGED <<faulty, writerVars, encoderVars, base>>

WriteAllDone ==
    /\ pc = "write"
    /\ call.left = 0
    /\ LeaveCall
    /\ ret' = "RawOk"
    /\ UNCHANGED <<faulty, writerVars, encoderVars, base>>

\* Mutant: an interrupted write passes for a full one.
CountedInterrupted(w) == IF w.res = "interrupted" THEN call.left ELSE w.k

\* What write_all adds to written for a write: the count of one that returned
\* Ok, nothing for an error.
Counted(w) == IF w.res \in {"ok", "direct"} THEN w.k ELSE 0

\* The units the output has buffered of those it was given, and delivered.
Buffered(w) == IF w.res = "direct" THEN 0 ELSE w.k

Delivered(w) == w.j + w.k - Buffered(w)

\* owed follows what write_all believes is written, pend what the output did.
WriteTakes(w) ==
    /\ pend' = pend - w.j + Buffered(w)
    /\ owed' = owed + Counted(w) - Delivered(w)

WriteAllStep ==
    /\ pc = "write"
    /\ call.left > 0
    /\ \E w \in WriteSome(pend, cap, call.left) :
          /\ WriteTakes(w)
          /\ \/ /\ w.res \in {"ok", "direct", "interrupted"}
                /\ call' = [call EXCEPT !.left = @ - Counted(w)]
                /\ UNCHANGED <<pc, ret>>
             \/ /\ w.res \in {"zero", "error"}
                /\ LeaveCall
                /\ ret' = (IF w.res = "zero" THEN "WriteZero" ELSE "IoError")
    /\ UNCHANGED <<faulty, cap, encoderVars, base>>

----------------------------------------------------------------------------
Next ==
    \/ EnsureSpareCall
    \/ Flush
    \/ Reset
    \/ TranscodeStep
    \/ Transcode
    \/ LoopEncodes
    \/ FinishToBuffer
    \/ Finish
    \/ FinishFlushes
    \/ WriteEncodedWith
    \/ WriteAll
    \/ WriteAllStep
    \/ WriteAllDone

Spec == Init /\ [][Next]_vars

=============================================================================
