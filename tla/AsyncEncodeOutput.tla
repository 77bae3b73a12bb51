------------------------- MODULE AsyncEncodeOutput -------------------------
(* AsyncTranscodeEncodeOutput (transcode/io/async_transcode_encode_        *)
(* output.rs). Every call is a future: creating it does nothing, each poll *)
(* runs until the output would block or the call is over, and the caller   *)
(* may drop it after any poll. Draining happens before the encoder is      *)
(* called, so that an encoder call is never suspended.                     *)
EXTENDS EncodeBridge

VARIABLES
    spare,       \* required_spare
    fut          \* the future the caller holds

asyncVars == <<faulty, writerVars, encoderVars, base, spare, fut, ret>>

Kinds == {"reset", "transcode", "finish", "flush", "drain"}

\* n values from base on; reserved: the capacity was reserved by a poll.
Future(kind, n, reserved) == [kind |-> kind, n |-> n, reserved |-> reserved]

NoFuture == Future("none", 0, FALSE)

AsyncTags == {"none", "Pending", "ResetOk", "FinishOk", "FlushOk", "DrainOk", "Panic"}
            \cup ProgressTags \cup IoFailures

----------------------------------------------------------------------------
(* The asynchronous writer: AsyncBufferedOutput, a library. A poll that    *)
(* would block has delivered what it could.                                *)

PollEnsureSpare(count) ==
    EnsureSpare(pend, Grown(count), count) \cup
        {Drained(j, "pending") : j \in {i \in 0..pend : pend - i + count > Grown(count)}}

PollFlush == FlushAll(pend) \cup {Drained(j, "pending") : j \in 0..pend}

----------------------------------------------------------------------------
AsyncInit ==
    /\ BridgeInit
    /\ spare = 1
    /\ fut = NoFuture

Create(kind, n) ==
    /\ fut = NoFuture
    /\ fut' = Future(kind, n, FALSE)
    /\ ret' = "none"
    /\ UNCHANGED <<faulty, writerVars, encoderVars, base, spare>>

\* The values a caller may name: none, some, or a range past its slice.
CreateAny ==
    \E kind \in Kinds : \E n \in 0..(SourceLen - base + 1) :
        /\ kind # "transcode" => n = 0
        /\ Create(kind, n)

\* Cancellation. What its polls delivered stays delivered.
Drop ==
    /\ fut # NoFuture
    /\ fut' = NoFuture
    /\ ret' = "none"
    /\ UNCHANGED <<faulty, writerVars, encoderVars, base, spare>>

----------------------------------------------------------------------------
(* What a poll does once the output has made room.                         *)

\* Mutant: only the widest value counts.
TranscodeRoomPlanned(perValue) == AtLeastOne(perValue)

\* What the last NeedOutput asked for, and the widest value at least.
TranscodeRoom(perValue) ==
    IF perValue > UsizeMax THEN perValue
    ELSE IF AtLeastOne(perValue) > spare THEN AtLeastOne(perValue) ELSE spare

\* The room a future asks for, over what the encoder's planners may say. Only
\* poll_transcode asks them in every poll.
RoomWanted(f) ==
    LET Bounds(n) == IF f.reserved THEN {n} ELSE Planned(n)
    IN  CASE f.kind = "reset"     -> Bounds(MaxReset)
          [] f.kind = "finish"    -> Bounds(MaxFinishOutputLen)
          [] f.kind = "drain"     -> {cap}
          [] f.kind = "transcode" -> {TranscodeRoom(n) : n \in Planned(MaxTranscodeOutputLen(1))}

ResetBody(d) ==
    \/ ResetFails(d) /\ UNCHANGED spare
    \/ ResetSucceeds(d) /\ spare' = 1

\* required_spare after a report; an error leaves it.
Hint(tag, required) ==
    CASE tag = "NeedOutput" -> required
      [] tag = "Complete"   -> 1
      [] OTHER              -> spare

TranscodeBody(d, m) ==
    /\ StepEncoder(fut.n, m, d)
    /\ spare' = Hint(ret', asked')

FinishBody(d, m) ==
    /\ \/ FinishFails(d) /\ Drain(d, 0)
       \/ \E w \in 0..m : FinishSucceeds(w, d) /\ Drain(d, w)
    /\ UNCHANGED <<base, spare>>

DrainBody(d) ==
    /\ Drain(d, 0)
    /\ EncoderRests(d)
    /\ ret' = "DrainOk"
    /\ UNCHANGED <<base, spare>>

Ready(d, m) ==
    /\ fut' = NoFuture
    /\ CASE fut.kind = "reset"     -> ResetBody(d)
         [] fut.kind = "transcode" -> TranscodeBody(d, m)
         [] fut.kind = "finish"    -> FinishBody(d, m)
         [] fut.kind = "drain"     -> DrainBody(d)

\* The output blocks, or fails: the encoder is not called.
Blocks(d) ==
    /\ Drain(d, 0)
    /\ EncoderRests(d)
    /\ \/ d.res = "pending" /\ ret' = "Pending" /\ fut' = [fut EXCEPT !.reserved = TRUE]
       \/ d.res = "error" /\ ret' = "IoError" /\ fut' = NoFuture
    /\ UNCHANGED <<base, spare>>

----------------------------------------------------------------------------
(* Polls.                                                                  *)

\* reset_async, transcode_async, finish_async, drain_async: reserve, make
\* room, then the encoder.
PollReserving(wanted) ==
    \/ \E tag \in ReservationFailure(wanted, "InvalidData") :
          Refused(tag) /\ fut' = NoFuture /\ UNCHANGED spare
    \/ /\ MayAllocate(wanted)
       /\ cap' = Grown(wanted)
       /\ \E d \in PollEnsureSpare(wanted) :
             \/ d.res = "ok" /\ Ready(d, Spare(d, wanted))
             \/ Blocks(d)

\* The early returns of poll_transcode.
PollTrivial ==
    /\ fut.kind = "transcode"
    /\ \/ fut.n > SourceLen - base /\ Refused("InvalidInput")
       \/ fut.n = 0 /\ Refused("Complete")
    /\ fut' = NoFuture
    /\ UNCHANGED spare

PollFlushing ==
    /\ fut.kind = "flush"
    /\ \E d \in PollFlush :
          \/ d.res = "ok" /\ fut' = NoFuture /\ ret' = "FlushOk"
             /\ Drain(d, 0) /\ EncoderRests(d) /\ UNCHANGED <<base, spare>>
          \/ Blocks(d)
    /\ UNCHANGED cap

Poll ==
    /\ fut # NoFuture
    /\ \/ PollTrivial
       \/ PollFlushing
       \/ /\ fut.kind # "flush"
          /\ fut.kind = "transcode" => fut.n \in 1..(SourceLen - base)
          /\ \E wanted \in RoomWanted(fut) : PollReserving(wanted)
    /\ UNCHANGED faulty

AsyncNext == CreateAny \/ Poll \/ Drop

AsyncSpec == AsyncInit /\ [][AsyncNext]_asyncVars

=============================================================================
