-------------------------- MODULE AsyncDecodeInput --------------------------
(* AsyncTranscodeDecodeInput (transcode/io/async_transcode_decode_         *)
(* input.rs). Reading is a future: creating it does nothing, each poll     *)
(* runs until the source would block or the call is over, and the caller   *)
(* may drop it after any poll. The decoder is only called after the last   *)
(* point where a poll can block. reset, finish and the step at the end of  *)
(* input do no I/O and are plain calls.                                    *)
EXTENDS DecodeBridge

VARIABLES
    fut,         \* the future the caller holds
    need         \* units the last NeedInput asked the caller for

callerVars == <<fut, need>>
asyncVars == <<sourceVars, bufferVars, decoderVars, got, callerVars, ret>>

Kinds == {"transcode", "fillMore", "fillUntil", "read"}

NoRange == <<0, 0, 0>>

\* range: of the output, for transcode; count: of fill_until.
Future(kind, range, count) == [kind |-> kind, range |-> range, count |-> count]

NoFuture == Future("none", NoRange, 0)

AsyncTags == {"none", "Pending", "ResetOk", "FinishOk", "Filled", "EndOfInput",
              "RawOk", "Panic"} \cup ProgressTags \cup IoFailures

----------------------------------------------------------------------------
(* The asynchronous reader: AsyncBufferedInput, a library. A poll that     *)
(* would block has buffered what it could get.                             *)

PollFillMore == FillMore(Unread, cap, Waiting) \cup {Fill(0, "pending")}

PollFillUntil(count) ==
    FillUntil(Unread, Grown(count), Waiting, count) \cup
        {Fill(k, "pending") : k \in {j \in 0..Waiting : Unread + j < count}}

----------------------------------------------------------------------------
AsyncInit ==
    /\ BridgeInit
    /\ fut = NoFuture
    /\ need = 0

AsyncArrive == SourceGrows /\ UNCHANGED callerVars

\* What the caller has to provide after a call.
Needs ==
    need' = CASE ret'.tag = "NeedInput" -> ret'.required
              [] ret'.tag \in {"Complete", "NeedOutput", "ResetOk"} -> 0
              [] OTHER -> need

AsyncReset ==
    /\ fut = NoFuture
    /\ ResetBody
    /\ Needs
    /\ UNCHANGED <<sourceVars, bufferVars, fut>>

AsyncFinish ==
    /\ fut = NoFuture
    /\ FinishBody
    /\ UNCHANGED <<sourceVars, bufferVars, callerVars>>

AsyncConsume ==
    /\ fut = NoFuture
    /\ ConsumeBody
    /\ UNCHANGED <<sourceVars, cap, got, callerVars>>

\* transcode_eof_step: the caller has established the end of input.
EofStep(r) ==
    /\ fut = NoFuture
    /\ decSt # "stale"
    /\ eofSeen
    /\ \/ StepTrivial(r)
       \/ /\ ~BadRange(r) /\ r[2] > 0
          /\ \/ DecodeFails(NoFetch, Unread, r[1], r[2], TRUE) /\ UNCHANGED got
             \/ \E a \in Answers(Unread, r[2], TRUE) :
                   DecodeAccepts(a, Unread, r[1], r[2], TRUE) /\ StepDone(a)
          /\ UNCHANGED <<sourceVars, cap>>
    /\ Needs
    /\ UNCHANGED fut

AsyncTranscodeEofStep == \E r \in Ranges : EofStep(r)

----------------------------------------------------------------------------
(* Futures.                                                                *)

Create(f) ==
    /\ fut = NoFuture
    /\ fut' = f
    /\ ret' = Return("none")
    /\ UNCHANGED <<sourceVars, bufferVars, decoderVars, got, need>>

CreateAny ==
    \/ \E r \in Ranges : decSt # "stale" /\ Create(Future("transcode", r, 0))
    \/ \E count \in 0..MaxNeed : Create(Future("fillUntil", NoRange, count))
    \/ \E kind \in {"fillMore", "read"} : Create(Future(kind, NoRange, 0))

\* Cancellation. The units its polls buffered stay buffered.
Drop ==
    /\ fut # NoFuture
    /\ fut' = NoFuture
    /\ ret' = Return("none")
    /\ UNCHANGED <<sourceVars, bufferVars, decoderVars, got, need>>

\* Mutant: the units a blocked refill got are dropped with its future.
BlocksForgets(f) ==
    /\ f.res = "pending"
    /\ Fetch(f)
    /\ DecoderWaits(f)
    /\ ret' = Return("Pending")
    /\ consumed' = consumed + f.k
    /\ UNCHANGED <<got, fut>>

\* A refill blocks and the future stays.
Blocks(f) ==
    /\ f.res = "pending"
    /\ Fetch(f)
    /\ DecoderWaits(f)
    /\ ret' = Return("Pending")
    /\ UNCHANGED <<consumed, got, fut>>

\* Mutant: a poll refills whatever is buffered.
TranscodeFetchesAlways == PollFillMore

\* Only an empty buffer is refilled.
TranscodeFetches == IF Unread = 0 THEN PollFillMore ELSE {NoFetch}

\* poll_transcode.
PollTranscode ==
    /\ fut.kind = "transcode"
    /\ \/ StepTrivial(fut.range) /\ fut' = NoFuture
       \/ /\ ~BadRange(fut.range) /\ fut.range[2] > 0
          /\ \E f \in TranscodeFetches :
                \/ Blocks(f)
                \/ /\ Fetch(f)
                   /\ \/ f.res \in {"end", "error"} /\ StepStarves(f)
                      \/ StepDecodes(f, fut.range)
                   /\ fut' = NoFuture
          /\ UNCHANGED cap
    /\ Needs

FillEnds(f) ==
    /\ f.res # "pending"
    /\ Fetch(f)
    /\ DecoderWaits(f)
    /\ Refilled(f)
    /\ fut' = NoFuture
    /\ UNCHANGED <<consumed, got>>

PollFill ==
    /\ \/ /\ fut.kind = "fillMore"
          /\ \E f \in PollFillMore : Blocks(f) \/ FillEnds(f)
          /\ UNCHANGED cap
       \/ /\ fut.kind = "fillUntil"
          /\ cap' = Grown(fut.count)
          /\ \E f \in PollFillUntil(fut.count) : Blocks(f) \/ FillEnds(f)
       \/ /\ fut.kind = "fillUntil"
          /\ AllocationFails(fut.count)
          /\ ret' = Return("OutOfMemory")
          /\ fut' = NoFuture
          /\ UNCHANGED <<sourceVars, bufferVars, decoderVars, got>>
    /\ UNCHANGED need

\* poll_read_unchecked: buffered units, or else the source.
PollRead ==
    /\ fut.kind = "read"
    /\ \/ /\ \E k \in 1..Unread : consumed' = consumed + k
          /\ DecoderPassedBy
          /\ ret' = Return("RawOk")
          /\ fut' = NoFuture
          /\ UNCHANGED <<sourceVars, got>>
       \/ /\ Unread = 0
          /\ \E f \in PollFillMore :
                \/ Blocks(f)
                \/ /\ f.res # "pending"
                   /\ Fetch(f)
                   /\ \E k \in 0..f.k : /\ (k = 0) = (f.k = 0)
                                        /\ consumed' = consumed + k
                   /\ DecoderPassedBy
                   /\ ret' = Return(IF f.res = "error" THEN "IoError" ELSE "RawOk")
                   /\ fut' = NoFuture
                   /\ UNCHANGED got
    /\ UNCHANGED <<cap, need>>

Poll == PollTranscode \/ PollFill \/ PollRead

----------------------------------------------------------------------------
AsyncNext ==
    \/ AsyncArrive
    \/ AsyncReset
    \/ AsyncFinish
    \/ AsyncConsume
    \/ AsyncTranscodeEofStep
    \/ CreateAny
    \/ Drop
    \/ Poll

AsyncSpec == AsyncInit /\ [][AsyncNext]_asyncVars

=============================================================================
