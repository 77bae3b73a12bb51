-------------------------- MODULE DecodeDriverProps --------------------------
(* What reading single values from a buffered input promises.              *)
EXTENDS DecodeDriver

\* Types of the driver's, the reader's and the call's state. consume is unsafe:
\* whatever a codec reports, no unit is consumed that was not read, nothing is
\* buffered beyond the capacity, and the codec is only shown a window with the
\* minimum in it.
TypeOK ==
    /\ faulty \in BOOLEAN
    /\ stream \in [1..StreamLen -> Items]
    /\ fetched \in 0..StreamLen
    /\ consumed \in 0..fetched
    /\ cap \in Nat /\ Unread <= cap
    /\ pc \in {"idle", "prepare", "decode", "refill", "retry", "finish"}
    /\ pc \in {"decode", "retry"} => Unread >= MinUnits
    /\ need \in 0..MaxUnits
    /\ start \in 0..consumed
    /\ values \in Seq((0..StreamLen) \X (0..StreamLen))
    /\ ret \in Returns

\* No answer of a codec takes the driver out of its buffer, and one that keeps
\* its contract is never called impossible: InvalidData and the assertions are
\* for broken codecs only.
SafeForAnyCodec == TypeOK /\ (~faulty => ret \notin {"InvalidData", "Panic"})

\* What a refill waits for, if the buffer does not hold it yet.
Goal == IF pc = "prepare" THEN PrepareGoal ELSE need

\* The driver never waits for units behind the value it is reading, which a
\* peer that answers value by value would not send ("Additional units are
\* read only when the codec reports that its current window is incomplete",
\* doc of prepare_buffered_window).
NeverWaitsForNextValue ==
    (pc \in {"prepare", "refill"}) /\ consumed < StreamLen /\ ~faulty
        => Goal <= Item.width

\* Values, malformed spans and truncated tails end where the stream says,
\* however the source cut it, whatever the buffer held and wherever a refill
\* failed. Units count as gone when the call that took them returns. A codec
\* that lies promises nothing.
Reader == INSTANCE ValueReader
    WITH pos <- IF faulty THEN 0 ELSE IF pc = "finish" THEN start ELSE consumed,
         out <- IF faulty THEN <<>> ELSE values

ImplementsValueReader == Reader!Spec

----------------------------------------------------------------------------
\* Inside a call the buffer can hold the minimum, and nothing is consumed
\* before the codec has accepted a value. The last attempt is made on the whole
\* rest of the source.
CallsKeepWindow ==
    /\ pc # "idle" => MinUnits <= cap
    /\ pc = "refill" => Unread >= MinUnits
    /\ pc \in {"prepare", "decode", "refill", "retry"} => start = consumed
    /\ pc = "retry" => fetched = StreamLen

\* The units of an accepted value are those of the value in the stream.
AcceptedIsWhole ==
    pc = "finish" /\ ~faulty
        => consumed - start \in Reader!ValueUnits

\* The inductive invariant of the proofs.
IInv ==
    /\ SafeForAnyCodec
    /\ NeverWaitsForNextValue
    /\ CallsKeepWindow
    /\ AcceptedIsWhole

----------------------------------------------------------------------------
InCall == PrepareWindow \/ DecodeWindow \/ Refill \/ RetryAtEof \/ ReadEnds

FairSpec == Spec /\ WF_vars(InCall)

\* A read returns, also for a codec that answers Incomplete for ever: each
\* refill makes its window larger, up to the widest value.
EveryReadReturns == pc # "idle" ~> pc = "idle"

=============================================================================
