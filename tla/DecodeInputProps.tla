-------------------------- MODULE DecodeInputProps --------------------------
(* What the blocking decode bridge promises.                               *)
EXTENDS DecodeInput

Calls == [index : Nat, count : Nat, written : Nat, need : Nat]

\* Types, and what validation protects (transcode_progress_validation.rs,
\* consume): whatever a decoder reports, no more units leave the buffer than
\* were read into it, the buffer never holds more than its capacity, and no
\* more values are reported than the call had slots for.
TypeOK ==
    /\ arrived \in 0..StreamLen
    /\ fetched \in 0..arrived
    /\ eofSeen \in BOOLEAN
    /\ consumed \in 0..fetched
    /\ cap \in Nat /\ Unread <= cap
    /\ eofRetry \in BOOLEAN
    /\ decSt \in {"new", "open", "done", "broken", "lied", "stale"}
    /\ decNext \in Nat
    /\ decLast \in [eof : BOOLEAN, tag : {"none"} \cup ProgressTags]
    /\ made \in Nat
    /\ held \in 0..MaxHeld
    /\ pc \in {"idle", "loop", "refill", "eof"}
    /\ call \in Calls /\ call.written <= call.count
    /\ out \in Seq(Nat)
    /\ got \in Seq(Nat)
    /\ lost \in BOOLEAN
    /\ ret \in [tag : Tags, required : Nat, read : Nat, written : Nat]
    /\ ret.tag = "BatchOk" => \E r \in Ranges : ret.written <= r[2]

\* An open decoder sees every unit once and in order: the buffer starts with
\* the unit it has to see next, after any mixture of steps, batches, refills
\* and I/O errors, and consumed units are committed exactly once. The caller
\* is told about every value once and in the order they were made;
\* after a failed batch call values may be missing, never repeated or swapped
\* ("Progress is not rolled back, and the error does not report the
\* accumulated output length", doc of transcode).
DeliveredInOrder ==
    /\ decSt = "open" => decNext = consumed
    /\ decSt # "lied" =>
        /\ \A i, j \in 1..Len(got) : i < j => got[i] < got[j]
        /\ \A i \in 1..Len(got) : got[i] \in 1..(made - held)
        /\ pc = "idle" /\ decSt = "open" /\ ~lost => Len(got) = made - held

\* The end of input is announced by the batch call only after the source
\* reported it, and once a decoder ran out of output there, the batch calls go
\* on announcing it: the streaming entry is not called on the same units.
\* eof_retry_pending, which makes the next batch call announce the end without
\* reading, is never stale, even when a refill failed half way.
BatchKeepsEndOfInput ==
    [][/\ eofRetry \/ LoopEnds => eofSeen
       /\ LoopDecodes => decLast # [eof |-> TRUE, tag |-> "NeedOutput"]]_vars

\* A batch call that returns fewer values than it had room for has either
\* stopped for output, or announced the end of input and left no unit and no
\* value behind (doc of transcode: "it passes the retained tail, or an empty
\* input when no tail remains").
ShortReturnIsExplained ==
    [][(pc # "idle" /\ decSt' = "open" /\ ret'.tag = "BatchOk"
          /\ ret'.written < call.count) =>
          \/ decLast'.tag = "NeedOutput"
          \/ /\ decLast' = [eof |-> TRUE, tag |-> "Complete"]
             /\ eofSeen /\ Unread' = 0 /\ held' = 0]_vars

----------------------------------------------------------------------------
(* The inductive invariant of the proofs.                                  *)

\* The running batch call has written the values that came after those the
\* caller knows of, into its first slots; between calls there are none.
SlotsFollowGot ==
    decSt # "lied" =>
        /\ call.written <= made - held
        /\ \A i, j \in 1..Len(got) : i < j => got[i] < got[j]
        /\ \A i \in 1..Len(got) : got[i] \in 1..(made - held - call.written)
        /\ \A s \in 1..call.written : out[s] = made - held - call.written + s
        /\ decSt = "open" /\ ~lost => Len(got) = made - held - call.written

\* Where a batch call is, it still has a slot to write, has returned nothing,
\* and resumes no end of input; "eof" is reached from the source's end only.
CallInStep ==
    /\ pc = "idle" => call = NoCall
    /\ pc # "idle" =>
          /\ ret.tag = "none"
          /\ ~eofRetry
          /\ \E r \in Ranges : call.count = r[2]
          /\ call.written < call.count
          /\ Len(out) = call.count
          /\ pc = "eof" => eofSeen
          /\ decSt \notin {"open", "lied"} => call.written = 0

\* eof_retry_pending is set exactly as long as the decoder's answer stands.
EndIsRemembered ==
    /\ eofRetry => eofSeen
    /\ decLast = [eof |-> TRUE, tag |-> "NeedOutput"] => eofRetry

IInv ==
    /\ TypeOK
    /\ held <= made
    /\ decSt = "open" => decNext = consumed
    /\ SlotsFollowGot
    /\ CallInStep
    /\ EndIsRemembered

----------------------------------------------------------------------------
(* Liveness.                                                               *)

BatchOf(r) == pc = "idle" /\ ~BadRange(r) /\ r[2] > 0 /\ (BatchResumes(r) \/ BatchStarts(r))

RoomyBatch == decSt = "open" /\ \E r \in Ranges : r[2] >= MaxRoom /\ BatchOf(r)

InLoop == LoopFills \/ LoopDecodes \/ LoopRefills \/ LoopEnds

\* The loop is sequential code, the source delivers, and the caller repeats
\* batch calls with the room decoders ask for: strongly fair, because it is
\* disabled while a call runs.
FairSpec ==
    /\ Spec
    /\ WF_vars(Arrive)
    /\ WF_vars(InLoop)
    /\ SF_vars(RoomyBatch)

\* The steps of a caller who only makes batch calls, on a reliable source.
CallerNext ==
    /\ Arrive \/ Transcode \/ InLoop
    /\ ret'.tag \notin {"IoError", "OutOfMemory"}

\* Once the caller makes only batch calls and I/O errors have stopped, the
\* stream is read to its end and no value stays in the decoder, unless the
\* decoder rejects it; also when the source had reported its end before and
\* values were still kept back then.
StreamIsDelivered ==
    <>[][CallerNext]_vars
      => []<>(decSt # "open" \/ (consumed = StreamLen /\ held = 0))

============================================================================
