----------------------- MODULE AsyncDecodeInputProps -----------------------
(* What the asynchronous decode bridge promises a caller who may drop its  *)
(* futures ("Polls one cancellation-safe decoder operation").              *)
EXTENDS AsyncDecodeInput

AsyncTypeOK ==
    /\ arrived \in 0..StreamLen
    /\ fetched \in 0..arrived
    /\ eofSeen \in BOOLEAN
    /\ consumed \in 0..fetched
    /\ cap \in Nat /\ Unread <= cap
    /\ decSt \in {"new", "open", "done", "broken", "lied", "stale"}
    /\ decNext \in Nat
    /\ decLast \in [eof : BOOLEAN, tag : {"none"} \cup ProgressTags]
    /\ made \in Nat
    /\ held \in 0..MaxHeld
    /\ got \in Seq(Nat)
    /\ fut \in [kind : Kinds \cup {"none"}, range : Ranges \cup {NoRange},
                count : 0..MaxNeed]
    /\ need \in 0..MaxNeed
    /\ ret \in [tag : AsyncTags, required : Nat, read : Nat, written : Nat]

\* However polls, drops and failures alternate, an open decoder sees every
\* unit once and in order, and each value it has written has been reported to
\* the caller, once and in order: dropping a future loses nothing.
CancellationIsSafe ==
    /\ AsyncTypeOK
    /\ decSt = "open" =>
          /\ decNext = consumed
          /\ got = [i \in 1..(made - held) |-> i]

\* The inductive invariant of the proofs: a decoder keeps back no more values
\* than it has made.
AsyncIInv == CancellationIsSafe /\ held <= made

----------------------------------------------------------------------------
(* A caller who reads its stream as the docs tell it to: NeedInput is      *)
(* followed by a refill to the units it asks for, and an end of input by   *)
(* the step at the end. Any pending future may be given up.                *)

RoomyRange(r) == ~BadRange(r) /\ r[2] >= MaxRoom

CreateNext ==
    /\ decSt = "open"
    /\ \/ need > Unread /\ Create(Future("fillUntil", NoRange, need))
       \/ /\ need <= Unread
          /\ \E r \in Ranges : RoomyRange(r) /\ Create(Future("transcode", r, 0))

EofNext ==
    /\ decSt = "open"
    /\ need > Unread \/ Unread = 0
    /\ \E r \in Ranges : RoomyRange(r) /\ EofStep(r)

PollReady == Poll /\ ret'.tag # "Pending"

\* The source is ready again and again, however often futures are dropped.
AsyncFairSpec ==
    /\ AsyncSpec
    /\ WF_asyncVars(AsyncArrive)
    /\ WF_asyncVars(CreateNext)
    /\ SF_asyncVars(EofNext)
    /\ SF_asyncVars(PollReady)

\* The steps of such a caller on a reliable source.
AsyncCallerNext ==
    /\ AsyncArrive \/ CreateNext \/ EofNext \/ Poll \/ Drop
    /\ ret'.tag \notin {"IoError", "OutOfMemory"}

\* Once the caller only reads its stream and I/O errors have stopped, the
\* stream is read to its end and no value stays in the decoder, unless the
\* decoder rejects it, although pending futures are dropped.
DeliveredDespiteDrops ==
    <>[][AsyncCallerNext]_asyncVars
      => []<>(decSt # "open" \/ (consumed = StreamLen /\ held = 0))

=============================================================================
