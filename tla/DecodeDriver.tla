---------------------------- MODULE DecodeDriver ----------------------------
(* Reading single values from a TranscodeDecodeInput: the lifecycle of     *)
(* read_decoded_with and its variants (transcode_decode_input.rs) around   *)
(* the loop of CodecDecodeDriver::read_one (codec_decode_driver.rs). A     *)
(* stream of StreamLen units is read value by value through the buffer of  *)
(* BufferedInput: fetched units have been read from the source, which may  *)
(* hand them out in any portions, and consumed of those left the buffer.   *)
(* Items are those of DecodeStep; an invalid one whose action is Reject    *)
(* carries no consumption hint.                                            *)
EXTENDS BufferedInput, Sequences

CONSTANTS MinUnits, MaxUnits, Items,    \* of the codec: DecodeStep
          StreamLen,     \* units of the source
          FirstCap       \* capacity the buffer starts with

VARIABLES
    faulty,      \* the codec may break its contract; never changes
    stream,      \* the item a decoder finds at each unit
    fetched,     \* units read from the source
    consumed,    \* units that left the buffer
    cap,         \* capacity of the buffer
    pc,          \* "idle", or the place in a running call
    need,        \* required_total of the last Incomplete answer
    start,       \* consumed when the running call began
    values,      \* where the values returned so far began and ended
    ret          \* what the last call returned

INSTANCE DecodeStep WITH Faulty <- faulty

ASSUME DecodeDriverAssumption ==
    /\ StreamLen \in Nat
    /\ FirstCap \in Nat \ {0}
    /\ MinUnits \in Nat \ {0}
    /\ MaxUnits \in Nat
    /\ MinUnits <= MaxUnits
    /\ Items \subseteq ItemType
    /\ \A i \in Items : i.consumed <= i.width

sourceVars == <<faulty, stream>>
bufferVars == <<fetched, consumed, cap>>
vars == <<sourceVars, bufferVars, pc, need, start, values, ret>>

Returns == {"none", "Value", "Refused", "ResetError", "OutOfMemory", "IoError",
            "UnexpectedEof", "InvalidData", "Rejected", "FinishError", "Panic"}

Unread == fetched - consumed

Grown(count) == IF count > cap THEN count ELSE cap

\* read_one looks at no more than a value can take.
Window == IF Unread < MaxUnits THEN Unread ELSE MaxUnits

\* The item at the read position. Behind the stream there is none, and no
\* codec is called.
Item == stream[consumed + 1]

\* The call ends with r; what it did to the buffer is stated elsewhere.
Leave(r) ==
    /\ pc' = "idle"
    /\ ret' = r
    /\ UNCHANGED values

\* The answers of a lying codec do not depend on where in the stream it is.
Init ==
    /\ faulty \in BOOLEAN
    /\ stream \in [1..StreamLen -> Items]
    /\ faulty => \A i, j \in 1..StreamLen : stream[i] = stream[j]
    /\ fetched = 0
    /\ consumed = 0
    /\ cap = FirstCap
    /\ pc = "idle"
    /\ need = 0
    /\ start = 0
    /\ values = <<>>
    /\ ret = "none"

----------------------------------------------------------------------------
(* The call up to the loop: the preflight of the lifecycle outputs,        *)
(* decode_reset with its assertion, room for the smallest value.           *)

ReadBegins ==
    /\ pc = "idle"
    /\ \/ /\ \/ Leave("Refused")
             \/ Leave("ResetError")
             \/ faulty /\ Leave("Panic")
             \/ IoErrors /\ MinUnits > cap /\ Leave("OutOfMemory")
          /\ UNCHANGED <<cap, start>>
       \/ /\ pc' = "prepare"
          /\ cap' = Grown(MinUnits)
          /\ start' = consumed
          /\ ret' = "none"
          /\ UNCHANGED values
    /\ UNCHANGED <<sourceVars, fetched, consumed, need>>

----------------------------------------------------------------------------
(* prepare_buffered_window.                                                *)

\* Mutant: the widest value is waited for.
PrepareGoalWidest == MaxUnits

PrepareGoal == MinUnits

\* The source ended below the minimum: the tail is dropped. A window in which
\* end_of_input is set never reaches the codec here.
PrepareWindow ==
    /\ pc = "prepare"
    /\ \E f \in FillUntil(Unread, cap, StreamLen - fetched, PrepareGoal) :
          /\ fetched' = fetched + f.k
          /\ \/ /\ f.res = "more"
                /\ pc' = "decode"
                /\ UNCHANGED <<consumed, values, ret>>
             \/ /\ f.res = "end"
                /\ consumed' = fetched + f.k
                /\ Leave("UnexpectedEof")
             \/ /\ f.res = "error"
                /\ Leave("IoError")
                /\ UNCHANGED consumed
    /\ UNCHANGED <<sourceVars, cap, need, start>>

----------------------------------------------------------------------------
(* One answer of the codec about avail units.                              *)

\* accept.
Accept(n, avail) ==
    \/ /\ n > avail
       /\ Leave("InvalidData")
       /\ UNCHANGED consumed
    \/ /\ n <= avail
       /\ consumed' = consumed + n
       /\ pc' = "finish"
       /\ UNCHANGED <<values, ret>>

\* The consumption hint of DecodeFailure::Invalid, 0 for none.
Hints == {IF Item.action = "Reject" THEN 0 ELSE Item.consumed}
         \cup (IF faulty THEN 0..(MaxUnits + 1) ELSE {})

\* Mutant: everything the codec was shown is passed over.
RejectWindow(hint, avail) ==
    /\ consumed' = consumed + (IF hint = 0 THEN 0 ELSE avail)
    /\ Leave("Rejected")

\* reject.
Reject(hint, avail) ==
    \/ /\ hint > avail
       /\ Leave("InvalidData")
       /\ UNCHANGED consumed
    \/ /\ hint <= avail
       /\ consumed' = consumed + hint
       /\ Leave("Rejected")

\* Mutant: an incomplete answer about enough units is believed.
RefillAfterIncompleteAlways(n, avail) ==
    /\ pc' = "refill"
    /\ need' = n
    /\ UNCHANGED <<consumed, values, ret>>

\* Mutant: the last missing unit is not waited for.
RefillAfterIncompleteEarly(n, avail) ==
    \/ /\ avail + 1 >= n
       /\ Leave("InvalidData")
       /\ UNCHANGED <<consumed, need>>
    \/ /\ avail + 1 < n
       /\ pc' = "refill"
       /\ need' = n
       /\ UNCHANGED <<consumed, values, ret>>

\* refill_after_incomplete up to the refill itself.
RefillAfterIncomplete(n, avail) ==
    \/ /\ avail >= n
       /\ Leave("InvalidData")
       /\ UNCHANGED <<consumed, need>>
    \/ /\ avail < n
       /\ pc' = "refill"
       /\ need' = n
       /\ UNCHANGED <<consumed, values, ret>>

\* The arms of read_one.
DecodeWindow ==
    /\ pc = "decode"
    /\ \E a \in CodecDecode(Item, Window, FALSE) :
          \/ a.res = "Ok" /\ Accept(a.n, Window) /\ UNCHANGED need
          \/ /\ a.res = "Incomplete"
             /\ a.n > MaxUnits
             /\ Leave("Panic")
             /\ UNCHANGED <<consumed, need>>
          \/ /\ a.res = "Incomplete"
             /\ a.n <= MaxUnits
             /\ RefillAfterIncomplete(a.n, Window)
          \/ /\ a.res = "Invalid"
             /\ \E hint \in Hints : Reject(hint, Window)
             /\ UNCHANGED need
    /\ UNCHANGED <<sourceVars, fetched, cap, start>>

\* The refill: the loop goes round, or the source is exhausted.
Refill ==
    /\ pc = "refill"
    /\ \/ /\ IoErrors /\ need > cap
          /\ Leave("OutOfMemory")
          /\ UNCHANGED <<fetched, cap>>
       \/ /\ cap' = Grown(need)
          /\ \E f \in FillUntil(Unread, Grown(need), StreamLen - fetched, need) :
                /\ fetched' = fetched + f.k
                /\ \/ f.res = "more" /\ pc' = "prepare" /\ UNCHANGED <<values, ret>>
                   \/ f.res = "end" /\ pc' = "retry" /\ UNCHANGED <<values, ret>>
                   \/ f.res = "error" /\ Leave("IoError")
    /\ UNCHANGED <<sourceVars, consumed, need, start>>

\* handle_eof_incomplete: the tail is dropped. The codec's own error, if it
\* has one, stands for UnexpectedEof.
Truncated(n) ==
    \/ /\ n > MaxUnits
       /\ Leave("Panic")
       /\ UNCHANGED consumed
    \/ /\ n <= MaxUnits /\ n <= Unread
       /\ Leave("InvalidData")
       /\ UNCHANGED consumed
    \/ /\ n <= MaxUnits /\ n > Unread
       /\ consumed' = fetched
       /\ Leave("UnexpectedEof")

\* retry_decode_at_eof.
RetryAtEof ==
    /\ pc = "retry"
    /\ \E a \in CodecDecode(Item, Unread, TRUE) :
          \/ a.res = "Ok" /\ Accept(a.n, Unread)
          \/ a.res = "Incomplete" /\ Truncated(a.n)
          \/ a.res = "Invalid" /\ \E hint \in Hints : Reject(hint, Unread)
    /\ UNCHANGED <<sourceVars, fetched, cap, need, start>>

----------------------------------------------------------------------------
(* decode_finish: the units are gone, the value is only returned now.      *)

ReadEnds ==
    /\ pc = "finish"
    /\ \/ /\ pc' = "idle"
          /\ ret' = "Value"
          /\ values' = Append(values, <<start, consumed>>)
       \/ Leave("FinishError")
       \/ faulty /\ Leave("Panic")
    /\ UNCHANGED <<sourceVars, bufferVars, need, start>>

Next ==
    \/ ReadBegins
    \/ PrepareWindow
    \/ DecodeWindow
    \/ Refill
    \/ RetryAtEof
    \/ ReadEnds

Spec == Init /\ [][Next]_vars

=============================================================================
