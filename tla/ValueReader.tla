----------------------------- MODULE ValueReader -----------------------------
(* What reading single values from a stream promises: each read takes the  *)
(* item at the current position, and what becomes of it is decided by the  *)
(* stream, not by the portions in which the source handed it out.          *)
EXTENDS Naturals, Sequences

CONSTANTS MinUnits, Items, StreamLen

VARIABLES stream,  \* the item at each unit
          pos,     \* units gone
          out      \* where the values read began and ended

vars == <<stream, pos, out>>

Init ==
    /\ stream \in [1..StreamLen -> Items]
    /\ pos = 0
    /\ out = <<>>

Rest == StreamLen - pos

\* The item at pos is there as a whole.
Whole == Rest >= MinUnits /\ stream[pos + 1].width <= Rest

\* The end of the stream cuts it, but the rest is a value as well.
Cut == Rest >= MinUnits /\ ~Whole /\ stream[pos + 1].kind = "munch"

\* The units of the value at pos, if there is one.
ValueUnits ==
    IF Whole /\ stream[pos + 1].kind # "invalid" THEN {stream[pos + 1].width}
    ELSE IF Cut THEN {Rest} ELSE {}

Read ==
    \E n \in ValueUnits :
        /\ pos' = pos + n
        /\ out' = Append(out, <<pos, pos + n>>)
        /\ UNCHANGED stream

\* Closing the codec failed after the value: its units are gone with it.
Lose ==
    \E n \in ValueUnits :
        /\ pos' = pos + n
        /\ UNCHANGED <<stream, out>>

\* A malformed value is passed over as far as the codec says.
PassOver ==
    /\ Whole
    /\ stream[pos + 1].kind = "invalid"
    /\ stream[pos + 1].action # "Reject"
    /\ pos' = pos + stream[pos + 1].consumed
    /\ UNCHANGED <<stream, out>>

\* A truncated value ends the stream.
DropTail ==
    /\ ~Whole /\ ~Cut
    /\ pos' = StreamLen
    /\ UNCHANGED <<stream, out>>

Next == Read \/ Lose \/ PassOver \/ DropTail

Spec == Init /\ [][Next]_vars

=============================================================================
