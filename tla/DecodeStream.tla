---------------------------- MODULE DecodeStream ----------------------------
(* What a decoder promises about a stream, whatever buffers its caller     *)
(* uses: the values delivered for a stream are those a decoder that sees   *)
(* all of it at once would produce, in order, up to some position. How the *)
(* input arrived, how much room each call had and how often a call was     *)
(* repeated leave no trace in pos and out.                                 *)
EXTENDS Naturals, Sequences

CONSTANTS MinUnits, Items, Tails, StreamLen,
          MaxOpen,       \* most values a reset may deliver
          MaxClose       \* most values a finish may deliver

VARIABLES st,      \* "new", "open", "rejected", "done" or "broken"
          pos,     \* units of the stream accounted for
          out,     \* values delivered since the stream was opened
          stream,  \* the stream: the item at each unit
          tail     \* the policy for a tail that is no complete value

vars == <<st, pos, out, stream, tail>>

\* The result for the whole rest of the stream, known to be the whole rest:
\* act "Emit" or "Skip" with the units taken, or "Reject".
Whole(item, rest) ==
    LET final(act, n, sub) == [act |-> act, n |-> n, sub |-> sub]
        cut == final(tail, rest, "tail")
    IN  IF rest < MinUnits THEN cut
        ELSE IF item.width > rest
        THEN IF item.kind = "munch" THEN final("Emit", rest, "value") ELSE cut
        ELSE IF item.kind = "invalid"
        THEN final(item.action, item.consumed, "replacement")
        ELSE final("Emit", item.width, "value")

Result == Whole(stream[pos + 1], StreamLen - pos)

Init ==
    /\ st = "new"
    /\ pos = 0
    /\ out = <<>>
    /\ stream \in [1..StreamLen -> Items]
    /\ tail \in Tails

Open ==
    /\ st' = "open"
    /\ pos' = 0
    /\ \E k \in 0..MaxOpen :
          out' = [i \in 1..k |-> [sub |-> "reset", at |-> 0]]
    /\ UNCHANGED <<stream, tail>>

Take ==
    /\ st = "open"
    /\ pos < StreamLen
    /\ Result.act \in {"Emit", "Skip"}
    /\ pos' = pos + Result.n
    /\ out' = IF Result.act = "Emit"
              THEN Append(out, [sub |-> Result.sub, at |-> pos])
              ELSE out
    /\ UNCHANGED <<st, stream, tail>>

\* The data at pos is refused; nothing of it is delivered.
Refuse ==
    /\ st = "open"
    /\ pos < StreamLen
    /\ Result.act = "Reject"
    /\ st' = "rejected"
    /\ UNCHANGED <<pos, out, stream, tail>>

Close ==
    /\ st \in {"open", "rejected"}
    /\ st' = "done"
    /\ \E k \in 0..MaxClose :
          out' = out \o [i \in 1..k |-> [sub |-> "finish", at |-> 0]]
    /\ UNCHANGED <<pos, stream, tail>>

\* A reset, or the finish of an open stream, fails: only Open leads on.
Break ==
    /\ st' = "broken"
    /\ UNCHANGED <<pos, out, stream, tail>>

Next == Open \/ Take \/ Refuse \/ Close \/ Break

Spec == Init /\ [][Next]_vars

=============================================================================
