---------------------------- MODULE ConvertStream ----------------------------
(* What a converter promises about a stream, whatever buffers its caller   *)
(* uses: every value the source stream holds, read as a whole, is encoded  *)
(* once and in order; the values of the decoder's reset come before them   *)
(* and those of its finish after them. A decoded value is accounted for    *)
(* only together with its encoding.                                        *)
EXTENDS Naturals, Sequences

CONSTANTS MinUnits, Items, Tails, Targets, MarkTargets, StreamLen, MaxEncode

VARIABLES st,      \* "new", "opening", "open", "rejected", "closing", "done"
                   \* or "broken"
          pos,     \* units of the stream accounted for
          out,     \* encodings written since the stream was opened
          stream, tail, target, mark

sourceVars == <<stream, tail, target, mark>>
vars == <<st, pos, out, sourceVars>>

\* The decoder's result for the whole rest of the stream, as in DecodeStream.
Whole(item, rest) ==
    LET final(act, n, sub) == [act |-> act, n |-> n, sub |-> sub]
        cut == final(tail, rest, "tail")
    IN  IF rest < MinUnits THEN cut
        ELSE IF item.width > rest
        THEN IF item.kind = "munch" THEN final("Emit", rest, "value") ELSE cut
        ELSE IF item.kind = "invalid"
        THEN final(item.action, item.consumed, "replacement")
        ELSE final("Emit", item.width, "value")

Result == Whole(stream[pos + 1], StreamLen - pos)

Lies(t) == t.kind = "lies" \/ (t.kind = "unencodable" /\ t.action = "Misreplace")

Unencodable(t) ==
    \/ t.kind = "unencodable" /\ t.action = "Reject"
    \/ t.kind = "fails"
    \/ Lies(t)

\* The units the value may come to: a codec that lies about it still writes no
\* more than the widest encoding.
Widths(t) ==
    IF Lies(t) THEN 0..MaxEncode
    ELSE IF t.kind = "unencodable" /\ t.action = "Skip" THEN {0}
    ELSE IF Unencodable(t) THEN {} ELSE {t.len}

Init ==
    /\ st = "new"
    /\ pos = 0
    /\ out = <<>>
    /\ stream \in [1..StreamLen -> Items]
    /\ tail \in Tails
    /\ target \in [0..(StreamLen - 1) -> Targets]
    /\ mark \in MarkTargets

Open ==
    /\ st' = "opening"
    /\ pos' = 0
    /\ out' = <<>>
    /\ UNCHANGED sourceVars

\* A value of the decoder's own reset or finish.
Mark ==
    /\ st \in {"opening", "closing"}
    /\ \E n \in Widths(mark) :
          out' = Append(out, [sub |-> IF st = "opening" THEN "reset" ELSE "finish",
                              at |-> 0, len |-> n])
    /\ UNCHANGED <<st, pos, sourceVars>>

Opened ==
    /\ st = "opening"
    /\ st' = "open"
    /\ UNCHANGED <<pos, out, sourceVars>>

Take ==
    /\ st = "open"
    /\ pos < StreamLen
    /\ pos' = pos + Result.n
    /\ \/ /\ Result.act = "Skip"
          /\ UNCHANGED out
       \/ /\ Result.act = "Emit"
          /\ \E n \in Widths(target[pos]) :
                out' = Append(out, [sub |-> Result.sub, at |-> pos, len |-> n])
    /\ UNCHANGED <<st, sourceVars>>

\* The source refuses the data at pos, or the target the value decoded there:
\* the value then leaves with the error and its units are gone.
Refuse ==
    /\ st = "open"
    /\ pos < StreamLen
    /\ \/ Result.act = "Reject" /\ UNCHANGED pos
       \/ Result.act = "Emit" /\ Unencodable(target[pos]) /\ pos' = pos + Result.n
    /\ st' = "rejected"
    /\ UNCHANGED <<out, sourceVars>>

Close ==
    /\ st \in {"open", "rejected"}
    /\ st' = "closing"
    /\ UNCHANGED <<pos, out, sourceVars>>

Closed ==
    /\ st = "closing"
    /\ st' = "done"
    /\ UNCHANGED <<pos, out, sourceVars>>

\* A step of a reset or finish fails. A value refused while closing is lost.
Break ==
    /\ st' = "broken"
    /\ pos' = pos \/ (pos < StreamLen /\ pos' = pos + Result.n)
    /\ UNCHANGED <<out, sourceVars>>

Next == Open \/ Mark \/ Opened \/ Take \/ Refuse \/ Close \/ Closed \/ Break

Spec == Init /\ [][Next]_vars

=============================================================================
