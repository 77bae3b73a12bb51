---------------------------- MODULE EncodeStream ----------------------------
(* What an encoder promises about a sequence of values, whatever buffers   *)
(* its caller uses: each value is encoded whole, exactly once and in       *)
(* order; an unencodable value follows the hooks' policy.                  *)
EXTENDS Naturals, Sequences

CONSTANTS Targets, SourceLen, MaxEncode,
          MaxOpen,       \* most units a reset may deliver
          MaxClose       \* most units a finish may deliver

VARIABLES st,      \* "new", "open", "rejected", "done" or "broken"
          pos,     \* values accounted for
          out,     \* encodings delivered since the stream was opened
          source   \* the values

vars == <<st, pos, out, source>>

Lies(target) ==
    \/ target.kind = "lies"
    \/ target.kind = "unencodable" /\ target.action = "Misreplace"

MayReject(target) ==
    \/ target.kind = "unencodable" /\ target.action = "Reject"
    \/ target.kind = "fails"
    \/ Lies(target)

\* The units the value may come to: nothing for a skipped one, at most the
\* widest encoding for one whose codec lies about it.
Widths(target) ==
    IF Lies(target) THEN 0..MaxEncode
    ELSE IF target.kind = "unencodable" /\ target.action = "Skip" THEN {0}
    ELSE IF MayReject(target) THEN {} ELSE {target.len}

Init ==
    /\ st = "new"
    /\ pos = 0
    /\ out = <<>>
    /\ source \in [1..SourceLen -> Targets]

Open ==
    /\ st' = "open"
    /\ pos' = 0
    /\ \E k \in 0..MaxOpen : out' = <<[sub |-> "reset", at |-> 0, len |-> k]>>
    /\ UNCHANGED source

Take ==
    /\ st = "open"
    /\ pos < SourceLen
    /\ pos' = pos + 1
    /\ \E n \in Widths(source[pos + 1]) :
          out' = Append(out, [sub |-> "value", at |-> pos + 1, len |-> n])
    /\ UNCHANGED <<st, source>>

Refuse ==
    /\ st = "open"
    /\ pos < SourceLen
    /\ MayReject(source[pos + 1])
    /\ st' = "rejected"
    /\ UNCHANGED <<pos, out, source>>

Close ==
    /\ st \in {"open", "rejected"}
    /\ st' = "done"
    /\ \E k \in 0..MaxClose :
          out' = Append(out, [sub |-> "finish", at |-> 0, len |-> k])
    /\ UNCHANGED <<pos, source>>

Break ==
    /\ st' = "broken"
    /\ UNCHANGED <<pos, out, source>>

Next == Open \/ Take \/ Refuse \/ Close \/ Break

Spec == Init /\ [][Next]_vars

=============================================================================
