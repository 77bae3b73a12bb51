--------------------------- MODULE MCConvertEngine ---------------------------
(* The instances TLC checks ConvertEngine on.                              *)
EXTENDS ConvertEngineProps

Item(kind, width, action, consumed) ==
    [kind |-> kind, width |-> width, action |-> action, consumed |-> consumed]

Target(kind, len, action) == [kind |-> kind, len |-> len, action |-> action]

\* A value of the minimum width, which can leave a tail below it, and a wider
\* span that is replaced in part.
SourceItems == {Item("value", 2, "Reject", 1), Item("invalid", 3, "Emit", 1)}

\* The widest value, and one its codec lies about or fails on.
ValueTargets == {Target("ok", 2, "Reject"), Target("lies", 1, "Reject")}

OkOrFails == {Target("ok", 2, "Reject"), Target("fails", 1, "Reject")}

EmitOrReject == {"Emit", "Reject"}

\* One unit, a whole reset, a finish with a value still in the slot, and an
\* index past the end.
ConvertWindows == {<<0, 1>>, <<1, 4>>, <<0, 5>>, <<2, 1>>}

=============================================================================
