--------------------------- MODULE MCEncodeEngine ---------------------------
(* The instances TLC checks EncodeEngine on.                               *)
EXTENDS EncodeEngineProps

Target(kind, len, action) == [kind |-> kind, len |-> len, action |-> action]

\* Every kind of value, widths from none to MaxEncode = 2.
AllTargets == {Target("ok", 0, "Reject"),
               Target("ok", 1, "Reject"),
               Target("ok", 2, "Reject"),
               Target("fails", 1, "Reject"),
               Target("lies", 1, "Reject"),
               Target("unencodable", 0, "Skip"),
               Target("unencodable", 1, "Replace"),
               Target("unencodable", 1, "Misreplace")}

\* No room, one unit, a pair of the widest, an index past the end.
EncodeWindows == {<<0, 0>>, <<1, 2>>, <<0, 4>>, <<2, 1>>}

SomeHookBounds == {0, 1, UsizeMax}

=============================================================================
