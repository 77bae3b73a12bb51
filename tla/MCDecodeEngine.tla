--------------------------- MODULE MCDecodeEngine ---------------------------
(* The properties of DecodeEngine and the instances TLC checks them on.    *)
EXTENDS DecodeEngineProps

Item(kind, width, action, consumed) ==
    [kind |-> kind, width |-> width, action |-> action, consumed |-> consumed]

\* MinUnits = 2: values of two units and of three, whose prefix is a value at
\* the end of input, and malformed spans that are rejected or replaced; the
\* rest of a replaced one is decoded again and leaves tails below the minimum.
SomeItems == {Item("value", 2, "Reject", 1),
              Item("munch", 3, "Reject", 1),
              Item("invalid", 2, "Reject", 1),
              Item("invalid", 3, "Emit", 1)}

\* Strict hooks reject every malformed span.
StrictItems == {Item("value", 2, "Reject", 1),
                Item("munch", 3, "Reject", 1),
                Item("invalid", 3, "Reject", 1)}

FaultyItems == {Item("value", 2, "Reject", 1),
                Item("invalid", 1, "Skip", 1),
                Item("invalid", 2, "Emit", 1)}

AllTails == {"Reject", "Skip", "Emit"}

OnlyReject == {"Reject"}

\* No room, one slot behind an offset, two slots, an index past the end.
FourWindows == {<<0, 0>>, <<1, 2>>, <<0, 2>>, <<2, 1>>}

UpToThree == {<<0, n>> : n \in 0..3}

NoHookOutput == {0}

\* None, one, and a bound whose sum with MaxFinish overflows.
SomeHookBounds == {0, 1, UsizeMax}

=============================================================================
