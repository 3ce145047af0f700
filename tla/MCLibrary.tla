----------------------------- MODULE MCLibrary -----------------------------
(***************************************************************************)
(* Small instances of the libraries.                                       *)
(***************************************************************************)
EXTENDS Library

MCInserts == {<<>>, <<1>>, <<2>>, <<1, 2>>, <<2, 1, 1>>}

MCOptionSets == {{}, {"no_grow"}, {"no_shrink"}}

MCCode(key) == CASE key = 1 -> 0 [] key = 2 -> 1 [] key = 3 -> 9

MCThreshold == [t \in {"link", "block"} |-> IF t = "link" THEN 1 ELSE 0]

MCLayouts == {<<2, 0, 1>>, <<0, 3>>}

MCDeltas == {Time(0, 0), Time(0, 1), Time(1, 0)}

MCPairs == [skl |-> {<<1, 1>>, <<2, 1>>, <<2, 2>>},
            hash |-> {<<1, 1>>, <<1, 2>>, <<3, 1>>}]

MCIds == [timers |-> {"a", "b"}, descriptors |-> {"a"}]

MCFds == [timers |-> {<<"f", 2>>}, descriptors |-> {<<"f", 2>>, <<"g", 2>>, <<"h", 0>>}]

MCEndOfTime == [timers |-> Time(1, 1), descriptors |-> Time(0, 0)]

=============================================================================
