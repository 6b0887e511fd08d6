---- MODULE MCLevelEditor ----
(* A RAW file that is 4x4 in eight bits, 2x4 in sixteen, and 2x2 in floats,   *)
(* of which three are no heights; and one of 4x4.                             *)
EXTENDS LevelEditor
MCStoredRaw == ("a.raw" :> <<1, 0, 1, 1, 0, 1, 1, 1, 1, 1, 1, 1, 1, 0, 1, 0>>) @@ ("b.r16" :> [i \in 1 .. 32 |-> IF i % 3 = 0 THEN 1 ELSE 0])
MCScaleText == [path \in RawFiles |-> IF path = "a.raw" THEN 2 ELSE 0]
MCNames == {<<>>, <<"Tree Proxy">>, <<"SpeedTree Proxy">>, <<"Player Spawn">>, <<"Safe Zone">>, <<"scale">>}
MCTyped ==
    [name |-> {<<>>, <<"scale">>}, asset |-> {<<"scale">>}, type |-> {"safe_zone"}, position |-> {"one"},
     rotation |-> {}, scale |-> {"zero"}, radius |-> {}, visible |-> {FALSE}]
MCTypedOptions ==
    [width |-> {2}, height |-> {4}, format |-> {"u8", "f32"}, auto |-> {FALSE}, autoText |-> {}]
MCButtons == {<<"speedtree_proxy", <<"SpeedTree Proxy">>, 100>>, <<"safe_zone", <<"Safe Zone">>, 600>>}
MCBrushes ==
    {[mode |-> "Raise", centre |-> <<1, 1>>, radius |-> 2, amount |-> 9, flatten |-> 7],
     [mode |-> "Lower", centre |-> <<0, 1>>, radius |-> 1, amount |-> 20, flatten |-> 7],
     [mode |-> "Smooth", centre |-> <<1, 1>>, radius |-> 2, amount |-> 3, flatten |-> 7],
     [mode |-> "Flatten", centre |-> <<1, 0>>, radius |-> 1, amount |-> 5, flatten |-> 12]}
====
