----------------------------- MODULE MCServices -----------------------------
(* Small instances of the kernel's services. *)
EXTENDS Services

E(base, length, type) == [base |-> base, length |-> length, region_type |-> type]
Ev(events, mws, mode, static, given) ==
  [events |-> events, mws |-> mws, mode |-> mode, static |-> static, context |-> given]
Kind(k) == [kind |-> k]
Ring(n) == [kind |-> "permission", ring |-> n]
Retry(n) == [kind |-> "retry", max_retries |-> n]

\* Pages of 4 bytes: the kernel's are 1 and 2, free ones start at 3.
MCMaps == {
  << E(0, 14, 1), E(14, 5, 2), E(19, 9, 1) >>,    \* ends inside a page, and starts inside one
  << E(20, 12, 1), E(0, 8, 3), E(8, 2, 1) >>,     \* not in order, the last within a page
  << E(16, 40, 1) >>,                             \* beyond the frames that are tracked
  << E(0, 12, 1), E(12, 8, 5) >> }                \* nothing above the kernel
MCLayouts == {[size |-> 1, align |-> 4], [size |-> 3, align |-> 1], [size |-> 2, align |-> 2]}

MCTasks == {"idle", "t1", "t2", "t3"}
MCPriority == [t \in MCTasks |-> CASE t = "idle" -> 0 [] t = "t3" -> 3 [] OTHER -> 2]

Vesa == << <<"vesa_addr", 1>>, <<"vesa_w", "640x480">>, <<"vesa_h", "640x480">>, <<"vesa_bpp", 8>>, <<"vesa_pitch", 1>> >>
DriverMws == <<Kind("logging"), Kind("dependency")>>
Plain(n) == [i \in 1..n |-> "any"]
MCBuilt ==
  {Ev(Drivers, DriverMws, "BestEffort", FALSE, Vesa),
   Ev(Drivers, DriverMws, "BestEffort", FALSE, <<>>),
   Ev(Plain(2), <<Retry(1), Kind("logging"), Retry(1)>>, "Lenient", FALSE, <<>>),
   Ev(Plain(2), <<Retry(2)>>, "Strict", FALSE, <<>>),
   Ev(Plain(4), <<Retry(1)>>, "BestEffort", FALSE, <<>>),
   Ev(Plain(7), <<>>, "Lenient", FALSE, <<>>),     \* one more than an EventChain takes
   Ev(Plain(3), <<>>, "BestEffort", TRUE, <<>>),
   Ev(Plain(7), <<>>, "Lenient", TRUE, <<>>),      \* one more than a result reports
   Ev(<<"Write">>, <<Ring(0)>>, "Strict", FALSE, << <<"ring", 3>> >>),
   Ev(<<"Write">>, <<Ring(0)>>, "Strict", FALSE, << <<"ring", 256>> >>)}
  \cup {Ev(<<event_of(n)>>, <<Kind("audit"), Ring(3)>>, "Strict", FALSE,
           << <<"ring", 3>>, <<"arg1", 1>>, <<"arg2", 0>>, <<"arg3", 5>> >>) : n \in 0..15}

MCRel == {<<9, 2, 0>>, <<24, 253, 8>>, <<136, 1, 1>>}
MCAbs == {<<128, 4, 20, 129, 16, 5>>, <<140, 8, 30, 137, 0, 0>>, <<129, 4, 20, 129, 0, 5>>}

MCTitles == {{"POKEMON", "RED"}, {"POKEMON", "YELLOW"}, {"POKEMON", "GOLD"}, {"CRYSTAL"}, {"TETRIS"}}
MCStart ==
  [name |-> <<128, 129>>, money |-> 3000, badges |-> 1, owned |-> <<1, 0>>, kanto |-> 0, group |-> 1, map |-> 5,
   party_count |-> 1, species |-> 25, level |-> 5, hp |-> 20, hp_max |-> 20, attack |-> 12,
   special |-> 300, moves |-> <<<<33, 45, 0, 0>>, <<35, 40, 0, 0>>>>,
   battle |-> 0, enemy |-> <<16, 13>>, enemies |-> 3]
Other ==
  [name |-> {<<160, 246, 127>>}, money |-> {99}, badges |-> {129}, owned |-> {<<255, 1>>}, kanto |-> {3}, map |-> {6}, group |-> {2},
   party_count |-> {0}, species |-> {26, 255}, level |-> {6}, hp |-> {0, 9}, hp_max |-> {300},
   moves |-> {<<<<33, 45, 98, 0>>, <<0, 40, 63, 192>>>>}, battle |-> {1, 2}, enemy |-> {<<17, 300>>}]
MCValues == [f \in DOMAIN Other |-> Other[f] \cup {MCStart[f]}]
=============================================================================
