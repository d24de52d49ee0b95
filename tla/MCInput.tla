------------------------------ MODULE MCInput -------------------------------
(***************************************************************************)
(* Input with two keys: the arrow Up, which is keypad 8's scancode after   *)
(* an E0 prefix, and Enter, which selects a ROM and is the Start button.   *)
(* The keypad keys with the same scancodes mean nothing to either reader.  *)
(***************************************************************************)
EXTENDS Input

Up == <<"48", TRUE>>
Enter == <<"1C", FALSE>>
MCKeys == {Up, Enter}
MCSelectKeys == {Enter}

MCButtons == {"Up", "Start"}
MCMap == [k \in KeyCodes |->
            IF k = Up THEN "Up" ELSE IF k = Enter THEN "Start" ELSE "None"]
MCRow == [b \in MCButtons |-> IF b = "Up" THEN 0 ELSE 1]
MCBit == [b \in MCButtons |-> IF b = "Up" THEN 2 ELSE 3]

BothRows == {{0, 1}}
=============================================================================
