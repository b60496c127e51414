------------------------------- MODULE MCParts -------------------------------
(***************************************************************************)
(* A small instance of each of the six modules of Parts.                   *)
(***************************************************************************)
EXTENDS Parts

CONSTANTS delayed,  \* the call that is delayed or repeated
          editor,   \* the thread that changes the targets
          first,    \* a target
          talker    \* the client that sends something

\* One of the calls is delayed or repeated, the others are of Post(f).
MCKindsOf(c) == IF c = delayed THEN {"count", "forever", "sure"} ELSE {"now"}

\* Each target has a point of its own; the second one of the other target does
\* not fit buf.
MCFits(d, k) == d = first \/ k = 0
MCPointOf(d, k) == IF k = 1 THEN 2 ELSE IF d = first THEN 1 ELSE 3

\* One thread changes the targets, the other reads the ring; both rebuild.
MCCallsOf(c) == IF c = editor THEN {"add", "remove", "rebuild"}
                              ELSE {"clear", "rebuild", "locate", "dump"}

\* set_size deletes all it can, deletes one, or creates.
MCResizes == {<<0, 1>>, <<1, 3>>, <<3, 0>>}

\* One client sends quit at once, or two other units and then one more, which
\* may be a quit together with what is left in buffer_.
MCStreams(c) == IF c = talker THEN {<<"qu", "it">>, <<"x", "it", "qu">>, <<"x", "it", "x">>}
                              ELSE {}
=============================================================================
