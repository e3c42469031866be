---------------------------- MODULE MCMacAgent ----------------------------
(***************************************************************************)
(* The agent with small sets of touches.                                   *)
(***************************************************************************)
EXTENDS MacAgent

Touch(tips, hard) == [tips |-> tips, hard |-> hard, fits |-> TRUE]

\* More contacts than the wire can carry, two of them touching.
TooMany == [tips |-> 2, hard |-> FALSE, fits |-> FALSE]

\* One finger that rests, and a frame that is dropped: what matters is the
\* order of the threads.
Resting == {Touch(1, FALSE), TooMany}

\* One finger that presses hard, and a second one that joins it.
Joining == {Touch(1, TRUE), Touch(2, TRUE)}

\* One finger that may press, and a second one.  All of them fit: what the agent
\* misses it misses because it is not connected.
Pressing == {Touch(1, FALSE), Touch(1, TRUE), Touch(2, TRUE)}
=============================================================================
