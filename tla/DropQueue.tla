------------------------------ MODULE DropQueue ------------------------------
(***************************************************************************)
(* What an arena's drop lists promise: registered drop functions run once  *)
(* each, in the order of registration, when the arena dies; running the    *)
(* lists again runs nothing; a drop function that panics ends the run.     *)
(***************************************************************************)
EXTENDS Sequences

CONSTANTS Item     \* values with a registered drop function

VARIABLES queue,   \* items registered whose drop function has not run
          done,    \* items whose drop function was entered, in that order
          mode     \* "open": registering; "run": executing; "rest"; "broken"

queueVars == <<queue, done, mode>>

Init == queue = <<>> /\ done = <<>> /\ mode = "open"

Push(i) ==
  /\ mode = "open"
  /\ queue' = Append(queue, i)
  /\ UNCHANGED <<done, mode>>

Start ==
  /\ mode \in {"open", "rest"}
  /\ mode' = "run"
  /\ UNCHANGED <<queue, done>>

RunNext ==
  /\ mode = "run" /\ queue # <<>>
  /\ done' = Append(done, Head(queue))
  /\ queue' = Tail(queue)
  /\ UNCHANGED mode

Finish ==
  /\ mode = "run" /\ queue = <<>>
  /\ mode' = "rest"
  /\ UNCHANGED <<queue, done>>

Break ==
  /\ mode = "run" /\ done # <<>>
  /\ mode' = "broken"
  /\ UNCHANGED <<queue, done>>

Next == Start \/ RunNext \/ Finish \/ Break \/ \E i \in Item : Push(i)

Spec == Init /\ [][Next]_queueVars
=============================================================================
