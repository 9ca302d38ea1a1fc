---------------------------- MODULE OwnedSequence ----------------------------
(***************************************************************************)
(* What a collection in an arena promises: it holds the values it was      *)
(* given in the order in which they came, the last may be taken back, and  *)
(* when it is closed each of those left is dropped once, first to last.    *)
(***************************************************************************)
EXTENDS SequencesExt

CONSTANT Value

VARIABLES open,     \* values may be given and taken back
          contents, \* the values held
          gone      \* those of them that were dropped

sequenceVars == <<open, contents, gone>>

Init == open = TRUE /\ contents = <<>> /\ gone = {}

\* Several values may be given at once.
Give ==
  /\ open
  /\ contents' \in Seq(Value) /\ IsInjective(contents')
  /\ IsPrefix(contents, contents')
  /\ UNCHANGED <<open, gone>>

TakeBack ==
  /\ open /\ contents # <<>>
  /\ contents' = Front(contents)
  /\ UNCHANGED <<open, gone>>

Close == open' = FALSE /\ UNCHANGED <<contents, gone>>

DropNext ==
  /\ ~open
  /\ \E k \in 1..Len(contents) :
       /\ gone = Range(SubSeq(contents, 1, k - 1))
       /\ gone' = gone \cup {contents[k]}
  /\ UNCHANGED <<open, contents>>

Next == Give \/ TakeBack \/ Close \/ DropNext

Spec == Init /\ [][Next]_sequenceVars
=============================================================================
