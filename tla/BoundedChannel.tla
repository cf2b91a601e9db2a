--------------------------- MODULE BoundedChannel ---------------------------
(***************************************************************************)
(* What the channel between a collector and a learner promises: batches    *)
(* come out in the order they were put in, none is lost or repeated as     *)
(* long as the receiver exists, whatever becomes of the sender, and never  *)
(* more than N are buffered.                                               *)
(***************************************************************************)
EXTENDS Integers, Sequences

CONSTANTS N,        \* the most batches buffered
          IdLimit   \* batches are numbered modulo IdLimit

VARIABLES open,      \* whether the sending side still exists
          listening, \* whether the receiving side still exists
          next,      \* the number of the next batch to be accepted
          contents   \* the numbers of the batches buffered, oldest first

vars == <<open, listening, next, contents>>

Init ==
  /\ open = TRUE
  /\ listening = TRUE
  /\ next = 0
  /\ contents = <<>>

Put ==
  /\ open /\ listening
  /\ Len(contents) < N
  /\ contents' = Append(contents, next)
  /\ next' = IF next + 1 = IdLimit THEN 0 ELSE next + 1
  /\ UNCHANGED <<open, listening>>

Take ==
  /\ listening
  /\ contents # <<>>
  /\ contents' = Tail(contents)
  /\ UNCHANGED <<open, listening, next>>

(* The sender goes away, and whatever it was about to send with it; what   *)
(* is buffered stays.                                                      *)
Shut ==
  /\ open' = FALSE
  /\ UNCHANGED <<listening, next, contents>>

(* The receiver goes away for good, and whatever was buffered with it:     *)
(* the only step that loses a batch.                                       *)
Discard ==
  /\ listening
  /\ listening' = FALSE
  /\ contents' = <<>>
  /\ UNCHANGED <<open, next>>

Next == Put \/ Take \/ Shut \/ Discard

Spec == Init /\ [][Next]_vars
=============================================================================
