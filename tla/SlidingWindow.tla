--------------------------- MODULE SlidingWindow ---------------------------
(***************************************************************************)
(* What a replay buffer promises its caller, whatever it is made of: it    *)
(* holds the newest N transitions, and a batch holds only transitions that *)
(* are held when it is drawn, and none older than the window asked for.    *)
(***************************************************************************)
EXTENDS Integers

CONSTANTS N,          \* the most transitions held at a time
          MayForget   \* whether an operation may give up part of the window

VARIABLES pushed,   \* how many transitions have been accepted so far
          window,   \* the arrival numbers of the transitions held
          batch     \* the transitions of the last batch, {} once the buffer changes

vars == <<pushed, window, batch>>

Init ==
  /\ pushed = 0
  /\ window = {}
  /\ batch = {}

Push ==
  /\ pushed' = pushed + 1
  /\ window' = {r \in window \union {pushed + 1} : r > pushed + 1 - N}
  /\ batch' = {}

(* An operation may give up the oldest part of the window (closing the     *)
(* spill file does), never a newer transition before an older one.         *)
Forget ==
  /\ MayForget
  /\ \E oldest \in 1 .. pushed + 1 :
        window' = {r \in window : r >= oldest}
  /\ batch' = {}
  /\ UNCHANGED pushed

Draw ==
  /\ batch' \subseteq window
  /\ UNCHANGED <<pushed, window>>

Next == Push \/ Forget \/ Draw

Spec == Init /\ [][Next]_vars
=============================================================================
