---------------------------- MODULE PictureFeed -----------------------------
(***************************************************************************)
(* What the live stream promises a page, with no deltas, wake-ups or       *)
(* connections: the page shows pictures the server had, whole, in the      *)
(* order in which it had them, some of them skipped.                       *)
(***************************************************************************)
EXTENDS Sequences

CONSTANTS Pages, Pictures, Nothing   \* Nothing: the picture without trains

VARIABLES
  picture,    \* what the server would show now
  pending,    \* page -> pictures on their way to it
  view        \* page -> what it shows

Init ==
  /\ picture = Nothing
  /\ pending = [p \in Pages |-> <<>>]
  /\ view = [p \in Pages |-> Nothing]

Change == picture' \in Pictures /\ UNCHANGED <<pending, view>>

Send(p) == /\ pending' = [pending EXCEPT ![p] = Append(@, picture)]
           /\ UNCHANGED <<picture, view>>

Show(p) == /\ pending[p] # <<>>
           /\ view' = [view EXCEPT ![p] = Head(pending[p])]
           /\ pending' = [pending EXCEPT ![p] = Tail(@)]
           /\ UNCHANGED picture

\* A broken connection loses what was under way; a restart breaks them all.
Lose == /\ \E lost \in SUBSET Pages :
             pending' = [p \in Pages |-> IF p \in lost THEN <<>> ELSE pending[p]]
        /\ picture' \in {picture, Nothing}
        /\ UNCHANGED view

Next == Change \/ Lose \/ \E p \in Pages : Send(p) \/ Show(p)

Spec == Init /\ [][Next]_<<picture, pending, view>>

=============================================================================
