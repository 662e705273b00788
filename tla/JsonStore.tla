------------------------------ MODULE JsonStore ------------------------------
(***************************************************************************)
(* What a JSON state file promises the code that edits it: its content is  *)
(* always complete, and an edit, once made, stays.  An edit is one atomic  *)
(* step; a crash changes nothing.  The content is reduced to the number of *)
(* each writer's edits it holds.                                           *)
(***************************************************************************)
EXTENDS Naturals

CONSTANTS Writers, MaxEdits

VARIABLE content

Init == content = [w \in Writers |-> 0]

Edit(w) ==
    /\ content[w] < MaxEdits
    /\ content' = [content EXCEPT ![w] = @ + 1]

Next == \E w \in Writers : Edit(w)

Spec == Init /\ [][Next]_content
=============================================================================
