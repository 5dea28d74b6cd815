---------------------------- MODULE CommandQueue ----------------------------
(***************************************************************************)
(* What a source of commands promises to the one who writes to it: items   *)
(* are taken in the order they were given, each at most once; a good one   *)
(* runs and any other is refused; and where MayLose holds, a take may drop *)
(* everything that waits except, perhaps, the item at the head.            *)
(***************************************************************************)
EXTENDS Sequences

CONSTANTS
  Item,      \* what can be given
  Good,      \* the items that run when they are taken
  MayLose    \* whether waiting items may be dropped

VARIABLES
  pending,   \* given and not yet taken
  done       \* what has run, oldest first

queueVars == <<pending, done>>

Init == pending = <<>> /\ done = <<>>

Give ==
  /\ \E i \in Item : pending' = Append(pending, i)
  /\ UNCHANGED done

Run ==
  /\ pending # <<>> /\ Head(pending) \in Good
  /\ pending' = Tail(pending)
  /\ done' = Append(done, Head(pending))

Refuse ==
  /\ pending # <<>> /\ Head(pending) \notin Good
  /\ pending' = Tail(pending)
  /\ UNCHANGED done

Lose ==
  /\ MayLose
  /\ pending # <<>>
  /\ pending' = <<>>
  /\ \/ UNCHANGED done
     \/ Head(pending) \in Good /\ done' = Append(done, Head(pending))

Next == Give \/ Run \/ Refuse \/ Lose

Spec == Init /\ [][Next]_queueVars
=============================================================================
