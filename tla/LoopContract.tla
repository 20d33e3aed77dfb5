-------------------------- MODULE LoopContract --------------------------
(* What a program may count on from its event loop.  Operations are begun    *)
(* while the loop is open, each is over once, and the loop ends only when    *)
(* none is left; a job that throws makes it fail at any time.                *)

CONSTANT Ops            \* everything that can keep the loop open

VARIABLES pending,      \* the operations begun and not over
          state         \* "open", "ended" or "failed"

Init == pending \subseteq Ops /\ state = "open"

Begin == /\ state = "open"
         /\ pending \subseteq pending' /\ pending' \subseteq Ops
         /\ UNCHANGED state

Finish == /\ \E op \in pending : pending' = pending \ {op}
          /\ state # "ended"
          /\ UNCHANGED state

End == state = "open" /\ pending = {} /\ state' = "ended" /\ UNCHANGED pending

Fail == state = "open" /\ state' = "failed" /\ UNCHANGED pending

Next == Begin \/ Finish \/ End \/ Fail

Spec == Init /\ [][Next]_<<pending, state>>

============================================================================
