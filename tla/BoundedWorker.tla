---------------------------- MODULE BoundedWorker ----------------------------
(***************************************************************************)
(* What the agent runtime promises of each execution: it is started once,  *)
(* calls the outside world at most Limit times, only while it is working,  *)
(* and comes to one end.                                                   *)
(***************************************************************************)
EXTENDS Naturals

CONSTANTS Workers, Limit

VARIABLES
  phase,  \* "new", "working" or "ended"
  used    \* calls of the outside world so far

Init ==
  /\ phase = [w \in Workers |-> "new"]
  /\ used = [w \in Workers |-> 0]

Start(w) ==
  /\ phase[w] = "new"
  /\ phase' = [phase EXCEPT ![w] = "working"]
  /\ UNCHANGED used

Call(w) ==
  /\ phase[w] = "working"
  /\ used[w] < Limit
  /\ used' = [used EXCEPT ![w] = used[w] + 1]
  /\ UNCHANGED phase

End(w) ==
  /\ phase[w] = "working"
  /\ phase' = [phase EXCEPT ![w] = "ended"]
  /\ UNCHANGED used

Next == \E w \in Workers : Start(w) \/ Call(w) \/ End(w)

Spec == Init /\ [][Next]_<<phase, used>>
=============================================================================
