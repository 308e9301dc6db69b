--------------------------- MODULE ApprovalLedger ---------------------------
(***************************************************************************)
(* What the Human Decision Queue promises its users, free of calls, rows   *)
(* and clocks: requests are opened in order, an open request may receive   *)
(* one verdict, and a verdict never changes.                               *)
(***************************************************************************)
EXTENDS Naturals

CONSTANTS
  MaxApprovals,   \* bound: requests ever opened
  Verdicts        \* the final statuses

VARIABLE entry    \* for each request: "none", "open" or its verdict

Init == entry = [a \in 1 .. MaxApprovals |-> "none"]

Open(a) ==
  /\ entry[a] = "none"
  /\ \A b \in 1 .. (a - 1) : entry[b] # "none"
  /\ entry' = [entry EXCEPT ![a] = "open"]

Decide(a, v) ==
  /\ entry[a] = "open"
  /\ entry' = [entry EXCEPT ![a] = v]

Next == \E a \in 1 .. MaxApprovals : Open(a) \/ \E v \in Verdicts : Decide(a, v)

Spec == Init /\ [][Next]_entry
=============================================================================
