-------------------------- MODULE MCOperatingCycle --------------------------
(***************************************************************************)
(* Small instances of OperatingCycle, told apart by how the service is     *)
(* used.                                                                   *)
(***************************************************************************)
EXTENDS OperatingCycle, TLC

CONSTANTS c1, c2

OneCall  == {c1}
TwoCalls == {c1, c2}

NoKeys == {"none"}
Keyed  == {"none", "k1", "k2"}

Use(operations, load, cyclesUsed, reviews, restarts) ==
  [operations |-> operations, load |-> load, keys |-> NoKeys, cycles |-> cyclesUsed, reviews |-> reviews,
   crashes |-> restarts]

(* run-next-stage and the human's answers, the way a cycle is meant to be  *)
(* driven.                                                                 *)
Driven == {"start", "run", "human", "decide"}

(* Everything that can be called, one call after the other: with a restart,*)
(* and with reviews asked for in any stage.                                *)
Serial ==
  {Use(AllOperations, 1, 1, 1, 1), Use(AllOperations \ {"advance", "spend", "stop"}, 1, 1, 2, 0)}

(* Two calls that race to drive a cycle; two that race to start cycles; and*)
(* cycles that fail and are retried, and resumed without an answer.        *)
Racing ==
  {Use(Driven, 2, 1, 1, 0),
   [Use({"start"}, 2, 3, 0, 1) EXCEPT !.keys = Keyed],
   Use(Driven \cup {"fail", "retry", "resume"}, 1, 2, 2, 0)}

(* Cycles that somebody keeps driving and answering: with reviews asked for*)
(* in any stage, and with a budget that may be exceeded.                   *)
Fair ==
  {Use(Driven \cup {"route", "cancel", "stop"}, 1, 1, 2, 0), Use(Driven \cup {"stop", "spend"}, 1, 1, 2, 0)}

(* A cycle that is only advanced.                                          *)
Bookkept == {Use({"start", "advance"}, 1, 1, 1, 0)}

CallSymmetry == Permutations(TwoCalls)
=============================================================================
