--------------------------- MODULE CompanyTables ---------------------------
(***************************************************************************)
(* What the components of the company have in common: the requests in      *)
(* flight, and the variables each component's behaviours use as its own.   *)
(***************************************************************************)
EXTENDS Integers, Sequences, FiniteSets

CONSTANT Calls                                              \* requests that may be in flight

VARIABLES
  use,        \* how the component is used in this behaviour
  db,         \* its tables
  calls,      \* call -> where it is
  memory,     \* what it keeps outside the tables, if anything
  history     \* what its properties need to remember
=============================================================================
