--------------------------- MODULE MCArrivalOrder ---------------------------
(* Model checking of ArrivalOrder. *)
EXTENDS ArrivalOrder

\* Two of the default policies; Class names one of the two and a class without a policy.
MCK == [COMMAND |-> 2, DEPLOYMENT |-> 1]

\* Three ops of one key and one time: two values, and a deletion by another node.
MCLabOp ==
  {[key |-> 1, value |-> 1, lamport |-> 1, node |-> 1, deletion |-> FALSE],
   [key |-> 1, value |-> 2, lamport |-> 1, node |-> 1, deletion |-> FALSE],
   [key |-> 1, value |-> 0, lamport |-> 1, node |-> 2, deletion |-> TRUE]}
MCHash(o) == 2 * (2 - o.value) + (IF o.deletion THEN 1 ELSE 0)

\* Registers that differ in their time, their writer, or only in being a tombstone.
MCRegister ==
  {[value |-> 1, time |-> 1, writer |-> 1, tombstone |-> FALSE],
   [value |-> 1, time |-> 1, writer |-> 1, tombstone |-> TRUE],
   [value |-> 1, time |-> 1, writer |-> 2, tombstone |-> FALSE],
   [value |-> 0, time |-> 2, writer |-> 1, tombstone |-> FALSE]}

\* Clocks that name a site, name it with zero, or leave it out.
MCClock == {<<>>, 1 :> 1, 2 :> 1, (1 :> 1) @@ (2 :> 0), (1 :> 1) @@ (2 :> 1)}

\* Collectors, honest reporters and windows are told apart by nothing.
MCSymmetry ==
  Permutations(Collector) \cup Permutations(Reporter \ Byzantine) \cup Permutations(Window)
=============================================================================
