--------------------------- MODULE MCTokenRequests ---------------------------
(* Small instances of TokenRequests. *)
EXTENDS TokenRequests, TLC

OneSupervisor == [e \in Employees |-> "m"]

\* Prices scaled with the allocations of the configurations, in the proportion
\* of the seeded options: coaching costs more than a project.
SmallCosts == [t \in {"task_offloading", "coaching"} |->
                 IF t = "coaching" THEN 2 ELSE 1]

Everything == Operations

Symmetry == Permutations(Requests) \cup Permutations(Calls)

=============================================================================
