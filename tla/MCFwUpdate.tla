----------------------------- MODULE MCFwUpdate -----------------------------
(* Instances of FwUpdate small enough for TLC.  A block is two bytes; the     *)
(* files have no block, one full block, one short block, exactly two blocks   *)
(* and two blocks and a half.                                                 *)
EXTENDS FwUpdate, TLC

CONSTANTS p1, p2, empty, one, short, two, odd

MCFileSize ==
  [f \in Images |-> CASE f = empty -> 0 [] f = one -> 2 [] f = short -> 1
                      [] f = two -> 4 [] f = odd -> 5]

KillOnly == {"kill"}
AllButBoFail == AllFaults \ {"boFail"}
Contention == {"lostRsp", "background", "drop"}
\* The processes are interchangeable in every property fw_contend checks.
Interchangeable == Permutations(Procs)
RefuseOnly == {"refuse"}
=============================================================================
