------------------------------ MODULE FwInstall ------------------------------
(* What a firmware update promises, without blocks, retries or answers: the   *)
(* package on a device changes in one piece, only to a package that a run has *)
(* asked for and that is no dry run, and a run that reports success leaves    *)
(* its own package there.                                                     *)
CONSTANTS
  Procs,     \* who runs updates
  Packages,  \* the packages there are
  Nothing    \* no package

VARIABLES
  want,      \* want[p]: the package the run of p is to install, or Nothing
  dry,       \* dry[p]: the run of p is not to install anything
  outcome,   \* outcome[p] of the last run of p
  late,      \* a package the device has accepted and is still checking
  slot       \* the package on the device

vars == <<want, dry, outcome, late, slot>>

Init ==
  /\ want = [p \in Procs |-> Nothing]
  /\ dry = [p \in Procs |-> FALSE]
  /\ outcome = [p \in Procs |-> "none"]
  /\ late = Nothing
  /\ slot = Nothing

Begin(p) ==
  /\ want[p] = Nothing
  /\ \E k \in Packages : want' = [want EXCEPT ![p] = k]
  /\ \E d \in BOOLEAN : dry' = [dry EXCEPT ![p] = d]
  /\ outcome' = [outcome EXCEPT ![p] = "none"]
  /\ UNCHANGED <<late, slot>>

\* A run that cannot even begin.
Reject(p) ==
  /\ want[p] = Nothing
  /\ outcome' = [outcome EXCEPT ![p] = "failure"]
  /\ UNCHANGED <<want, dry, late, slot>>

MayInstall(p) == want[p] # Nothing /\ ~ dry[p] /\ late = Nothing

Install(p) ==
  /\ MayInstall(p)
  /\ slot' = want[p]
  /\ UNCHANGED <<want, dry, outcome, late>>

Accept(p) ==
  /\ MayInstall(p)
  /\ late' = want[p]
  /\ UNCHANGED <<want, dry, outcome, slot>>

InstallLate ==
  /\ late # Nothing
  /\ slot' = late
  /\ late' = Nothing
  /\ UNCHANGED <<want, dry, outcome>>

Succeed(p) ==
  /\ want[p] # Nothing
  /\ slot = want[p]
  /\ ~ dry[p]
  /\ want' = [want EXCEPT ![p] = Nothing]
  /\ outcome' = [outcome EXCEPT ![p] = "success"]
  /\ dry' = [dry EXCEPT ![p] = FALSE]
  /\ UNCHANGED <<late, slot>>

Fail(p) ==
  /\ want[p] # Nothing
  /\ want' = [want EXCEPT ![p] = Nothing]
  /\ outcome' = [outcome EXCEPT ![p] = "failure"]
  /\ dry' = [dry EXCEPT ![p] = FALSE]
  /\ UNCHANGED <<late, slot>>

Next ==
  \/ \E p \in Procs :
       Begin(p) \/ Reject(p) \/ Install(p) \/ Accept(p) \/ Succeed(p) \/ Fail(p)
  \/ InstallLate

\* That a run comes to its report is the promise RunsEnd of FwUpdate.
Safety == Init /\ [][Next]_vars
=============================================================================
