-------------------------------- MODULE Rpc --------------------------------
(***************************************************************************)
(* What a Session promises the Dongle about each command it is given: the  *)
(* command is carried out at most once, it ends at most once, and it ends  *)
(* well only after it was carried out.  A command that failed may have     *)
(* been carried out, before or after its failure: the Session cannot tell. *)
(***************************************************************************)
CONSTANT Cmds

VARIABLES
  submitted,  \* the commands handed to the Session
  executed,   \* the commands the device has carried out
  outcome     \* how each command ended: "none" while it has not

vars == <<submitted, executed, outcome>>

Init ==
  /\ submitted = {}
  /\ executed = {}
  /\ outcome = [i \in Cmds |-> "none"]

Submit(i) ==
  /\ i \notin submitted
  /\ submitted' = submitted \cup {i}
  /\ UNCHANGED <<executed, outcome>>

Execute(i) ==
  /\ i \in submitted \ executed
  /\ executed' = executed \cup {i}
  /\ UNCHANGED <<submitted, outcome>>

Succeed(i) ==
  /\ i \in executed
  /\ outcome[i] = "none"
  /\ outcome' = [outcome EXCEPT ![i] = "ok"]
  /\ UNCHANGED <<submitted, executed>>

Fail(i) ==
  /\ i \in submitted
  /\ outcome[i] = "none"
  /\ outcome' = [outcome EXCEPT ![i] = "failed"]
  /\ UNCHANGED <<submitted, executed>>

Next == \E i \in Cmds : Submit(i) \/ Execute(i) \/ Succeed(i) \/ Fail(i)

Spec == Init /\ [][Next]_vars
=============================================================================
