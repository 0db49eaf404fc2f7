----------------------------- MODULE Coroutines -----------------------------
(***************************************************************************)
(* What Fiber promises a Ruby program about who runs: the executors that   *)
(* are active form one chain of resumes that ends at the running one.      *)
(* Only a suspended executor is entered, and the running one hands control *)
(* back to whoever entered it, suspended again or for good.  RubyFibers    *)
(* implements it.                                                          *)
(***************************************************************************)
CONSTANTS
  Executors,
  Main,
  None

VARIABLES
  running,    \* the executor that runs Ruby
  status,     \* status[x]: "absent", "suspended", "active" or "dead"
  resumer     \* resumer[x]: who entered x, while x is active

vars == <<running, status, resumer>>

Init ==
  /\ running = Main
  /\ status \in [Executors -> {"absent", "suspended", "active"}]
  /\ \A x \in Executors : status[x] = "active" <=> x = Main
  /\ resumer = [x \in Executors |-> None]

Create(x) ==
  /\ status[x] = "absent"
  /\ status' = [status EXCEPT ![x] = "suspended"]
  /\ UNCHANGED <<running, resumer>>

Enter(x) ==
  /\ status[x] = "suspended"
  /\ status' = [status EXCEPT ![x] = "active"]
  /\ resumer' = [resumer EXCEPT ![x] = running]
  /\ running' = x

\* The running executor gives control back and is in state s from then on.
Leave(s) ==
  /\ status[running] = "active"
  /\ running # Main
  /\ status' = [status EXCEPT ![running] = s]
  /\ running' = resumer[running]
  /\ resumer' = [resumer EXCEPT ![running] = None]

Next ==
  \/ \E x \in Executors : Create(x) \/ Enter(x)
  \/ Leave("suspended")
  \/ Leave("dead")

Spec == Init /\ [][Next]_vars
=============================================================================
