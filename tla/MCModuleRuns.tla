---------------------------- MODULE MCModuleRuns ----------------------------
(***************************************************************************)
(* Several groups of requests and calls of FreezerModule in one run.       *)
(***************************************************************************)
EXTENDS MCFreezerModule

\* Each behaviour keeps to one of the four groups of requests and calls, so
\* that their state spaces add up.
VARIABLE focus
Focus == [locks   |-> [requests |-> LockRequests, calls |-> LockCalls],
          files   |-> [requests |-> FileRequests, calls |-> FileCalls],
          process |-> [requests |-> ProcessRequests, calls |-> ProcessCalls],
          network |-> [requests |-> NetworkRequests, calls |-> NetworkCalls]]

FocusedInit == Init /\ focus \in DOMAIN Focus
FocusedNext ==
  /\ \/ \E req \in Focus[focus].requests : \E refused \in SUBSET Allocation(req) :
          freezer_recv_msg(req, refused)
     \/ \E c \in Focus[focus].calls :
          hooked_execve(c) \/ hooked_connect(c) \/ hooked_write(c) \/ hooked_openat(c)
  /\ UNCHANGED focus
FocusedSpec == FocusedInit /\ [][FocusedNext]_<<vars, focus>>

=============================================================================
