---------------------------- MODULE MCLibraryRuns ---------------------------
(***************************************************************************)
(* Several groups of calls of FreezerLib in one run.                       *)
(***************************************************************************)
EXTENDS MCFreezerLib

\* Each behaviour has one process that makes every kind of call, or two that
\* disturb each other's locks (one for everyone except a user), so that the state spaces add up.
VARIABLE focus
ExceptCalls == {call \in LockCalls : call.except}
DisturbingCalls ==
  {call \in LockCalls \ ExceptCalls : call.uid = bob => call.action = "LOCK"}
Focus == [calls |-> [p \in Process |-> IF p = p1 THEN FileCalls ELSE {}],
          locks |-> [p \in Process |-> IF p = p1 THEN ExceptCalls
                                                ELSE DisturbingCalls]]

FocusedInit == LibInit /\ focus \in DOMAIN Focus
FocusedNext ==
  /\ \E p \in Process :
       \/ LibStep(p) \/ receive_message_fails(p) \/ Killed(p)
       \/ \E call \in Focus[focus][p] : Call_api(p, call)
  /\ UNCHANGED focus
FocusedSpec ==
  /\ FocusedInit /\ [][FocusedNext]_<<libvars, focus>>
  /\ \A p \in Process : WF_libvars(LibStep(p))

=============================================================================
