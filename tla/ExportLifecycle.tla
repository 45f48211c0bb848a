-------------------------- MODULE ExportLifecycle --------------------------
(***************************************************************************)
(* What the export API promises about one export, whatever the worker and  *)
(* the broker do: a request becomes pending work, pending work ends as a   *)
(* ready package or as a failure, and that outcome is final.  The only     *)
(* exception the code leaves open is the request handler's own last write, *)
(* which puts the export back to pending when it comes after the outcome.  *)
(***************************************************************************)

CONSTANT Exports            \* identifiers of export rows

VARIABLES phase,            \* phase[e]: what a client can conclude about e
          late              \* late[e]: the handler's "queued" write is to come

vars == <<phase, late>>

Init == /\ phase = [e \in Exports |-> "none"]
        /\ late = [e \in Exports |-> FALSE]

\* A client's request creates the export; its handler is still running.
Accept(e) == /\ phase[e] = "none"
             /\ phase' = [phase EXCEPT ![e] = "pending"]
             /\ late' = [late EXCEPT ![e] = TRUE]

\* The work ends.
Complete(e) == /\ phase[e] = "pending"
               /\ \E outcome \in {"ready", "failed"} :
                     phase' = [phase EXCEPT ![e] = outcome]
               /\ UNCHANGED late

\* The handler's last write: it hides an outcome that was there before it.
Acknowledge(e) == /\ late[e]
                  /\ phase' = [phase EXCEPT ![e] = "pending"]
                  /\ late' = [late EXCEPT ![e] = FALSE]

\* The handler ends without that write (broker refused, process died).
Forget(e) == /\ late[e]
             /\ late' = [late EXCEPT ![e] = FALSE]
             /\ UNCHANGED phase

Next == \E e \in Exports :
           Accept(e) \/ Complete(e) \/ Acknowledge(e) \/ Forget(e)

Spec == Init /\ [][Next]_vars
=============================================================================
