-------------------------- MODULE ResponseContract --------------------------
(***************************************************************************)
(* What the server promises the client of a request, whatever routes,      *)
(* handlers, exceptions and forwards it takes: the response is begun at    *)
(* most once and completed once, it is recorded in the access log at most  *)
(* once and never before it ended, and a client that waits is answered.    *)
(***************************************************************************)
EXTENDS Naturals

CONSTANT Request

VARIABLES
    response,   \* response[r]: "absent" before r arrives, then how far it is
    gone,       \* requests whose client left before it was answered
    recorded    \* requests in the access log

vars == <<response, gone, recorded>>

Init == /\ response = [r \in Request |-> "absent"]
        /\ gone = {}
        /\ recorded = {}

Arrive(r) ==
    /\ response[r] = "absent"
    /\ response' = [response EXCEPT ![r] = "pending"]
    /\ UNCHANGED <<gone, recorded>>

Begin(r) ==
    /\ response[r] = "pending" /\ r \notin gone
    /\ response' = [response EXCEPT ![r] = "begun"]
    /\ UNCHANGED <<gone, recorded>>

\* It may be recorded in the same step.
Complete(r) ==
    /\ response[r] # "complete" /\ r \notin gone
    /\ response' = [response EXCEPT ![r] = "complete"]
    /\ recorded' \in {recorded, recorded \union {r}}
    /\ UNCHANGED gone

Leave(r) ==
    /\ response[r] \in {"pending", "begun"}
    /\ gone' = gone \union {r}
    /\ UNCHANGED <<response, recorded>>

\* What has ended, because it is complete or nobody waits for it, is recorded.
Record(r) ==
    /\ response[r] = "complete" \/ r \in gone
    /\ r \notin recorded
    /\ recorded' = recorded \union {r}
    /\ UNCHANGED <<response, gone>>

Next == \E r \in Request :
    Arrive(r) \/ Begin(r) \/ Complete(r) \/ Leave(r) \/ Record(r)

\* A client that waits is answered.
Serve(r) == response[r] # "absent" /\ Complete(r)

Spec == Init /\ [][Next]_vars /\ \A r \in Request : WF_vars(Serve(r))
=============================================================================
