--------------------------- MODULE RequestLifecycle ---------------------------
(***************************************************************************)
(* What a client of POST /collection-requests and of its polling endpoint  *)
(* is promised: each request is one state machine with one phase, at most  *)
(* one request per query is live, a settled request never changes, and     *)
(* only running work is settled.  That it is settled under the lease it    *)
(* runs on is a matter of tokens, which clients do not see: the modules of *)
(* the tasks say it.                                                       *)
(***************************************************************************)
EXTENDS Naturals

CONSTANTS Requests, Queries, NoQuery

VARIABLES
  phase,   \* phase[r]: the one status of request r
  subject, \* subject[r]: the query request r is about
  lease,   \* lease[r]: the generation that works on r, 0 when nobody does
  leases   \* number of leases granted so far

lifecycleVars == <<phase, subject, lease, leases>>

Live    == {"queued", "running"}
Settled == {"succeeded", "partial", "failed"}

Init ==
  /\ phase   = [r \in Requests |-> "absent"]
  /\ subject = [r \in Requests |-> NoQuery]
  /\ lease   = [r \in Requests |-> 0]
  /\ leases  = 0

Accept(r, q) ==
  /\ phase[r] = "absent"
  /\ \A other \in Requests : ~(subject[other] = q /\ phase[other] \in Live)
  /\ phase' = [phase EXCEPT ![r] = "queued"]
  /\ subject' = [subject EXCEPT ![r] = q]
  /\ UNCHANGED <<lease, leases>>

Grant(r) ==
  /\ phase[r] = "queued"
  /\ phase' = [phase EXCEPT ![r] = "running"]
  /\ leases' = leases + 1
  /\ lease' = [lease EXCEPT ![r] = leases + 1]
  /\ UNCHANGED subject

Return(r) ==
  /\ phase[r] = "running"
  /\ phase' = [phase EXCEPT ![r] = "queued"]
  /\ lease' = [lease EXCEPT ![r] = 0]
  /\ UNCHANGED <<subject, leases>>

Settle(r, s) ==
  /\ phase[r] = "running"
  /\ phase' = [phase EXCEPT ![r] = s]
  /\ UNCHANGED <<subject, lease, leases>>

\* Work nobody picked up can only fail.
Reject(r) ==
  /\ phase[r] = "queued"
  /\ phase' = [phase EXCEPT ![r] = "failed"]
  /\ UNCHANGED <<subject, lease, leases>>

Next ==
  \E r \in Requests :
    \/ \E q \in Queries : Accept(r, q)
    \/ Grant(r)
    \/ Return(r)
    \/ \E s \in Settled : Settle(r, s)
    \/ Reject(r)

Spec == Init /\ [][Next]_lifecycleVars
=============================================================================
