------------------------------ MODULE MCWorkerLease ------------------------------
(***************************************************************************)
(* WorkerLease with the fairness its liveness needs: the event loop of a   *)
(* live process runs each of its loops, its timers fire, the deployment    *)
(* restarts a process that ended, and PostgreSQL reaps dead sessions.      *)
(* Nothing makes a fault happen.                                           *)
(***************************************************************************)
EXTENDS WorkerLease

FairLeaseSpec ==
    /\ LeaseSpec
    /\ \A w \in Poller : /\ WF_leaseVars(LeaseStep(w))
                         /\ WF_leaseVars(SourceLoopStep(w))
                         /\ WF_leaseVars(OutboxLoopStep(w))
                         /\ WF_leaseVars(MonitorStep(w))
===============================================================================
