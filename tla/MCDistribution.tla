--------------------------- MODULE MCDistribution ---------------------------
(***************************************************************************)
(* The request dispatcher, master-slave and multi-master replication,      *)
(* model-checked in one run: they share no state, part says which one a    *)
(* behaviour is about.                                                     *)
(***************************************************************************)
EXTENDS RequestQueue, MasterSlave, MultiMaster

VARIABLE part

\* The peers as main adds them.
MCPeers == <<<<2, 3>>, <<1, 3>>, <<1, 2>>>>

mcVars == <<vars, msVars, mmVars, part>>

MCInit == Init /\ MsInit /\ MmInit /\ part \in {"dispatcher", "master-slave", "multi-master"}

Rq(A) == part = "dispatcher" /\ A /\ UNCHANGED <<msVars, mmVars, part>>
Ms(A) == part = "master-slave" /\ A /\ UNCHANGED <<vars, mmVars, part>>
Mm(A) == part = "multi-master" /\ A /\ UNCHANGED <<vars, msVars, part>>

MCNext == Rq(Next) \/ Ms(MsNext) \/ Mm(MmNext)

\* main and the threads of the dispatcher run as long as they can, a slave's loop
\* keeps running, and a replicateData call goes on when the peer's mutex stays free.
MCFairness ==
  /\ WF_mcVars(Rq(MainStep))
  /\ \A w \in Worker : WF_mcVars(Rq(WorkerStep(w)))
  /\ \A s \in 1 .. NSlaves : WF_mcVars(Ms(SlaveStep(s)))
  /\ \A x \in Master : WF_mcVars(Mm(replicateData(x)))

MCSpec == MCInit /\ [][MCNext]_mcVars /\ MCFairness
=============================================================================
