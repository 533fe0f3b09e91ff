--------------------------- MODULE MCParallelJobs ---------------------------
(* ParallelJobs for TLC.  The contexts of forEachModule do not interact but *)
(* through the errgroup and the Go context, so two modules show every      *)
(* interleaving; three volumes contend for the one semaphore.              *)
EXTENDS ParallelJobs

MCInit == Init /\ (ownContext => active <= 2)
MCSpec == MCInit /\ [][Next]_vars /\ Fairness
=============================================================================
