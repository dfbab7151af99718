------------------------- MODULE MC_K8SExecutor -------------------------
(* Small instances of K8SExecutor for TLC.  Two jobs share an eval hash   *)
(* (the reunification and name-conflict cases), one task is a script      *)
(* task, and the uid pool leaves room for one preexisting k8s Job plus a  *)
(* new k8s Job per logical job.                                           *)
EXTENDS K8SExecutor

CONSTANTS j1, j2, j3, h1, h2, t1, t2

\* j1 and j2 run the same task on the same inputs (same eval hash); j3 is
\* a script task.
MCJobHash == [j \in Jobs |-> IF j = j3 THEN h2 ELSE h1]
MCJobTask == [j \in Jobs |-> IF j = j3 THEN t2 ELSE t1]
MCScriptTasks == {t2}

\* The crash-free configuration of the liveness runs: no script task, each
\* job its own task and hash.
MCJobHashDistinct == [j \in Jobs |-> IF j = j1 THEN h1 ELSE h2]
MCJobTaskDistinct == [j \in Jobs |-> IF j = j1 THEN t1 ELSE t2]
=============================================================================
