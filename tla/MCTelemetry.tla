------------------------------ MODULE MCTelemetry ------------------------------
(* An instance of Telemetry for TLC.                                        *)
EXTENDS Telemetry, TLC
CONSTANTS c1, c2, c3, name, create, run, modelDeployment, dataScienceJob, conda,
          container, t1, t2

(* Two deployments with different runtimes and a project run, the last two  *)
(* by one thread.                                                           *)
TwoThreads == c1 :> t1 @@ c2 :> t2 @@ c3 :> t2
Entries == c1 :> create @@ c2 :> create @@ c3 :> run
Infrastructures == c1 :> modelDeployment @@ c2 :> modelDeployment @@ c3 :> dataScienceJob
Runtimes == c1 :> conda @@ c2 :> container @@ c3 :> conda

=============================================================================
