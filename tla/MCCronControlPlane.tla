------------------------- MODULE MCCronControlPlane -------------------------
(* CronControlPlane with two processes and two jobs of different targets, *)
(* one of them with a deployment_file of its own; a target is named exactly, *)
(* in capitals, as default, as auto, or not at all.                        *)
EXTENDS CronControlPlane, TLC

CONSTANTS p1, p2, backup, digest, file

MCProcs == {p1, p2}
MCJobs == {backup, digest}
MCRank == backup :> 1 @@ digest :> 2
MCGiven == {Own, "local_async", "LINUX_CRON", "default", "auto"}
MCHome == backup :> "linux_cron" @@ digest :> "local_async"
MCDeploymentFile == backup :> file @@ digest :> NoFile

Symmetry == Permutations(MCProcs)
=============================================================================
