----------------------------- MODULE MCCronEngine -----------------------------
(* Constants for model-checking the cron engine. *)
EXTENDS CronEngineProps

CONSTANTS daemon, shell, retried, plain, disabled, unknown

MCMaxAttempts == [j \in Jobs |-> IF j = retried THEN 2 ELSE 0]
=============================================================================
