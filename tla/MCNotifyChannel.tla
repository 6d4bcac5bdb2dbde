-------------------------- MODULE MCNotifyChannel --------------------------
(* Two runs and up to three subscribe/unsubscribe emits.                  *)
EXTENDS NotifyChannel

MCRuns == {"run_a", "run_b"}
=============================================================================
