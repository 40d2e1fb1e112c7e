---------------------------- MODULE MCAsyncStep ----------------------------
(* Engine settings for AsyncStep: drafts, deeper pipelines, a KV producer.   *)
EXTENDS AsyncStep

Config(k, n, handsOff) == [spec |-> k, pp |-> n, producer |-> handsOff]

\* Two drafts a step; three stages and a connector that drops stale output;
\* no drafts at all.
MCConfigs == {Config(2, 2, FALSE), Config(1, 3, TRUE), Config(0, 2, FALSE)}
=============================================================================
