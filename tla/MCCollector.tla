----------------------------- MODULE MCCollector -----------------------------
(***************************************************************************)
(* Collector for TLC: Loki is the only source.  It answers at once, takes  *)
(* a part of the context, or hangs until the context is over.              *)
(***************************************************************************)
EXTENDS Collector

\* Alerts on one pod, whose logs are fetched.
PodAlerts == {{"pod", "namespace"}}

NoEvents == {<<>>}

===============================================================================
