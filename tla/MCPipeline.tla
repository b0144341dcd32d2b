------------------------------ MODULE MCPipeline ------------------------------
(***************************************************************************)
(* Pipeline for TLC: the alerts and event lists that are considered.       *)
(***************************************************************************)
EXTENDS Pipeline

\* One alert per kind of target, with and without a namespace.
AllKinds ==
    {{}, {"namespace"}, {"pod", "namespace"}, {"pod"},
     {"deployment", "namespace"}, {"daemonset", "namespace"},
     {"statefulset", "namespace", "node"}, {"node"},
     {"persistentvolumeclaim", "namespace"}, {"pod", "persistentvolumeclaim"}}

\* Timestamps of an object's events in API order: one, and more than the cap
\* with the oldest first.
SomeEvents == {<<2>>, <<1, 4, 3>>}

OneDeployment == {{"deployment", "namespace"}}

NoEvents == {<<>>}

===============================================================================
