------------------------ MODULE MCKubernetesBackend ------------------------
(***************************************************************************)
(* Small instances of KubernetesBackend for TLC.                           *)
(***************************************************************************)
EXTENDS KubernetesRegistry, TLC

CONSTANTS r1, r2, r3, r4

Symmetry == Permutations(Requests)

AnApp(count, configured, autostart) ==
    [count |-> count, configured |-> configured, autostart |-> autostart]

\* Both containers configured; and one without configuration, started.
TwoConfigs == {AnApp(2, {0, 1}, FALSE), AnApp(2, {}, TRUE)}

\* Fewer than ten containers are listed by their index.
ByIndex == [i \in Index |-> i]

OneConfig == {AnApp(1, {0}, FALSE)}

=============================================================================
