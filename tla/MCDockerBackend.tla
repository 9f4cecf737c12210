-------------------------- MODULE MCDockerBackend --------------------------
(***************************************************************************)
(* Small instances of DockerBackend for TLC.                               *)
(***************************************************************************)
EXTENDS DockerBackend, TLC

CONSTANTS r1, r2, r3, r4

Symmetry == Permutations(Requests)

AnApp(count, configured, docker, autostart) ==
    [count |-> count, configured |-> configured,
     docker |-> docker, autostart |-> autostart]

\* Two containers, the second configured, no sidecar; and one configured
\* container with sidecar and autostart.
TwoConfigs ==
    {AnApp(2, {1}, FALSE, FALSE), AnApp(1, {0}, TRUE, TRUE)}

OneConfig == {AnApp(1, {0}, TRUE, TRUE)}

\* Nothing but an x11 host and one container.
PlainConfig == {AnApp(1, {}, FALSE, FALSE)}

=============================================================================
