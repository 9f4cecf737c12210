---------------------------- MODULE MCAppRecords ----------------------------
(***************************************************************************)
(* A small instance of AppRecords for TLC.                                 *)
(***************************************************************************)
EXTENDS AppRecords, TLC

CONSTANTS r1, r2, r3, small, middle, large, huge, n, m, w, a, b, c, d, host, dind, alpine

Symmetry == Permutations(Requests)

\* small fits everywhere, middle not into Docker's environment, large is
\* the largest the API lets through, huge the smallest it does not.
TextSize == (small :> 100) @@ (middle :> 131060) @@ (large :> 1048576) @@ (huge :> 1048577)

Ctr(image, config, policy, tty) ==
    [image |-> image, config |-> config, policy |-> policy, tty |-> tty]

Body(nm, imgs, ctrs, alwaysPull, docker) ==
    [name |-> nm, images |-> imgs, containers |-> ctrs, alwaysPull |-> alwaysPull,
     docker |-> docker, autostart |-> docker]

\* Of the names, m is good for containers only and w for nothing.
SomeBodies ==
    {Body(w, <<a>>, <<>>, FALSE, FALSE),
     [Body(m, <<d>>, <<>>, TRUE, FALSE) EXCEPT !.autostart = TRUE],
     Body(n, <<>>, <<Ctr(a, small, None, FALSE), Ctr(b, None, "Never", TRUE)>>, TRUE, TRUE),
     Body(n, <<>>, <<Ctr(a, middle, "Always", TRUE)>>, FALSE, FALSE),
     Body(n, <<>>, <<Ctr(c, None, "Never", FALSE), Ctr(a, large, "IfNotPresent", FALSE)>>, TRUE, TRUE),
     Body(n, <<>>, <<Ctr(a, None, None, FALSE), Ctr(a, huge, None, FALSE)>>, FALSE, FALSE),
     Body(n, <<>>, <<>>, FALSE, FALSE),
     Body(n, <<a>>, <<Ctr(a, small, None, FALSE)>>, FALSE, FALSE)}

=============================================================================
