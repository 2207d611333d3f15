---------------------------- MODULE MCUpdateGate ----------------------------
(* Values for UpdateGate: two admins, and releases older than, equal to and *)
(* newer than the version that runs.                                        *)
EXTENDS UpdateGate

CONSTANTS r1, r2

MCRequests == {r1, r2}
MCReleases == {1, 2, 3, 4}
MCVersion0 == 2
=============================================================================
