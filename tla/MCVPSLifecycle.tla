--------------------------- MODULE MCVPSLifecycle ---------------------------
(***************************************************************************)
(* Instances of VPSLifecycle for TLC.                                      *)
(***************************************************************************)
EXTENDS VPSLifecycle, TLC

CONSTANTS s1, s2, r1, t1, t2, c1, c2, c3, c4

OneSub == {s1}

TwoSubs == {s1, s2}

OneTask == {t1}

OneRequest == {r1}

TwoTasks == {t1, t2}

ThreeCids == {c1, c2, c3}

FourCids == {c1, c2, c3, c4}

\* The operations without the administrator's download-image.
NoDownloadImage == AllOps \ {"download-image"}

\* The operations that decide whether the pipeline is stranded or leaks: the
\* two that start it, and the one that deletes under it.
PipelineOps == {"approve", "download-image", "terminate"}

\* What two subscriptions do to each other through the worker slots, the
\* allocation locks and the list of one reconcile run.
TwoSubOps == {"approve", "stop", "terminate"}

\* Tasks and container ids are interchangeable.
Symmetry == Permutations(Tasks) \cup Permutations(Cids)

=============================================================================
