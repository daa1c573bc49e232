------------------------- MODULE MCSandboxLifecycle -------------------------
(***************************************************************************)
(* SandboxLifecycle for TLC, with a history variable that says whether the *)
(* Durable Object has left memory.  Most of what the code promises about a *)
(* pause, resume or teardown in flight is forgotten then.                  *)
(***************************************************************************)
EXTENDS SandboxLifecycle

VARIABLE evicted

MCInit == Init /\ evicted = FALSE
MCNext ==
    \/ Next /\ UNCHANGED evicted
    \/ Evict /\ evicted' = TRUE
MCSpec ==
    /\ MCInit /\ [][MCNext]_<<vars, evicted>>
    /\ Continues /\ Reconnects

\* No run is sent to a sandbox that is paused or about to be
\* (isSandboxPausing), until an eviction forgets the pause in flight.
RunIsOnRunningSandboxUntilEviction == ~evicted => RunIsOnRunningSandbox

\* A socket that dropped is never overlooked (recoverAfterFailedPause,
\* completeResume), until an eviction forgets the pause in flight.
LostSocketIsNoticedUntilEviction == ~evicted => LostSocketIsNoticed

\* Of the preview commands given while the agent could not be reached the
\* latest wins (deferPreviewCommandWhileUnavailable, flushPendingPreviewAction).
LatestPreviewCommandWinsUntilEviction == ~evicted => LatestPreviewCommandWins

\* A request that waits gets its run, or the Session fails, whatever pauses,
\* resumes and drops it meets, unless an eviction forgets a resume or a drain
\* on the way (doResume, doPause, drainQueuedAgentWorkIfReady).
QueuedRunIsServedUnlessEvicted ==
    meta.queued > 0 ~> meta.state \in {"executing", "failed"} \/ evicted

\* The end of a Session frees its sandbox unless the provider refuses, or an
\* eviction cuts the teardown off (terminateSandbox).
EndedSessionFreesSandboxUnlessEvicted ==
    Terminal ~> (vm = "gone" \/ ending = "gaveUp" \/ evicted)
=============================================================================
