--------------------------- MODULE WorkspaceCache ---------------------------
(***************************************************************************)
(* The cache of prepared workspaces that Sessions of one repository share. *)
(* A Session restores the latest snapshot before its agent starts; the     *)
(* sandbox refreshes or clones the repository and installs, unless the     *)
(* marker proves that it may skip that; once it is ready a durable job,    *)
(* carried out by the alarm of its object, backs the workspace up.         *)
(*                                                                         *)
(* An object has one alarm, of which only what concerns its job is kept.   *)
(* Times are "now" and "later", since only their order matters.  External: *)
(* D1, the backups of the sandbox provider (a restore that fails leaves    *)
(* the workspace alone), git (a clone into a directory that is not empty   *)
(* fails), and the package manager.                                        *)
(***************************************************************************)
EXTENDS Integers, Sequences, FiniteSets

CONSTANTS
    Sessions,       \* Sessions of the repository in the order of their creation,
                    \* each with its own object
    Heads,          \* commits of the default branch: how they set up, their lock
    FirstHead,      \* the one at the start
    NoHead,
    MaxAttempts,    \* MAX_WORKSPACE_CACHE_ATTEMPTS
    MaxCacheFaults  \* bound: failed calls and restarts

Hows == {"script", "none", "hooks", "install"}
Locks == {h.lock : h \in Heads}
NoLock == 0

ASSUME CacheAssumption ==
    /\ \A h \in Heads : h.how \in Hows /\ h.lock \in Nat \ {NoLock}
    /\ NoHead \notin Heads /\ FirstHead \in Heads /\ Sessions \subseteq Nat
    /\ MaxAttempts \in Nat \ {0} /\ MaxCacheFaults \in Nat

VARIABLES
    upstream,   \* the head of the default branch
    phase,      \* how far each Session is
    restored,   \* meta.workspace_cache_restored
    files,      \* /workspace of each sandbox, see Workspace
    job,        \* the row of workspace_cache_jobs
    carrying,   \* createSnapshot in flight, in memory, with the backup it took
    jobAlarm,   \* the alarm of each object
    scheduled,  \* snapshotAlarmScheduled: an event has armed it
    rows,       \* workspace_snapshots, in the order of created_at
    cacheFaults \* faults so far

cacheVars ==
    <<upstream, phase, restored, files, job, carrying, jobAlarm, scheduled, rows, cacheFaults>>
sandboxVars == <<upstream, phase, restored, files>>
jobVars == <<job, carrying, jobAlarm, scheduled>>

\* head: what is checked out; deps: the lock whose dependencies are installed;
\* marker: the lock that the marker's fingerprint was computed from; own:
\* whether a run's agent put the dependencies there.  A fingerprint stands for the lock,
\* the manifests and the tools together.
Workspace == [head : Heads \cup {NoHead}, deps : Locks \cup {NoLock},
              marker : Locks \cup {NoLock}, own : BOOLEAN]
Empty == [head |-> NoHead, deps |-> NoLock, marker |-> NoLock, own |-> FALSE]

NoJob == [status |-> "missing", attempts |-> 0, due |-> "never"]
Unfinished == {"pending", "running"}
Finished == {"ready", "failed", "exhausted"}

CacheFault == cacheFaults < MaxCacheFaults /\ cacheFaults' = cacheFaults + 1

-----------------------------------------------------------------------------
(* Provisioning: provisionSessionSandbox, restoreLatestWorkspaceCache *)

Steps(s, from, to) == phase[s] = from /\ phase' = [phase EXCEPT ![s] = to]

\* retrySandboxOperation: what passes is tried again, so it succeeds or fails
\* for good, and the Session with it.
Tries(s, from, to) ==
    \/ Steps(s, from, to) /\ UNCHANGED cacheFaults
    \/ Steps(s, from, "failed") /\ CacheFault

\* The provider's create.  (Bound: Sessions that provision at the same time
\* would only share the miss.)
IsSetUp(s) == phase[s] \in {"ready", "failed", "ended"}
Creates(s) ==
    /\ \A t \in Sessions : t < s => IsSetUp(t)
    /\ Tries(s, "new", "created")
    /\ UNCHANGED <<upstream, restored, files, jobVars, rows>>

\* The lookup; a miss and a failed lookup are the same to the caller.
LooksUp(s) ==
    /\ \/ Steps(s, "created", "restoring") /\ Len(rows) > 0 /\ UNCHANGED cacheFaults
       \/ Steps(s, "created", "restored") /\ Len(rows) = 0 /\ UNCHANGED cacheFaults
       \/ Steps(s, "created", "restored") /\ Len(rows) > 0 /\ CacheFault
    /\ UNCHANGED <<upstream, restored, files, jobVars, rows>>

\* restoreBackup of the newest row.
Newest == rows[Len(rows)]
Restores(s) ==
    /\ \/ /\ Steps(s, "restoring", "marking")
          /\ files' = [files EXCEPT ![s] = Newest.files] /\ UNCHANGED cacheFaults
       \/ Steps(s, "restoring", "restored") /\ CacheFault /\ UNCHANGED files
    /\ UNCHANGED <<upstream, restored, jobVars, rows>>

\* last_used_at; without it the restore is reported as a miss.
MarksUsed(s) ==
    /\ Steps(s, "marking", "restored")
    /\ \/ restored' = [restored EXCEPT ![s] = TRUE] /\ UNCHANGED cacheFaults
       \/ CacheFault /\ UNCHANGED restored
    /\ UNCHANGED <<upstream, files, jobVars, rows>>

\* startAgentOnHandle: only now does anything run in the sandbox.
StartsAgent(s) ==
    /\ Tries(s, "restored", "started")
    /\ UNCHANGED <<upstream, restored, files, jobVars, rows>>

-----------------------------------------------------------------------------
(* The sandbox: handleInit, setupRepository *)

\* readDependencyArtifactMarker, of a restored workspace only.
RestoredMarker(s) == IF restored[s] THEN files[s].marker ELSE NoLock

\* git clean -fdx spares the artifacts of the marker's strategy.
Spared(w, marker) == IF marker = NoLock THEN NoLock ELSE w.deps
Refreshed(w, marker) == [w EXCEPT !.head = upstream, !.deps = Spared(w, marker)]
Cloned(w) == [w EXCEPT !.head = upstream, !.deps = NoLock]

FailsSetup(s, from) == Steps(s, from, "failed") /\ UNCHANGED files

FetchesRepo(s) ==
    /\ IF restored[s] /\ files[s].head # NoHead
         THEN \/ /\ Steps(s, "started", "fetched")
                 /\ files' = [files EXCEPT ![s] = Refreshed(@, RestoredMarker(s))]
                 /\ UNCHANGED cacheFaults
              \/ CacheFault /\ FailsSetup(s, "started")
         ELSE \/ /\ files[s].head = NoHead
                 /\ Steps(s, "started", "fetched")
                 /\ files' = [files EXCEPT ![s] = Cloned(@)]
                 /\ UNCHANGED cacheFaults
              \/ files[s].head # NoHead /\ FailsSetup(s, "started") /\ UNCHANGED cacheFaults
              \/ CacheFault /\ FailsSetup(s, "started")
    /\ UNCHANGED <<upstream, restored, jobVars, rows>>

\* What the checkout asks for: its own script, a package manager whose install
\* may be skipped, one whose install runs hooks, or nothing.
RunsScript(head) == head.how = "script"
HasStrategy(head) == head.how \in {"install", "hooks"}
HasHooks(head) == head.how = "hooks"
Fingerprint(head) == head.lock

\* dependencyMarkerMatches and dependencyArtifactsPresent.
MarkerPresent(s, lock) == RestoredMarker(s) # NoLock
MarkerMatches(s, lock) == RestoredMarker(s) = lock
ArtifactsPresent(w) == w.deps # NoLock
Reusable(s, head) == MarkerMatches(s, Fingerprint(head)) /\ ArtifactsPresent(files[s])

\* An install: the marker is removed before, and written after it if a
\* fingerprint can be had.
WithoutMarker(w) == [w EXCEPT !.marker = NoLock]
Installed(w, head) == [w EXCEPT !.deps = head.lock, !.own = FALSE]
Marked(w, head) == [w EXCEPT !.marker = Fingerprint(head)]

\* setupRepository; a fingerprint that cannot be had is no fault of the setup.
Setup(s) ==
    LET head == files[s].head
        w == WithoutMarker(files[s])
        installed == Installed(w, head)
        Leaves(x) == files' = [files EXCEPT ![s] = x] /\ UNCHANGED cacheFaults
    IN  \/ RunsScript(head) /\ Leaves(installed)
        \/ ~RunsScript(head) /\ ~HasStrategy(head) /\ Leaves(w)
        \/ HasHooks(head) /\ Leaves(installed)
        \/ /\ HasStrategy(head) /\ ~HasHooks(head)
           /\ \/ Reusable(s, head) /\ Leaves(files[s])
              \/ ~Reusable(s, head) /\ (Leaves(installed) \/ Leaves(Marked(installed, head)))
              \/ /\ Reusable(s, head) /\ CacheFault
                 /\ files' \in {[files EXCEPT ![s] = x] : x \in {installed, Marked(installed, head)}}

\* clone_complete: handleSandboxCloneComplete makes the Session ready and
\* enqueues the job, which arms the alarm.
Enqueued(s) ==
    /\ job' = [job EXCEPT ![s] = [status |-> "pending", attempts |-> 0, due |-> "now"]]
    /\ jobAlarm' = [jobAlarm EXCEPT ![s] = "now"]
    /\ UNCHANGED <<carrying, scheduled>>

SetsUp(s) ==
    /\ phase[s] = "fetched"
    /\ \/ Steps(s, "fetched", "ready") /\ Setup(s) /\ Enqueued(s)
       \/ /\ files[s].head.how # "none" /\ CacheFault
          /\ FailsSetup(s, "fetched") /\ UNCHANGED jobVars
    /\ UNCHANGED <<upstream, restored, rows>>

-----------------------------------------------------------------------------
(* The Session while its job waits or runs, and its repository.  What becomes *)
(* of the workspace after that is no longer seen.                           *)

JobWaits(s) == job[s].status \in Unfinished

\* A run's agent installs what another lock asks for (bound: once).
AgentInstalls(s, lock) ==
    /\ phase[s] = "ready" /\ JobWaits(s) /\ ~files[s].own /\ lock # files[s].deps
    /\ files' = [files EXCEPT ![s].deps = lock, ![s].own = TRUE]
    /\ UNCHANGED <<upstream, phase, restored, jobVars, rows, cacheFaults>>

\* stopSession and the other ends: the sandbox is stopped, and a call to it
\* later starts an empty one.
SessionEnds(s) ==
    /\ Steps(s, "ready", "ended") /\ JobWaits(s)
    /\ files' = [files EXCEPT ![s] = Empty]
    /\ UNCHANGED <<upstream, restored, jobVars, rows, cacheFaults>>

Push(h) ==
    /\ upstream # h /\ upstream' = h /\ CacheFault
    /\ UNCHANGED <<phase, restored, files, jobVars, rows>>

-----------------------------------------------------------------------------
(* The job: alarm, processWorkspaceCacheJob *)

NoBackup == [step |-> "no", took |-> Empty]
Carries(s, step) == carrying[s].step = step
Puts(s, j) == job' = [job EXCEPT ![s] = j]

\* armNextAlarm: the job's deadline, if it waits for one; one that is due is
\* clamped, not dropped.  (Other deadlines are later ones, or fire it early.)
ArmedFor(j) == IF j.status = "pending" THEN j.due ELSE "none"
Arms(s, j) == jobAlarm' = [jobAlarm EXCEPT ![s] = ArmedFor(j)]

\* onAlarm: events may arm the alarm again.
AlarmRuns(s) ==
    /\ jobAlarm[s] = "now" /\ Carries(s, "no")
    /\ scheduled' = [scheduled EXCEPT ![s] = FALSE]

\* isWorkspaceClaimableState: any state since clone_complete.
Claimable(s) == IsSetUp(s)
IsDue(s) == job[s].status = "pending" /\ job[s].due = "now" /\ Claimable(s)

\* An alarm that has nothing to do for the job, or is early, goes on to re-arm.
AlarmPasses(s) ==
    /\ AlarmRuns(s) /\ ~IsDue(s)
    /\ Arms(s, job[s])
    /\ UNCHANGED <<sandboxVars, job, carrying, rows, cacheFaults>>

\* claimWorkspaceCacheJob; the alarm is used up, and waits for the backup.
ClaimsUncounted(j) == [j EXCEPT !.status = "running", !.due = "never"]
Claimed(j) == [status |-> "running", attempts |-> j.attempts + 1, due |-> "never"]
Claims(s) ==
    /\ AlarmRuns(s) /\ IsDue(s)
    /\ Puts(s, Claimed(job[s]))
    /\ carrying' = [carrying EXCEPT ![s].step = "backup"]
    /\ jobAlarm' = [jobAlarm EXCEPT ![s] = "none"]
    /\ UNCHANGED <<sandboxVars, rows, cacheFaults>>

\* scheduleSnapshotPersist: an event takes the alarm over, once until it runs.
EventArms(s) ==
    /\ job[s].status = "pending" /\ ~scheduled[s]
    /\ jobAlarm' = [jobAlarm EXCEPT ![s] = "later"]
    /\ scheduled' = [scheduled EXCEPT ![s] = TRUE]
    /\ UNCHANGED <<sandboxVars, job, carrying, rows, cacheFaults>>

\* The attempt failed: another after a delay, or none.
MayRetry(j) == j.attempts < MaxAttempts
GaveUp(j, retryable) ==
    IF retryable /\ MayRetry(j) THEN [j EXCEPT !.status = "pending", !.due = "later"]
    ELSE [j EXCEPT !.status = IF retryable THEN "exhausted" ELSE "failed", !.due = "never"]
AttemptFails(s) ==
    /\ CacheFault
    /\ \E retryable \in BOOLEAN :
         LET j == GaveUp(job[s], retryable) IN Puts(s, j) /\ Arms(s, j)
    /\ carrying' = [carrying EXCEPT ![s] = NoBackup]

\* createBackup answers with what the workspace holds by then.
BackupAnswered(s) ==
    /\ Carries(s, "backup")
    /\ \/ /\ carrying' = [carrying EXCEPT ![s] = [step |-> "persist", took |-> files[s]]]
          /\ UNCHANGED <<job, jobAlarm, cacheFaults>>
       \/ AttemptFails(s)
    /\ UNCHANGED <<sandboxVars, scheduled, rows>>

\* The row is inserted and the job is ready, or the statement failed, in which
\* case the row may be there all the same.
Persisted(s) == Append(rows, [files |-> carrying[s].took, by |-> s])
ReadyJob(j) == [j EXCEPT !.status = "ready"]
RowAnswered(s) ==
    /\ Carries(s, "persist")
    /\ \/ /\ rows' = Persisted(s) /\ Puts(s, ReadyJob(job[s])) /\ Arms(s, ReadyJob(job[s]))
          /\ carrying' = [carrying EXCEPT ![s] = NoBackup]
          /\ UNCHANGED cacheFaults
       \/ AttemptFails(s) /\ rows' \in {rows, Persisted(s)}
    /\ UNCHANGED <<sandboxVars, scheduled>>

\* The clock.
AlarmIsDue(s) ==
    /\ jobAlarm[s] = "later" /\ jobAlarm' = [jobAlarm EXCEPT ![s] = "now"]
    /\ UNCHANGED <<sandboxVars, job, carrying, scheduled, rows, cacheFaults>>
JobIsDue(s) ==
    /\ job[s].due = "later" /\ job' = [job EXCEPT ![s].due = "now"]
    /\ UNCHANGED <<sandboxVars, jobAlarm, carrying, scheduled, rows, cacheFaults>>

\* recoverWorkspaceCacheJobAfterRestart: the attempt is lost, and so is a
\* provisioning, which times out unless its agent was on its way already.
Provisioning == {"created", "restoring", "marking", "restored"}
CutShort(s) ==
    IF phase[s] \in Provisioning
      THEN {"failed"} \cup (IF phase[s] = "restored" THEN {"started"} ELSE {})
      ELSE {phase[s]}
KeepsRunning(j) == j
Requeued(j) == IF j.status = "running" THEN [j EXCEPT !.status = "pending", !.due = "now"] ELSE j
Restart(s) ==
    /\ CacheFault /\ (JobWaits(s) \/ phase[s] \in Provisioning)
    /\ \E p \in CutShort(s) : phase' = [phase EXCEPT ![s] = p]
    /\ carrying' = [carrying EXCEPT ![s] = NoBackup]
    /\ Puts(s, Requeued(job[s]))
    /\ jobAlarm' = IF JobWaits(s) THEN [jobAlarm EXCEPT ![s] = "now"] ELSE jobAlarm
    /\ scheduled' = [scheduled EXCEPT ![s] = FALSE]
    /\ UNCHANGED <<upstream, restored, files, rows>>

-----------------------------------------------------------------------------
CacheInit ==
    /\ upstream = FirstHead
    /\ phase = [s \in Sessions |-> "new"]
    /\ restored = [s \in Sessions |-> FALSE]
    /\ files = [s \in Sessions |-> Empty]
    /\ job = [s \in Sessions |-> NoJob]
    /\ carrying = [s \in Sessions |-> NoBackup]
    /\ jobAlarm = [s \in Sessions |-> "none"]
    /\ scheduled = [s \in Sessions |-> FALSE]
    /\ rows = <<>> /\ cacheFaults = 0

\* What the platform and the sandbox carry out of themselves.
Goes(s) ==
    \/ Creates(s) \/ LooksUp(s) \/ Restores(s) \/ MarksUsed(s) \/ StartsAgent(s)
    \/ FetchesRepo(s) \/ SetsUp(s)
    \/ AlarmPasses(s) \/ Claims(s) \/ BackupAnswered(s) \/ RowAnswered(s)
    \/ AlarmIsDue(s) \/ JobIsDue(s)

CacheNext ==
    \/ \E s \in Sessions :
         \/ Goes(s)
         \/ \E l \in Locks : AgentInstalls(s, l)
         \/ SessionEnds(s) \/ EventArms(s) \/ Restart(s)
    \/ \E h \in Heads : Push(h)

CacheSpec == CacheInit /\ [][CacheNext]_cacheVars

\* Alarms fire at their time, and calls are answered.
AlarmFairness(s) ==
    /\ WF_cacheVars(AlarmPasses(s)) /\ WF_cacheVars(Claims(s))
    /\ WF_cacheVars(BackupAnswered(s)) /\ WF_cacheVars(RowAnswered(s))
    /\ WF_cacheVars(AlarmIsDue(s)) /\ WF_cacheVars(JobIsDue(s))
FairCacheSpec == CacheSpec /\ \A s \in Sessions : AlarmFairness(s)

-----------------------------------------------------------------------------
(* Properties *)

\* A Session is not ready with the dependencies of another lock: an install is
\* skipped only after a restore, for the marker's own lock, and over artifacts
\* that are those of the marker unless an agent replaced them before the backup
\* (setupRepository, dependencyMarkerMatches, the order of removing the marker
\* and installing).
ReadyMeansInstalled ==
    \A s \in Sessions :
      phase[s] = "ready" /\ files[s].head.how \in {"install", "hooks", "script"}
        => files[s].deps = files[s].head.lock \/ files[s].own

\* Snapshots are accounted for: a job makes no more rows than it made attempts,
\* and is ready only with a row of its own, whatever restarts and lost answers
\* it met (claimWorkspaceCacheJob, recoverWorkspaceCacheJobAfterRestart).
RowsOf(s) == {i \in 1 .. Len(rows) : rows[i].by = s}
RowsAreAccountedFor ==
    \A s \in Sessions :
      /\ Cardinality(RowsOf(s)) <= job[s].attempts
      /\ job[s].status = "ready" => RowsOf(s) # {}

\* Every job is finished, although one alarm serves the whole object, events
\* take it over, and a restart cuts the attempt off.
JobFinishes ==
    \A s \in Sessions : job[s].status \in Unfinished ~> job[s].status \in Finished
=============================================================================
