---------------------------- MODULE RefinerJobs ----------------------------
(***************************************************************************)
(* semantic_refiner_node.py and worker_core.py: the executor's thread,     *)
(* which samples frames (FrameBundle), starts jobs and chooses the overlay *)
(* once a second, against the worker thread, which copies the bundle, runs *)
(* semantic-nav-memory, records the outcome and removes old jobs.  Both    *)
(* work on one directory tree, which outlives the process.                 *)
(*                                                                         *)
(* A job is its number: job directories are made one after the other, so   *)
(* numbers order them as their modification times do.  The timer reads the *)
(* records of all jobs in one step: a record becomes complete once, and    *)
(* one job is at work at a time.  What a job computes is one of its        *)
(* possible outcomes; only the pairing of cameras and poses, which the     *)
(* node does itself, is computed.                                          *)
(***************************************************************************)
EXTENDS FrameBundle, FiniteSets

CONSTANTS
  MinNewFrames,       \* min_new_frames_for_job
  MaxKeyframes,       \* worker_max_keyframes
  MaxCompleted,       \* max_completed_jobs
  MaxJobs             \* bound: jobs started, over all runs

ASSUME RefinerJobsConstants ==
  /\ {MinNewFrames, MaxCompleted, MaxJobs} \subseteq Nat
  /\ MaxKeyframes \in Nat \ {0, 1}

VARIABLES
  alive,              \* the process runs
  lastJobSaved,       \* _last_job_saved_frame_count
  worker,             \* what the worker thread does next
  copy,               \* its snapshot: manifest read, bundle copied, pairs
  stale,              \* stale_jobs of its cleanup
  jobs,               \* the job directories, in the order they were made
  startupIds,         \* _startup_completed_job_ids
  seen,               \* completed jobs the overlay timer has read
  overlay,            \* _overlay_job_id, or NoOverlay
  lastShown           \* history: the latest overlay of this run

jobVars == <<lastJobSaved, worker, copy, stale, jobs>>
overlayVars == <<startupIds, seen, overlay, lastShown>>
vars == <<bundleVars, callback, alive, jobVars, overlayVars>>

NoOverlay == 0

Records == {"none", "running", "failed", "rejected", "accepted"}
Verdicts == {"rejected", "accepted"}            \* of a completed job

Job == [record : Records, present : BOOLEAN, thisRun : BOOLEAN]

Copy == [read : Seq(Frame), bundle : Seq(Frame) \cup {Torn},
         listed : SUBSET Frame, quiet : BOOLEAN,
         cameras : Seq(Frame), whole : BOOLEAN]
NoCopy == [read |-> <<>>, bundle |-> <<>>, listed |-> {}, quiet |-> TRUE,
           cameras |-> <<>>, whole |-> FALSE]

WorkerSteps == {"off", "read", "list", "copy", "record", "run", "align",
                "clean", "remove", "release"}
CallbackSteps == {"spin", "stored", "truncated", "scanned"}

TypeOK ==
  /\ BundleTypeOK
  /\ callback \in CallbackSteps
  /\ alive \in BOOLEAN
  /\ lastJobSaved \in Frame
  /\ worker \in WorkerSteps
  /\ copy \in Copy
  /\ jobs \in Seq(Job)
  /\ stale \in SUBSET Nat
  /\ startupIds \in SUBSET Nat
  /\ seen \in SUBSET Nat
  /\ overlay \in Nat
  /\ lastShown \in Nat

Current == Len(jobs)                            \* the job being worked on

Present == {j \in DOMAIN jobs : jobs[j].present}
Completed == {j \in Present : jobs[j].record \in Verdicts}
Accepted == {j \in Completed : jobs[j].record = "accepted"}

Oldest(set) == CHOOSE j \in set : \A k \in set : j <= k            \* mutant
Newest(set) == CHOOSE j \in set : \A k \in set : k <= j

Set(record) == jobs' = [jobs EXCEPT ![Current].record = record]

-----------------------------------------------------------------------------
(* The executor's thread: starting a job                                    *)

(* _active_job is set from here until the thread releases it.              *)
MaybeRunJob ==
  /\ callback = "spin"
  /\ Len(buffer) >= MinFrames
  /\ Ready(buffer)
  /\ saved - lastJobSaved >= MinNewFrames
  /\ worker = "off"
  /\ Len(jobs) < MaxJobs
  /\ worker' = "read"
  /\ lastJobSaved' = saved
  /\ UNCHANGED <<bundleVars, callback, copy, stale, jobs, overlayVars>>

-----------------------------------------------------------------------------
(* The worker thread                                                        *)

(* An exception outside the job's own handlers: no cleanup.                *)
Raise == worker' = "release" /\ copy' = NoCopy

ReadManifest ==
  /\ worker = "read"
  /\ IF diskManifest = Torn
       THEN Raise
       ELSE /\ worker' = "list"
            /\ copy' = [NoCopy EXCEPT !.read = diskManifest,
                                      !.quiet = callback \notin {"stored", "truncated"}]
  /\ UNCHANGED <<stale, jobs>>

(* copytree lists the frames and makes the job's directory.                *)
ListFrames ==
  /\ worker = "list"
  /\ worker' = "copy"
  /\ copy' = [copy EXCEPT !.listed = files, !.bundle = diskManifest]
  /\ jobs' = Append(jobs, [record |-> "none", present |-> TRUE, thisRun |-> TRUE])
  /\ UNCHANGED stale

(* The manifest is copied before or after the frames.  A listed frame that *)
(* has been unlinked since may have been copied in time; if not, copytree  *)
(* raises, and the directory stays without a record.                       *)
CopyFrames ==
  /\ worker = "copy"
  /\ \/ /\ worker' = "record"
        /\ \/ UNCHANGED copy
           \/ copy' = [copy EXCEPT !.bundle = diskManifest]
     \/ ~(copy.listed \subseteq files) /\ Raise
  /\ UNCHANGED <<stale, jobs>>

SaveRecord ==
  /\ worker = "record"
  /\ worker' = "run"
  /\ Set("running")
  /\ UNCHANGED <<copy, stale>>

(* A full disk: a save raises, and so does the one of the handler; what    *)
(* was recorded last stays.                                                *)
SaveRecordFails ==
  /\ worker \in {"record", "run", "align"}
  /\ Raise
  /\ UNCHANGED <<stale, jobs>>

(* round(i * stride) of _select_evenly_spaced, halves to the even.         *)
RoundedRatio(a, b) ==
  LET q == a \div b
      r == 2 * (a % b)
  IN IF r < b \/ (r = b /\ q % 2 = 0) THEN q ELSE q + 1

Selected(frames) ==
  LET n == Len(frames)
  IN IF n <= MaxKeyframes THEN frames
     ELSE [i \in 1..MaxKeyframes |->
             frames[1 + RoundedRatio((i - 1) * (n - 1), MaxKeyframes - 1)]]

(* The pipeline takes the frames of its manifest that it finds, in the     *)
(* live bundle or in the snapshot.  (When it finds none it takes whatever  *)
(* images the snapshot has; here such a run fails.)                        *)
Found == At(copy.bundle,
            {i \in DOMAIN copy.bundle : copy.bundle[i] \in files \cup copy.listed})

Keyframes == Selected(Found)

(* COLMAP registers some of the keyframes; each becomes a camera.  The     *)
(* pipeline lost nothing if that makes as many as it found frames.         *)

RunSucceeds ==
  /\ worker = "run"
  /\ copy.bundle # Torn
  /\ \E registered \in (SUBSET DOMAIN Keyframes) \ {{}} :
       copy' = [copy EXCEPT
         !.bundle = <<>>, !.listed = {},
         !.cameras = At(Keyframes, registered),
         !.whole = Len(At(Keyframes, registered)) = Len(Found)]
  /\ worker' = "align"
  /\ UNCHANGED <<stale, jobs>>

(* Exit code, missing scene graph, timeout, or an exception while aligning.*)
RunFails ==
  /\ worker \in {"run", "align"}
  /\ worker' = "clean"
  /\ copy' = NoCopy
  /\ Set("failed")
  /\ UNCHANGED stale

(* Cameras and frames of the manifest are paired by position.              *)
Pairs ==
  {<<copy.cameras[i], copy.read[i]>> :
     i \in DOMAIN copy.cameras \cap DOMAIN copy.read}

(* Two pairs at least are needed for an alignment that may be accepted.    *)
Complete(verdict) ==
  /\ worker = "align"
  /\ verdict = "accepted" => Cardinality(Pairs) >= 2
  /\ worker' = "clean"
  /\ copy' = NoCopy
  /\ Set(verdict)
  /\ UNCHANGED stale

(* cleanup_old_jobs keeps the newest directories and the latest accepted   *)
(* job.                                                                    *)
Kept == {j \in Present : Cardinality({k \in Present : k > j}) < MaxCompleted}
NothingSpared == {}                                               \* mutant
LatestAccepted == IF Accepted = {} THEN {} ELSE {Newest(Accepted)}

CleanUp ==
  /\ worker = "clean"
  /\ worker' = "remove"
  /\ stale' = (Present \ Kept) \ LatestAccepted
  /\ UNCHANGED <<copy, jobs>>

RemoveJob ==
  /\ worker = "remove"
  /\ \E j \in stale :
       /\ stale' = stale \ {j}
       /\ jobs' = [jobs EXCEPT ![j].present = FALSE]
  /\ UNCHANGED <<worker, copy>>

CleanedUp ==
  /\ worker = "remove"
  /\ stale = {}
  /\ worker' = "release"
  /\ UNCHANGED <<copy, stale, jobs>>

ReleaseUnlessRaised ==                                            \* mutant
  /\ worker = "release"
  /\ worker' = IF jobs # <<>> /\ jobs[Current].record # "none"
                 THEN "off" ELSE "release"
  /\ UNCHANGED <<copy, stale, jobs>>

Release ==
  /\ worker = "release"
  /\ worker' = "off"
  /\ UNCHANGED <<copy, stale, jobs>>

WorkerStep ==
  /\ \/ ReadManifest \/ ListFrames \/ CopyFrames
     \/ SaveRecord \/ SaveRecordFails
     \/ RunSucceeds \/ RunFails
     \/ \E verdict \in Verdicts : Complete(verdict)
     \/ CleanUp \/ RemoveJob \/ CleanedUp \/ Release
  /\ UNCHANGED <<bundleVars, callback, lastJobSaved, overlayVars>>

-----------------------------------------------------------------------------
(* The executor's thread: the overlay timer                                 *)

(* _publish_overlay reads every job's record, then looks at its file again *)
(* for the time, and then loads the scene of the newest.                   *)
ReadRecords ==
  /\ callback = "spin"
  /\ callback' = "scanned"
  /\ seen' = Completed
  /\ UNCHANGED <<bundleVars, alive, jobVars, startupIds, overlay, lastShown>>

AllCompleted == seen                                              \* mutant
Candidates == seen \ startupIds

Latest == IF Candidates = {} THEN NoOverlay ELSE Newest(Candidates)

(* load_aligned_scene finds the files of an accepted job, or nothing.      *)
Loadable(j) == j \in Accepted

Showable == Latest # NoOverlay /\ jobs[Latest].record = "accepted"
            /\ (Latest # overlay => Loadable(Latest))

PublishOverlay ==
  /\ callback = "scanned"
  /\ Showable
  /\ overlay' = Latest
  /\ lastShown' = Latest

DropOverlay ==
  /\ callback = "scanned"
  /\ ~Showable
  /\ overlay' = NoOverlay
  /\ UNCHANGED lastShown

ChooseOverlay ==
  /\ PublishOverlay \/ DropOverlay
  /\ callback' = "spin"
  /\ seen' = {}
  /\ UNCHANGED <<bundleVars, alive, jobVars, startupIds>>

(* A job that was read has been removed since: the second look at its      *)
(* file, or loading it, raises out of the callback and ends the process.   *)
OverlayRaises ==
  /\ callback = "scanned"
  /\ ~(seen \subseteq Present)
  /\ alive' = FALSE
  /\ UNCHANGED <<bundleVars, callback, jobVars, overlayVars>>

-----------------------------------------------------------------------------
Init ==
  /\ BundleInit
  /\ callback = "spin"
  /\ alive = TRUE
  /\ lastJobSaved = 0
  /\ worker = "off"
  /\ copy = NoCopy
  /\ stale = {}
  /\ jobs = <<>>
  /\ startupIds = {}
  /\ seen = {}
  /\ overlay = NoOverlay
  /\ lastShown = NoOverlay

(* The process ends at any step and is started again: memory is lost, the  *)
(* worker thread with it; frames and jobs are still there.                 *)
Restart ==
  /\ NewBundle
  /\ callback' = "spin"
  /\ alive' = TRUE
  /\ lastJobSaved' = 0
  /\ worker' = "off"
  /\ copy' = NoCopy
  /\ stale' = {}
  /\ jobs' = [j \in DOMAIN jobs |-> [jobs[j] EXCEPT !.thisRun = FALSE]]
  /\ startupIds' = Completed
  /\ seen' = {}
  /\ overlay' = NoOverlay
  /\ lastShown' = NoOverlay

(* A frame stored while the bundle is being copied disturbs the copy.      *)
Disturb ==
  copy' = IF callback' = "stored" /\ worker \in {"list", "copy"}
            THEN [copy EXCEPT !.quiet = FALSE] ELSE copy

ExecutorStep ==
  \/ /\ ImageCallback
     /\ Disturb
     /\ UNCHANGED <<alive, lastJobSaved, worker, stale, jobs, overlayVars>>
  \/ MaybeRunJob /\ UNCHANGED alive
  \/ ReadRecords
  \/ ChooseOverlay
  \/ OverlayRaises

Next ==
  \/ alive /\ ExecutorStep
  \/ alive /\ WorkerStep /\ UNCHANGED alive
  \/ Restart

Spec == Init /\ [][Next]_vars

(* Both threads run, and a callback that was begun goes on; the worker's   *)
(* subprocess has a timeout.  The timer gets its turn among the images.    *)
(* Nothing is assumed of images and restarts.                              *)
Fairness ==
  /\ WF_vars(alive /\ WorkerStep /\ UNCHANGED alive)
  /\ WF_vars(alive /\ callback # "spin" /\ ExecutorStep)
  /\ SF_vars(alive /\ ReadRecords)

FairSpec == Spec /\ Fairness

-----------------------------------------------------------------------------
(* README of the package: "Weak or rejected alignments are not published   *)
(* as overlays", and "overlays appear only from jobs accepted during the   *)
(* current run", whatever an earlier run has left on disk.                 *)
OverlayIsOfThisRun ==
  overlay # NoOverlay =>
    /\ overlay \in DOMAIN jobs
    /\ jobs[overlay].record = "accepted"
    /\ jobs[overlay].thisRun

(* _write_pose_correspondences pairs every camera with the pose its frame  *)
(* was taken at, if no frame was stored while the bundle was copied and    *)
(* the pipeline lost no frame.                                             *)
PairsAreHonest ==
  worker = "align" /\ copy.quiet /\ copy.whole => \A p \in Pairs : p[1] = p[2]

(* _active_job does not stay set: whatever a job runs into, another may    *)
(* follow it.                                                              *)
JobsEnd == worker # "off" ~> worker = "off" \/ ~alive

Judged == {j \in DOMAIN jobs : jobs[j].thisRun /\ jobs[j].record \in Verdicts}
JudgedWell == {j \in Judged : jobs[j].record = "accepted"}

(* The latest job to be completed, if accepted, becomes the overlay: no    *)
(* cleanup takes it away first, and no older job stands in its way.        *)
ToShow(j) == j \in JudgedWell /\ \A k \in Judged : k <= j
AcceptedIsShown ==
  \A j \in 1..MaxJobs : ToShow(j) ~> overlay = j \/ ~ToShow(j) \/ ~alive

(* The overlay keeps the promises of OverlayPolicy: it moves forward and   *)
(* is given up for a newer job only, although cleanup, restarts and the    *)
(* other thread work on the same directories.                              *)
Policy == INSTANCE OverlayPolicy
            WITH Jobs <- 1..MaxJobs, judged <- Judged, accepted <- JudgedWell
ImplementsOverlayPolicy == Policy!Spec
=============================================================================
