-------------------------- MODULE RefinerJobsProofs --------------------------
(***************************************************************************)
(* The refiner, for any number of jobs, frames and restarts: its overlay   *)
(* is an accepted job of this run, it keeps the promises of OverlayPolicy, *)
(* and an undisturbed copy of the bundle pairs cameras with the poses of   *)
(* their own frames.                                                       *)
(***************************************************************************)
EXTENDS RefinerJobs, WellFoundedInduction, TLAPS

LEMMA NewestOf ==
  ASSUME NEW n \in Nat, NEW T, T \subseteq 1..n, T # {}
  PROVE  Newest(T) \in T /\ \A t \in T : t <= Newest(T)
<1> DEFINE R == {n - t : t \in T}
<1>1. R \subseteq Nat /\ R # {}
  <2>1. \A t \in T : n - t \in Nat
    OBVIOUS
  <2>2. R \subseteq Nat
    BY <2>1
  <2>3. PICK t \in T : TRUE
    OBVIOUS
  <2>4. n - t \in R
    BY <2>3
  <2> QED BY <2>2, <2>4
<1>2. PICK m \in R : \A r \in R : <<r, m>> \notin OpToRel(<, Nat)
  BY <1>1, WFMin, NatLessThanWellFounded
<1>3. \A r \in R : r < m => <<r, m>> \in OpToRel(<, Nat)
  BY <1>1 DEF OpToRel
<1>4. \A r \in R : ~(r < m)
  BY <1>2, <1>3, Zenon
<1>5. PICK t \in T : m = n - t
  BY <1>2
<1>6. \A u \in T : u <= t
  <2> SUFFICES ASSUME NEW u \in T PROVE u <= t
    OBVIOUS
  <2>1. n - u \in R
    OBVIOUS
  <2>2. ~(n - u < n - t)
    BY <1>4, <1>5, <2>1
  <2> QED BY <2>2
<1> HIDE DEF R
<1> QED BY <1>6 DEF Newest

-----------------------------------------------------------------------------
(* The inductive invariant.                                                *)

JobTypeOK ==
  /\ jobs \in Seq(Job)
  /\ stale \subseteq DOMAIN jobs
  /\ seen \subseteq DOMAIN jobs

Working == {"copy", "record", "run", "align"}

(* The job at work is of this run and not judged, and there is room for    *)
(* one that is about to be made.                                           *)
WorksOnCurrent ==
  /\ worker \in Working =>
       /\ Current \in DOMAIN jobs
       /\ jobs[Current].record \notin Verdicts
       /\ jobs[Current].thisRun
  /\ Len(jobs) <= MaxJobs
  /\ worker \in {"read", "list"} => Len(jobs) < MaxJobs

(* The jobs of this run are the last ones; those of earlier runs that are  *)
(* complete were found at the start.                                       *)
RunsApart ==
  /\ \A i, j \in DOMAIN jobs : i <= j /\ jobs[i].thisRun => jobs[j].thisRun
  /\ \A j \in Completed : ~jobs[j].thisRun => j \in startupIds
  /\ \A j \in startupIds : j \in DOMAIN jobs /\ ~jobs[j].thisRun

SeenAreJudged ==
  \A j \in seen : /\ jobs[j].record \in Verdicts
                  /\ j \notin startupIds => jobs[j].thisRun

(* The cleanup under way does not remove the latest accepted job.          *)
LatestIsSpared ==
  worker = "remove" /\ Accepted # {} =>
    \E b \in Accepted \ stale : \A a \in Accepted : a <= b

(* What was shown was accepted in this run, and an accepted job as new is  *)
(* still there; the timer, if it has read the records, has seen one.       *)
ShownStands ==
  /\ overlay \in {NoOverlay, lastShown}
  /\ lastShown # NoOverlay =>
       /\ lastShown \in DOMAIN jobs
       /\ jobs[lastShown].thisRun /\ jobs[lastShown].record = "accepted"
       /\ \E b \in Accepted : b >= lastShown
       /\ callback = "scanned" => \E j \in seen \ startupIds : j >= lastShown

Inv == /\ JobTypeOK /\ WorksOnCurrent /\ RunsApart /\ SeenAreJudged
       /\ LatestIsSpared /\ ShownStands

LEMMA InvStarts == Init => Inv
<1> SUFFICES ASSUME Init PROVE Inv
  OBVIOUS
<1>1. /\ jobs = <<>> /\ worker = "off" /\ stale = {} /\ startupIds = {} /\ seen = {}
      /\ overlay = NoOverlay /\ lastShown = NoOverlay
  BY DEF Init
<1>2. jobs \in Seq(Job) /\ DOMAIN jobs = {} /\ Len(jobs) = 0
  BY <1>1
<1> QED BY <1>1, <1>2, RefinerJobsConstants
        DEF Inv, JobTypeOK, WorksOnCurrent, Working, RunsApart, Completed, Present,
            SeenAreJudged, LatestIsSpared, Accepted, ShownStands

-----------------------------------------------------------------------------
(* How the steps change the jobs.                                          *)

(* A step that keeps jobs, cleanup and overlay.                            *)
LEMMA QuietStep ==
  ASSUME Inv, UNCHANGED <<jobs, startupIds, seen, overlay, lastShown>>,
         callback' = callback \/ callback' # "scanned",
         worker' \in Working => worker \in Working,
         worker' \in {"read", "list"} => worker \in {"read", "list"} \/ Len(jobs) < MaxJobs,
         worker' = "remove" => worker = "remove",
         stale' = stale
  PROVE  Inv'
  BY DEF Inv, JobTypeOK, WorksOnCurrent, RunsApart, SeenAreJudged, LatestIsSpared,
         ShownStands, Completed, Accepted, Present, Current

LEMMA SetRecord ==
  ASSUME jobs \in Seq(Job), Current \in DOMAIN jobs, NEW r \in Records, Set(r)
  PROVE  /\ jobs' \in Seq(Job) /\ Len(jobs') = Len(jobs) /\ DOMAIN jobs' = DOMAIN jobs
         /\ \A j \in DOMAIN jobs :
              /\ jobs'[j].present = jobs[j].present
              /\ jobs'[j].thisRun = jobs[j].thisRun
              /\ jobs'[j].record = IF j = Current THEN r ELSE jobs[j].record
<1>1. jobs' = [jobs EXCEPT ![Current] = [jobs[Current] EXCEPT !.record = r]]
  BY DEF Set
<1>2. [jobs[Current] EXCEPT !.record = r] \in Job
  <2>1. jobs[Current] \in Job
    OBVIOUS
  <2> QED BY <2>1 DEF Job
<1>3. jobs' \in Seq(Job) /\ Len(jobs') = Len(jobs) /\ DOMAIN jobs' = DOMAIN jobs
  BY <1>1, <1>2
<1>4. \A j \in DOMAIN jobs : jobs[j] \in Job
  OBVIOUS
<1> QED BY <1>1, <1>3, <1>4 DEF Job

(* A step of the worker that records what became of its job.               *)
LEMMA RecordKeeps ==
  ASSUME Inv, worker \in Working, NEW r \in Records, Set(r),
         worker' \in {"run", "clean"}, worker' = "run" => r \notin Verdicts,
         UNCHANGED <<stale, startupIds, seen, overlay, lastShown, callback>>
  PROVE  Inv'
<1>1. /\ jobs \in Seq(Job) /\ Current \in DOMAIN jobs
      /\ jobs[Current].record \notin Verdicts /\ jobs[Current].thisRun
  BY DEF Inv, JobTypeOK, WorksOnCurrent
<1>2. /\ jobs' \in Seq(Job) /\ Len(jobs') = Len(jobs) /\ DOMAIN jobs' = DOMAIN jobs
      /\ \A j \in DOMAIN jobs :
           /\ jobs'[j].present = jobs[j].present
           /\ jobs'[j].thisRun = jobs[j].thisRun
           /\ jobs'[j].record = IF j = Current THEN r ELSE jobs[j].record
  BY <1>1, SetRecord
<1>3. JobTypeOK'
  BY <1>2 DEF Inv, JobTypeOK
<1>4. WorksOnCurrent'
  BY <1>1, <1>2 DEF Inv, WorksOnCurrent, Current, Working
<1>5. Completed' \subseteq Completed \cup {Current} /\ Accepted \subseteq Accepted'
  BY <1>1, <1>2 DEF Completed, Accepted, Present, Verdicts
<1>6. RunsApart'
  <2>1. \A j \in Completed' : ~jobs'[j].thisRun => j \in startupIds
    BY <1>1, <1>2, <1>5 DEF Inv, RunsApart, Completed, Present
  <2>2. \A j \in startupIds : j \in DOMAIN jobs' /\ ~jobs'[j].thisRun
    BY <1>2 DEF Inv, RunsApart
  <2>3. \A i, j \in DOMAIN jobs' : i <= j /\ jobs'[i].thisRun => jobs'[j].thisRun
    BY <1>2 DEF Inv, RunsApart
  <2> QED BY <2>1, <2>2, <2>3 DEF RunsApart
<1>7. SeenAreJudged'
  BY <1>1, <1>2 DEF Inv, SeenAreJudged, JobTypeOK
<1>8. LatestIsSpared'
  BY DEF LatestIsSpared
<1>9. ShownStands'
  <2>1. lastShown # NoOverlay => lastShown # Current
    BY <1>1 DEF Inv, ShownStands, Verdicts
  <2> QED BY <1>2, <1>5, <2>1 DEF Inv, ShownStands
<1> QED BY <1>3, <1>4, <1>6, <1>7, <1>8, <1>9 DEF Inv

LEMMA ListFramesKeeps ==
  ASSUME Inv, ListFrames, UNCHANGED <<callback, overlayVars>>
  PROVE  Inv'
<1> DEFINE job == [record |-> "none", present |-> TRUE, thisRun |-> TRUE]
           n == Len(jobs)
<1>1. jobs \in Seq(Job) /\ n \in Nat /\ n < MaxJobs /\ MaxJobs \in Nat
  BY RefinerJobsConstants DEF Inv, JobTypeOK, WorksOnCurrent, ListFrames
<1>2. job \in Job
  BY DEF Job, Records
<1>3. /\ jobs' = Append(jobs, job)
      /\ worker' = "copy" /\ UNCHANGED <<stale, startupIds, seen, overlay, lastShown>>
  BY DEF ListFrames, overlayVars
<1>4. /\ jobs' \in Seq(Job) /\ Len(jobs') = n + 1 /\ DOMAIN jobs' = 1..(n + 1)
      /\ DOMAIN jobs = 1..n /\ jobs'[n + 1] = job
      /\ \A j \in 1..n : jobs'[j] = jobs[j]
  BY <1>1, <1>2, <1>3
<1>5. job.record = "none" /\ job.thisRun = TRUE
  OBVIOUS
<1> HIDE DEF job, n
<1>6. JobTypeOK'
  BY <1>1, <1>3, <1>4 DEF Inv, JobTypeOK
<1>7. WorksOnCurrent'
  BY <1>1, <1>3, <1>4, <1>5 DEF WorksOnCurrent, Current, Working, Verdicts, n
<1>8. Completed' = Completed /\ Accepted' = Accepted
  BY <1>1, <1>4, <1>5 DEF Completed, Accepted, Present, Verdicts
<1>9. RunsApart'
  <2>1. \A j \in Completed : j \in 1..n
    BY <1>4 DEF Completed, Present
  <2> QED BY <1>1, <1>3, <1>4, <1>5, <1>8, <2>1 DEF Inv, RunsApart
<1>10. SeenAreJudged' /\ LatestIsSpared'
  BY <1>3, <1>4 DEF Inv, SeenAreJudged, LatestIsSpared, JobTypeOK
<1>11. ShownStands'
  BY <1>1, <1>3, <1>4, <1>8 DEF Inv, ShownStands
<1> QED BY <1>6, <1>7, <1>9, <1>10, <1>11 DEF Inv

LEMMA CleanUpKeeps ==
  ASSUME Inv, CleanUp, UNCHANGED <<callback, overlayVars>>
  PROVE  Inv'
<1>1. /\ worker' = "remove" /\ stale' = (Present \ Kept) \ LatestAccepted
      /\ UNCHANGED <<jobs, startupIds, seen, overlay, lastShown>>
  BY DEF CleanUp, overlayVars
<1>2. LatestIsSpared'
  <2> SUFFICES ASSUME Accepted # {}
               PROVE  \E b \in Accepted \ stale' : \A a \in Accepted : a <= b
    BY <1>1 DEF LatestIsSpared, Accepted, Completed, Present
  <2>1. Accepted \subseteq 1..Len(jobs) /\ Len(jobs) \in Nat
    BY DEF Inv, JobTypeOK, Accepted, Completed, Present
  <2>2. Newest(Accepted) \in Accepted /\ \A a \in Accepted : a <= Newest(Accepted)
    BY <2>1, NewestOf
  <2>3. Newest(Accepted) \notin stale'
    BY <1>1 DEF LatestAccepted
  <2> QED BY <2>2, <2>3
<1>3. JobTypeOK'
  BY <1>1 DEF Inv, JobTypeOK, Present
<1>4. WorksOnCurrent' /\ RunsApart' /\ SeenAreJudged' /\ ShownStands'
  BY <1>1 DEF Inv, WorksOnCurrent, RunsApart, SeenAreJudged, ShownStands, Working, Current,
              Completed, Accepted, Present
<1> QED BY <1>2, <1>3, <1>4 DEF Inv

LEMMA RemoveJobKeeps ==
  ASSUME Inv, RemoveJob, UNCHANGED <<callback, overlayVars>>
  PROVE  Inv'
<1>1. PICK j \in stale : /\ stale' = stale \ {j}
                         /\ jobs' = [jobs EXCEPT ![j].present = FALSE]
  BY DEF RemoveJob
<1>2. /\ worker = "remove" /\ worker' = "remove"
      /\ UNCHANGED <<startupIds, seen, overlay, lastShown>>
  BY DEF RemoveJob, overlayVars
<1>3. jobs \in Seq(Job) /\ j \in DOMAIN jobs /\ \A k \in DOMAIN jobs : jobs[k] \in Job
  BY DEF Inv, JobTypeOK
<1>4. /\ jobs' \in Seq(Job) /\ Len(jobs') = Len(jobs) /\ DOMAIN jobs' = DOMAIN jobs
      /\ \A k \in DOMAIN jobs :
           /\ jobs'[k].record = jobs[k].record
           /\ jobs'[k].thisRun = jobs[k].thisRun
           /\ jobs'[k].present = IF k = j THEN FALSE ELSE jobs[k].present
  <2>1. jobs' = [jobs EXCEPT ![j] = [jobs[j] EXCEPT !.present = FALSE]]
    BY <1>1
  <2>2. [jobs[j] EXCEPT !.present = FALSE] \in Job
    BY <1>3 DEF Job
  <2> QED BY <1>3, <2>1, <2>2 DEF Job
<1>5. Completed' = Completed \ {j} /\ Accepted' = Accepted \ {j}
  BY <1>4 DEF Completed, Accepted, Present
<1>6. JobTypeOK' /\ WorksOnCurrent'
  BY <1>1, <1>2, <1>4 DEF Inv, JobTypeOK, WorksOnCurrent, Working
<1>7. RunsApart'
  <2>1. Completed \subseteq DOMAIN jobs
    BY DEF Completed, Present
  <2> QED BY <1>2, <1>4, <1>5, <2>1 DEF Inv, RunsApart
<1>8. SeenAreJudged'
  BY <1>2, <1>4 DEF Inv, SeenAreJudged, JobTypeOK
<1>9. LatestIsSpared'
  BY <1>1, <1>2, <1>5 DEF Inv, LatestIsSpared
<1>10. ShownStands'
  <2>1. ASSUME NEW b \in Accepted, lastShown \in DOMAIN jobs, b >= lastShown
        PROVE  \E c \in Accepted' : c >= lastShown
    <3>1. PICK c \in Accepted \ stale : \A a \in Accepted : a <= c
      BY <1>2 DEF Inv, LatestIsSpared
    <3>2. c \in Accepted' /\ b <= c
      BY <1>1, <1>5, <3>1
    <3>3. c \in Nat /\ b \in Nat /\ lastShown \in Nat
      BY <1>3, <2>1 DEF Accepted, Completed, Present
    <3> QED BY <2>1, <3>2, <3>3
  <2> QED BY <1>2, <1>4, <2>1 DEF Inv, ShownStands
<1> QED BY <1>6, <1>7, <1>8, <1>9, <1>10 DEF Inv

LEMMA WorkerKeeps ==
  ASSUME Inv, WorkerStep
  PROVE  Inv'
<1>1. UNCHANGED <<callback, overlayVars>> /\ UNCHANGED <<startupIds, seen, overlay, lastShown>>
  BY DEF WorkerStep, overlayVars
<1>2. CASE ReadManifest \/ CopyFrames \/ SaveRecordFails \/ RunSucceeds \/ CleanedUp \/ Release
  <2>1. UNCHANGED <<jobs, stale>>
    BY <1>2 DEF ReadManifest, CopyFrames, SaveRecordFails, RunSucceeds, CleanedUp, Release
  <2>2. /\ worker' \in Working => worker \in Working
        /\ worker' \in {"read", "list"} => worker \in {"read", "list"}
        /\ worker' # "remove"
    BY <1>2 DEF ReadManifest, CopyFrames, SaveRecordFails, RunSucceeds, CleanedUp, Release,
                Raise, Working
  <2> QED BY <1>1, <2>1, <2>2, QuietStep
<1>3. CASE ListFrames
  BY <1>1, <1>3, ListFramesKeeps
<1>4. CASE SaveRecord
  BY <1>1, <1>4, RecordKeeps DEF SaveRecord, Records, Verdicts, Working
<1>5. CASE RunFails
  BY <1>1, <1>5, RecordKeeps DEF RunFails, Records, Verdicts, Working
<1>6. ASSUME NEW verdict \in Verdicts, Complete(verdict)
      PROVE  Inv'
  BY <1>1, <1>6, RecordKeeps DEF Complete, Records, Verdicts, Working
<1>7. CASE CleanUp
  BY <1>1, <1>7, CleanUpKeeps
<1>8. CASE RemoveJob
  BY <1>1, <1>8, RemoveJobKeeps
<1> QED BY <1>2, <1>3, <1>4, <1>5, <1>6, <1>7, <1>8 DEF WorkerStep

LEMMA ReadRecordsKeeps ==
  ASSUME Inv, ReadRecords
  PROVE  Inv'
<1>1. /\ callback' = "scanned" /\ seen' = Completed
      /\ UNCHANGED <<worker, stale, jobs, startupIds, overlay, lastShown>>
  BY DEF ReadRecords, jobVars
<1>2. JobTypeOK'
  BY <1>1 DEF Inv, JobTypeOK, Completed, Present
<1>3. WorksOnCurrent' /\ RunsApart' /\ LatestIsSpared'
  BY <1>1 DEF Inv, WorksOnCurrent, RunsApart, LatestIsSpared, Current, Accepted, Completed,
              Present
<1>4. SeenAreJudged'
  BY <1>1 DEF Inv, SeenAreJudged, RunsApart, Completed
<1>5. ShownStands'
  <2>1. ASSUME lastShown # NoOverlay
        PROVE  \E j \in Completed \ startupIds : j >= lastShown
    <3>1. PICK b \in Accepted : b >= lastShown
      BY <2>1 DEF Inv, ShownStands
    <3>2. b \in DOMAIN jobs /\ b \in Completed /\ lastShown \in DOMAIN jobs
          /\ jobs[lastShown].thisRun /\ jobs \in Seq(Job)
      BY <2>1 DEF Inv, ShownStands, JobTypeOK, Accepted, Completed, Present
    <3>3. jobs[b].thisRun
      BY <3>1, <3>2 DEF Inv, RunsApart
    <3> QED BY <3>1, <3>2, <3>3 DEF Inv, RunsApart
  <2> QED BY <1>1, <2>1 DEF Inv, ShownStands, Accepted, Completed, Present
<1> QED BY <1>2, <1>3, <1>4, <1>5 DEF Inv

-----------------------------------------------------------------------------
(* The overlay that the timer chooses.                                     *)

LEMMA LatestIsJudged ==
  ASSUME Inv, Latest # NoOverlay
  PROVE  /\ Latest \in DOMAIN jobs /\ jobs[Latest].thisRun /\ jobs[Latest].record \in Verdicts
         /\ \A j \in Candidates : j <= Latest
<1>1. Candidates # {} /\ Latest = Newest(Candidates)
  BY DEF Latest
<1>2. Candidates \subseteq 1..Len(jobs) /\ Len(jobs) \in Nat
  BY DEF Candidates, Inv, JobTypeOK
<1>3. Latest \in Candidates /\ \A j \in Candidates : j <= Latest
  BY <1>1, <1>2, NewestOf
<1> QED BY <1>2, <1>3 DEF Candidates, Inv, JobTypeOK, SeenAreJudged

(* It is as new as any that was shown in this run.                         *)
LEMMA LatestIsNewer ==
  ASSUME Inv, callback = "scanned", lastShown # NoOverlay
  PROVE  Latest # NoOverlay /\ Latest >= lastShown
<1>1. PICK j \in Candidates : j >= lastShown
  BY DEF Inv, ShownStands, Candidates
<1>2. Candidates \subseteq 1..Len(jobs) /\ Len(jobs) \in Nat /\ lastShown \in DOMAIN jobs
  BY DEF Candidates, Inv, JobTypeOK, ShownStands
<1>3. Latest = Newest(Candidates) /\ Latest \in Candidates /\ j <= Latest
  BY <1>1, <1>2, NewestOf DEF Latest
<1>4. Latest \in Nat /\ Latest >= 1 /\ lastShown \in Nat /\ j \in Nat
  BY <1>2, <1>3, Inv DEF Inv, JobTypeOK
<1> QED BY <1>1, <1>3, <1>4 DEF NoOverlay

LEMMA ChooseOverlayKeeps ==
  ASSUME Inv, ChooseOverlay
  PROVE  Inv'
<1>1. callback' = "spin" /\ seen' = {} /\ UNCHANGED <<worker, stale, jobs, startupIds>>
  BY DEF ChooseOverlay, jobVars
<1>2. JobTypeOK' /\ WorksOnCurrent' /\ RunsApart' /\ SeenAreJudged' /\ LatestIsSpared'
  BY <1>1 DEF Inv, JobTypeOK, WorksOnCurrent, RunsApart, SeenAreJudged, LatestIsSpared,
              Current, Accepted, Completed, Present
<1>3. Accepted' = Accepted
  BY <1>1 DEF Accepted, Completed, Present
<1>4. CASE PublishOverlay
  <2>1. overlay' = Latest /\ lastShown' = Latest /\ Latest # NoOverlay
        /\ jobs[Latest].record = "accepted" /\ callback = "scanned"
    BY <1>4 DEF PublishOverlay, Showable
  <2>2. Latest \in DOMAIN jobs /\ jobs[Latest].thisRun
    BY <2>1, LatestIsJudged
  <2>3. \E b \in Accepted : b >= Latest
    <3>1. CASE Latest = overlay
      <4>1. overlay = lastShown
        BY <2>1, <3>1 DEF Inv, ShownStands
      <4> QED BY <2>1, <3>1, <4>1 DEF Inv, ShownStands
    <3>2. CASE Latest # overlay
      <4>1. Latest \in Accepted
        BY <1>4, <3>2 DEF PublishOverlay, Showable, Loadable
      <4>2. Latest \in Nat
        BY <2>2 DEF Inv, JobTypeOK
      <4> QED BY <4>1, <4>2
    <3> QED BY <3>1, <3>2
  <2>4. ShownStands'
    BY <1>1, <1>3, <2>1, <2>2, <2>3 DEF ShownStands
  <2> QED BY <1>2, <2>4 DEF Inv
<1>5. CASE DropOverlay
  <2>1. ShownStands'
    BY <1>1, <1>3, <1>5 DEF Inv, ShownStands, DropOverlay
  <2> QED BY <1>2, <2>1 DEF Inv
<1> QED BY <1>4, <1>5 DEF ChooseOverlay

LEMMA RestartKeeps ==
  ASSUME Inv, Restart
  PROVE  Inv'
<1>1. /\ worker' = "off" /\ stale' = {} /\ startupIds' = Completed /\ seen' = {}
      /\ overlay' = NoOverlay /\ lastShown' = NoOverlay
      /\ jobs' = [j \in DOMAIN jobs |-> [jobs[j] EXCEPT !.thisRun = FALSE]]
  BY DEF Restart
<1>2. jobs \in Seq(Job) /\ \A j \in DOMAIN jobs : jobs[j] \in Job
  BY DEF Inv, JobTypeOK
<1>3. /\ jobs' \in Seq(Job) /\ Len(jobs') = Len(jobs) /\ DOMAIN jobs' = DOMAIN jobs
      /\ \A j \in DOMAIN jobs : /\ jobs'[j].record = jobs[j].record
                                /\ jobs'[j].present = jobs[j].present
                                /\ jobs'[j].thisRun = FALSE
  <2>1. \A j \in DOMAIN jobs : [jobs[j] EXCEPT !.thisRun = FALSE] \in Job
    BY <1>2 DEF Job
  <2>2. jobs' \in Seq(Job) /\ Len(jobs') = Len(jobs)
    BY <1>1, <1>2, <2>1
  <2> QED BY <1>1, <1>2, <2>2 DEF Job
<1>4. Completed' = Completed /\ Completed \subseteq DOMAIN jobs
  BY <1>3 DEF Completed, Present
<1>5. RunsApart'
  BY <1>1, <1>3, <1>4 DEF RunsApart
<1>6. Len(jobs) <= MaxJobs
  BY DEF Inv, WorksOnCurrent
<1> QED BY <1>1, <1>3, <1>5, <1>6 DEF Inv, JobTypeOK, WorksOnCurrent, Working, SeenAreJudged,
                                     LatestIsSpared, ShownStands

LEMMA InvStep == Inv /\ [Next]_vars => Inv'
<1> SUFFICES ASSUME Inv, [Next]_vars PROVE Inv'
  OBVIOUS
<1>1. CASE ImageCallback /\ UNCHANGED <<alive, lastJobSaved, worker, stale, jobs, overlayVars>>
  <2>1. callback' = callback \/ callback' # "scanned"
    BY <1>1 DEF ImageCallback, ImageStored, ImageNotStored, TruncateManifest, SaveManifest,
                SaveManifestFails
  <2> QED BY <1>1, <2>1, QuietStep DEF overlayVars
<1>2. CASE MaybeRunJob
  BY <1>2, QuietStep DEF MaybeRunJob, overlayVars, Working
<1>3. CASE ReadRecords
  BY <1>3, ReadRecordsKeeps
<1>4. CASE ChooseOverlay
  BY <1>4, ChooseOverlayKeeps
<1>5. CASE OverlayRaises
  BY <1>5, QuietStep DEF OverlayRaises, jobVars, overlayVars
<1>6. CASE WorkerStep
  BY <1>6, WorkerKeeps
<1>7. CASE Restart
  BY <1>7, RestartKeeps
<1>8. CASE UNCHANGED vars
  BY <1>8, QuietStep DEF vars, jobVars, overlayVars
<1> QED BY <1>1, <1>2, <1>3, <1>4, <1>5, <1>6, <1>7, <1>8 DEF Next, ExecutorStep

LEMMA InvIsOfThisRun == Inv => OverlayIsOfThisRun
  BY DEF Inv, ShownStands, OverlayIsOfThisRun

(* "overlays appear only from jobs accepted during the current run": for   *)
(* any number of jobs and restarts, at every step of the two threads.      *)
(* (semantic_refiner_node.py, _publish_overlay, _latest_completed_job;     *)
(* worker_core.py, cleanup_old_jobs)                                       *)
THEOREM OverlayIsAlwaysOfThisRun == Spec => []OverlayIsOfThisRun
  BY InvStarts, InvStep, InvIsOfThisRun, PTL DEF Spec

-----------------------------------------------------------------------------
(* Refinement                                                              *)

LEMMA PolicyStarts == Init => Policy!Init
  BY DEF Init, Policy!Init, Judged, JudgedWell, NoOverlay, Policy!NoOverlay

LEMMA RecordRefines ==
  ASSUME Inv, worker \in Working, NEW r \in Records, Set(r), UNCHANGED <<overlay, lastShown>>
  PROVE  [Policy!Next]_(Policy!vars)
<1>1. /\ jobs \in Seq(Job) /\ Current \in DOMAIN jobs
      /\ jobs[Current].record \notin Verdicts /\ jobs[Current].thisRun
      /\ Current \in 1..MaxJobs /\ MaxJobs \in Nat /\ Len(jobs) \in Nat
  BY RefinerJobsConstants DEF Inv, JobTypeOK, WorksOnCurrent, Current
<1>2. /\ DOMAIN jobs' = DOMAIN jobs
      /\ \A j \in DOMAIN jobs :
           /\ jobs'[j].thisRun = jobs[j].thisRun
           /\ jobs'[j].record = IF j = Current THEN r ELSE jobs[j].record
  BY <1>1, SetRecord
<1>3. CASE r \notin Verdicts
  <2>1. Judged' = Judged /\ JudgedWell' = JudgedWell
    BY <1>1, <1>2, <1>3 DEF Judged, JudgedWell, Verdicts
  <2> QED BY <2>1 DEF Policy!vars
<1>4. CASE r \in Verdicts
  <2>1. Judged' = Judged \cup {Current}
    BY <1>1, <1>2, <1>4 DEF Judged
  <2>2. JudgedWell' \in {JudgedWell, JudgedWell \cup {Current}}
    <3>1. CASE r = "accepted"
      BY <1>1, <1>2, <3>1 DEF Judged, JudgedWell, Verdicts
    <3>2. CASE r # "accepted"
      BY <1>1, <1>2, <1>4, <3>2 DEF Judged, JudgedWell, Verdicts
    <3> QED BY <3>1, <3>2
  <2>3. \A k \in Judged : k < Current
    <3> SUFFICES ASSUME NEW k \in Judged PROVE k < Current
      OBVIOUS
    <3>1. k \in 1..Len(jobs) /\ k # Current
      BY <1>1 DEF Judged
    <3> QED BY <1>1, <3>1 DEF Current
  <2> QED BY <1>1, <2>1, <2>2, <2>3 DEF Policy!Next, Policy!Judge
<1> QED BY <1>3, <1>4

LEMMA ChooseRefines ==
  ASSUME Inv, ChooseOverlay
  PROVE  [Policy!Next]_(Policy!vars)
<1>1. UNCHANGED jobs /\ jobs \in Seq(Job)
  BY DEF ChooseOverlay, jobVars, Inv, JobTypeOK
<1>2. Judged' = Judged /\ JudgedWell' = JudgedWell
  BY <1>1 DEF Judged, JudgedWell
<1>3. CASE PublishOverlay
  <2>1. /\ overlay' = Latest /\ lastShown' = Latest /\ Latest # NoOverlay
        /\ jobs[Latest].record = "accepted" /\ callback = "scanned"
    BY <1>3 DEF PublishOverlay, Showable
  <2>2. Latest \in JudgedWell /\ Latest \in Nat
    BY <1>1, <2>1, LatestIsJudged DEF Judged, JudgedWell
  <2>3. Latest >= lastShown
    <3>1. CASE lastShown = NoOverlay
      BY <2>2, <3>1 DEF NoOverlay
    <3>2. CASE lastShown # NoOverlay
      BY <2>1, <3>2, LatestIsNewer
    <3> QED BY <3>1, <3>2
  <2> QED BY <1>2, <2>1, <2>2, <2>3 DEF Policy!Next, Policy!Show
<1>4. CASE DropOverlay
  <2>1. overlay' = NoOverlay /\ lastShown' = lastShown /\ callback = "scanned" /\ ~Showable
    BY <1>4 DEF DropOverlay
  <2>2. CASE overlay = NoOverlay
    BY <1>2, <2>1, <2>2 DEF Policy!vars
  <2>3. CASE overlay # NoOverlay
    <3>1. overlay = lastShown /\ lastShown # NoOverlay /\ jobs[overlay].record = "accepted"
          /\ overlay \in DOMAIN jobs
      BY <2>3 DEF Inv, ShownStands
    <3>2. Latest # NoOverlay /\ Latest >= overlay
      BY <2>1, <3>1, LatestIsNewer
    <3>3. Latest \in Judged /\ Latest \in Nat /\ overlay \in Nat
      BY <1>1, <3>1, <3>2, LatestIsJudged DEF Judged
    <3>4. Latest # overlay
      BY <2>1, <3>1, <3>2 DEF Showable
    <3>5. Latest > overlay
      BY <3>2, <3>3, <3>4
    <3> QED BY <1>2, <2>1, <3>3, <3>5 DEF Policy!Next, Policy!Withdraw, Policy!NoOverlay, NoOverlay
  <2> QED BY <2>2, <2>3
<1> QED BY <1>3, <1>4 DEF ChooseOverlay

LEMMA RestartRefines ==
  ASSUME Inv, Restart
  PROVE  Policy!Next
<1>1. /\ overlay' = NoOverlay /\ lastShown' = NoOverlay
      /\ jobs' = [j \in DOMAIN jobs |-> [jobs[j] EXCEPT !.thisRun = FALSE]]
  BY DEF Restart
<1>2. \A j \in DOMAIN jobs : jobs[j] \in Job
  BY DEF Inv, JobTypeOK
<1>3. DOMAIN jobs' = DOMAIN jobs /\ \A j \in DOMAIN jobs : jobs'[j].thisRun = FALSE
  BY <1>1, <1>2 DEF Job
<1>4. Judged' = {} /\ JudgedWell' = {}
  BY <1>3 DEF Judged, JudgedWell
<1> QED BY <1>1, <1>4 DEF Policy!Next, Policy!NewRun, Policy!NoOverlay, NoOverlay

LEMMA WorkerRefines ==
  ASSUME Inv, WorkerStep
  PROVE  [Policy!Next]_(Policy!vars)
<1>1. UNCHANGED <<overlay, lastShown>>
  BY DEF WorkerStep, overlayVars
<1>2. CASE ReadManifest \/ CopyFrames \/ SaveRecordFails \/ RunSucceeds \/ CleanUp
           \/ CleanedUp \/ Release
  <2>1. UNCHANGED jobs
    BY <1>2 DEF ReadManifest, CopyFrames, SaveRecordFails, RunSucceeds, CleanUp, CleanedUp,
                Release
  <2> QED BY <1>1, <2>1 DEF Policy!vars, Judged, JudgedWell
<1>3. CASE ListFrames
  <2> DEFINE job == [record |-> "none", present |-> TRUE, thisRun |-> TRUE]
  <2>1. jobs' = Append(jobs, job) /\ jobs \in Seq(Job) /\ job.record = "none"
    BY <1>3 DEF ListFrames, Inv, JobTypeOK
  <2> HIDE DEF job
  <2>2. /\ DOMAIN jobs' = DOMAIN jobs \cup {Len(jobs) + 1}
        /\ jobs'[Len(jobs) + 1] = job
        /\ \A j \in DOMAIN jobs : jobs'[j] = jobs[j]
    BY <2>1
  <2>3. Judged' = Judged /\ JudgedWell' = JudgedWell
    BY <2>1, <2>2 DEF Judged, JudgedWell, Verdicts
  <2> QED BY <1>1, <2>3 DEF Policy!vars
<1>4. CASE SaveRecord
  BY <1>1, <1>4, RecordRefines DEF SaveRecord, Records, Working
<1>5. CASE RunFails
  BY <1>1, <1>5, RecordRefines DEF RunFails, Records, Working
<1>6. ASSUME NEW verdict \in Verdicts, Complete(verdict)
      PROVE  [Policy!Next]_(Policy!vars)
  BY <1>1, <1>6, RecordRefines DEF Complete, Records, Verdicts, Working
<1>7. CASE RemoveJob
  <2>1. PICK j \in stale : jobs' = [jobs EXCEPT ![j].present = FALSE]
    BY <1>7 DEF RemoveJob
  <2>2. j \in DOMAIN jobs /\ \A k \in DOMAIN jobs : jobs[k] \in Job
    BY DEF Inv, JobTypeOK
  <2>3. /\ DOMAIN jobs' = DOMAIN jobs
        /\ \A k \in DOMAIN jobs : /\ jobs'[k].record = jobs[k].record
                                  /\ jobs'[k].thisRun = jobs[k].thisRun
    BY <2>1, <2>2 DEF Job
  <2>4. Judged' = Judged /\ JudgedWell' = JudgedWell
    BY <2>3 DEF Judged, JudgedWell
  <2> QED BY <1>1, <2>4 DEF Policy!vars
<1> QED BY <1>2, <1>3, <1>4, <1>5, <1>6, <1>7 DEF WorkerStep

LEMMA PolicyStep == Inv /\ [Next]_vars => [Policy!Next]_(Policy!vars)
<1> SUFFICES ASSUME Inv, [Next]_vars PROVE [Policy!Next]_(Policy!vars)
  OBVIOUS
<1>1. CASE UNCHANGED <<jobs, overlay, lastShown>>
  BY <1>1 DEF Policy!vars, Judged, JudgedWell
<1>2. CASE alive /\ ExecutorStep
  BY <1>1, <1>2, ChooseRefines
  DEF ExecutorStep, MaybeRunJob, ReadRecords, OverlayRaises, jobVars, overlayVars
<1>3. CASE WorkerStep
  BY <1>3, WorkerRefines
<1>4. CASE Restart
  BY <1>4, RestartRefines
<1>5. CASE UNCHANGED vars
  BY <1>1, <1>5 DEF vars, jobVars, overlayVars
<1> QED BY <1>2, <1>3, <1>4, <1>5 DEF Next

(* The node, its worker and its cleanup keep the promises of OverlayPolicy *)
(* for any number of jobs, frames and restarts: overlays only move forward *)
(* within a run, and one is given up only for a newer job that was judged. *)
(* (semantic_refiner_node.py, _publish_overlay; worker_core.py)            *)
THEOREM RefinerImplementsPolicy == Spec => ImplementsOverlayPolicy
  BY InvStarts, InvStep, PolicyStarts, PolicyStep, PTL
  DEF Spec, ImplementsOverlayPolicy, Policy!Spec

-----------------------------------------------------------------------------
(* Induction over the naturals, for a set of them.                         *)

LEMMA Induction ==
  ASSUME NEW T, 0 \in T, \A n \in Nat : n \in T => n + 1 \in T
  PROVE  Nat \subseteq T
<1> SUFFICES ASSUME Nat \ T # {} PROVE FALSE
  OBVIOUS
<1>1. PICK m \in Nat \ T : \A n \in Nat \ T : <<n, m>> \notin OpToRel(<, Nat)
  BY WFMin, NatLessThanWellFounded
<1>2. \A n \in Nat : n < m => <<n, m>> \in OpToRel(<, Nat)
  BY DEF OpToRel
<1>3. \A n \in Nat : n < m => n \in T
  BY <1>1, <1>2, Zenon
<1>4. m \in Nat /\ m \notin T
  OBVIOUS
<1> QED BY <1>3, <1>4

-----------------------------------------------------------------------------
(* At: the loop is defined, and what it has kept after n elements.         *)

LEMMA AtLoop ==
  ASSUME NEW S, NEW seq \in Seq(S), NEW positions
  PROVE  \E at : /\ At(seq, positions) = at[Len(seq)]
                 /\ at[0] = <<>>
                 /\ \A n \in 1..Len(seq) :
                      at[n] = IF n \in positions THEN Append(at[n - 1], seq[n])
                                                 ELSE at[n - 1]
<1> DEFINE Step(f, n) == IF n = 0 THEN <<>>
                         ELSE IF n \in positions THEN Append(f[n - 1], seq[n])
                         ELSE f[n - 1]
           Upto(f, n) == /\ f = [k \in 0..n |-> f[k]]
                         /\ \A k \in 0..n : f[k] = Step(f, k)
           T == {n \in Nat : \E f : Upto(f, n)}
<1>1. 0 \in T
  <2> DEFINE f == [k \in 0..0 |-> <<>>]
  <2>1. Upto(f, 0)
    OBVIOUS
  <2> QED BY <2>1
<1>2. ASSUME NEW n \in Nat, n \in T
      PROVE  n + 1 \in T
  <2>1. PICK f : Upto(f, n)
    BY <1>2
  <2> DEFINE longer == [k \in 0..(n + 1) |-> IF k <= n THEN f[k] ELSE Step(f, k)]
  <2>2. ASSUME NEW k \in 0..(n + 1)
        PROVE  longer[k] = Step(longer, k)
    <3>1. k # 0 => k - 1 \in 0..n /\ longer[k - 1] = f[k - 1]
      OBVIOUS
    <3>2. longer[k] = Step(f, k)
      <4>1. longer[k] = IF k <= n THEN f[k] ELSE Step(f, k)
        OBVIOUS
      <4>2. k <= n => k \in 0..n
        OBVIOUS
      <4> HIDE DEF Step, longer
      <4>3. \A j \in 0..n : f[j] = Step(f, j)
        BY <2>1
      <4> QED BY <4>1, <4>2, <4>3
    <3> HIDE DEF longer
    <3> QED BY <3>1, <3>2
  <2>3. longer = [k \in 0..(n + 1) |-> longer[k]]
    OBVIOUS
  <2>4. Upto(longer, n + 1)
    BY <2>2, <2>3
  <2> HIDE DEF Upto, longer
  <2> QED BY <2>4
<1>3. PICK f : Upto(f, Len(seq))
  <2> HIDE DEF Upto
  <2>1. \A n \in Nat : n \in T => n + 1 \in T
    BY <1>2
  <2>2. Len(seq) \in T
    <3>1. Len(seq) \in Nat
      OBVIOUS
    <3> HIDE DEF T
    <3> QED BY <1>1, <2>1, <3>1, Induction
  <2> QED BY <2>2
<1> DEFINE loop == CHOOSE g : g = [n \in 0..Len(seq) |-> Step(g, n)]
<1>4. f = [n \in 0..Len(seq) |-> Step(f, n)]
  BY <1>3
<1>5. loop = [n \in 0..Len(seq) |-> Step(loop, n)]
  BY <1>4
<1>6. At(seq, positions) = loop[Len(seq)]
  BY DEF At
<1> HIDE DEF loop
<1>7. \A n \in 0..Len(seq) : loop[n] = Step(loop, n)
  BY <1>5, Zenon
<1>8. loop[0] = <<>> /\ \A n \in 1..Len(seq) : loop[n] = Step(loop, n)
  BY <1>7
<1> QED BY <1>6, <1>8

(* What is kept are elements of the sequence; nothing is lost if all are   *)
(* kept, and only then.                                                    *)
LEMMA AtKeeps ==
  ASSUME NEW S, NEW seq \in Seq(S), NEW positions
  PROVE  /\ At(seq, positions) \in Seq(S)
         /\ Len(At(seq, positions)) <= Len(seq)
         /\ \A i \in DOMAIN At(seq, positions) :
              \E j \in DOMAIN seq \cap positions : At(seq, positions)[i] = seq[j]
         /\ Len(At(seq, positions)) = Len(seq) => At(seq, positions) = seq
         /\ DOMAIN seq \subseteq positions => At(seq, positions) = seq
<1>1. PICK at : /\ At(seq, positions) = at[Len(seq)]
                /\ at[0] = <<>>
                /\ \A n \in 1..Len(seq) :
                     at[n] = IF n \in positions THEN Append(at[n - 1], seq[n])
                                                ELSE at[n - 1]
  BY AtLoop
<1> DEFINE KeptOf(kept, n) ==
             /\ kept \in Seq(S)
             /\ Len(kept) <= n
             /\ \A i \in 1..Len(kept) : \E j \in (1..n) \cap positions : kept[i] = seq[j]
             /\ Len(kept) = n => \A i \in 1..n : kept[i] = seq[i]
             /\ 1..n \subseteq positions => Len(kept) = n
           T == {n \in Nat : n <= Len(seq) => KeptOf(at[n], n)}
<1>2. 0 \in T
  <2>1. <<>> \in Seq(S) /\ Len(<<>>) = 0
    OBVIOUS
  <2>2. KeptOf(<<>>, 0)
    BY <2>1
  <2> HIDE DEF KeptOf
  <2> QED BY <1>1, <2>2
<1>3. ASSUME NEW n \in Nat, n \in T
      PROVE  n + 1 \in T
  <2> SUFFICES ASSUME n + 1 <= Len(seq) PROVE KeptOf(at[n + 1], n + 1)
    OBVIOUS
  <2>1. KeptOf(at[n], n)
    BY <1>3
  <2>2. n + 1 \in 1..Len(seq) /\ (n + 1) - 1 = n
    OBVIOUS
  <2>3. at[n + 1] = IF n + 1 \in positions THEN Append(at[n], seq[n + 1]) ELSE at[n]
    BY <1>1, <2>2
  <2> DEFINE before == at[n]
             after == at[n + 1]
  <2> HIDE DEF before, after
  <2>4. CASE n + 1 \in positions
    <3>1. after = Append(before, seq[n + 1]) /\ before \in Seq(S) /\ seq[n + 1] \in S
      BY <2>1, <2>2, <2>3, <2>4 DEF before, after
    <3>2. /\ after \in Seq(S) /\ Len(after) = Len(before) + 1
          /\ after[Len(after)] = seq[n + 1]
          /\ \A i \in 1..Len(before) : after[i] = before[i]
      BY <3>1
    <3>3. \A i \in 1..Len(after) : \E j \in (1..(n + 1)) \cap positions : after[i] = seq[j]
      <4> SUFFICES ASSUME NEW i \in 1..Len(after)
                   PROVE  \E j \in (1..(n + 1)) \cap positions : after[i] = seq[j]
        OBVIOUS
      <4>1. CASE i = Len(after)
        BY <2>4, <3>2, <4>1
      <4>2. CASE i # Len(after)
        <5>1. i \in 1..Len(before) /\ after[i] = before[i]
          BY <3>1, <3>2, <4>2
        <5>2. PICK j \in (1..n) \cap positions : before[i] = seq[j]
          BY <2>1, <5>1 DEF before
        <5> QED BY <5>1, <5>2
      <4> QED BY <4>1, <4>2
    <3>4. Len(after) <= n + 1 /\ (1..(n + 1) \subseteq positions => Len(after) = n + 1)
      BY <2>1, <3>1, <3>2 DEF before
    <3>5. Len(after) = n + 1 => \A i \in 1..(n + 1) : after[i] = seq[i]
      BY <2>1, <3>1, <3>2 DEF before
    <3> QED BY <3>2, <3>3, <3>4, <3>5 DEF after
  <2>5. CASE n + 1 \notin positions
    <3>1. after = before
      BY <2>3, <2>5 DEF before, after
    <3>2. /\ after \in Seq(S) /\ Len(after) <= n
          /\ \A i \in 1..Len(after) : \E j \in (1..n) \cap positions : after[i] = seq[j]
      BY <2>1, <3>1 DEF before
    <3>3. ~(1..(n + 1) \subseteq positions)
      BY <2>5
    <3> QED BY <3>2, <3>3 DEF after
  <2> QED BY <2>4, <2>5
<1>4. KeptOf(at[Len(seq)], Len(seq))
  <2>1. Nat \subseteq T
    <3> HIDE DEF T
    <3> QED BY <1>2, <1>3, Induction
  <2>2. Len(seq) \in T
    BY <2>1
  <2> QED BY <2>2
<1> DEFINE kept == At(seq, positions)
<1>5. KeptOf(kept, Len(seq))
  BY <1>1, <1>4
<1> HIDE DEF kept
<1>6. Len(kept) = Len(seq) => kept = seq
  BY <1>5
<1>7. DOMAIN seq = 1..Len(seq) /\ DOMAIN kept = 1..Len(kept)
  BY <1>5
<1>8. \A i \in DOMAIN kept : \E j \in DOMAIN seq \cap positions : kept[i] = seq[j]
  BY <1>5, <1>7
<1> QED BY <1>5, <1>6, <1>7, <1>8 DEF kept

-----------------------------------------------------------------------------
(* Selected takes frames of the bundle, all of them or fewer.              *)

LEMMA RoundedRatioBound ==
  ASSUME NEW a \in Nat, NEW b \in Nat, b > 0, NEW m \in Nat, a <= b * m
  PROVE  RoundedRatio(a, b) \in 0..m
<1> DEFINE q == a \div b
           rest == a % b
<1>1. q \in Nat /\ rest \in 0..(b - 1) /\ a = b * q + rest
  OBVIOUS
<1> HIDE DEF q, rest
<1>2. q <= m
  <2> SUFFICES ASSUME q >= m + 1 PROVE FALSE
    BY <1>1
  <2>1. b * q >= b * (m + 1)
    BY <1>1
  <2> QED BY <1>1, <2>1
<1>3. q = m => rest = 0
  BY <1>1
<1>4. RoundedRatio(a, b) = IF 2 * rest < b \/ (2 * rest = b /\ q % 2 = 0) THEN q ELSE q + 1
  BY DEF RoundedRatio, q, rest
<1> QED BY <1>1, <1>2, <1>3, <1>4

LEMMA SelectedKeeps ==
  ASSUME NEW S, NEW frames \in Seq(S)
  PROVE  /\ Selected(frames) \in Seq(S)
         /\ Len(Selected(frames)) <= Len(frames)
         /\ Len(Selected(frames)) = Len(frames) => Selected(frames) = frames
<1>1. CASE Len(frames) <= MaxKeyframes
  BY <1>1 DEF Selected
<1>2. CASE Len(frames) > MaxKeyframes
  <2> DEFINE n == Len(frames)
             pos(i) == 1 + RoundedRatio((i - 1) * (n - 1), MaxKeyframes - 1)
  <2>1. MaxKeyframes \in Nat /\ MaxKeyframes >= 2 /\ n \in Nat /\ n > MaxKeyframes
    BY <1>2, RefinerJobsConstants
  <2>2. ASSUME NEW i \in 1..MaxKeyframes
        PROVE  pos(i) \in 1..n
    <3> DEFINE a == (i - 1) * (n - 1)
               b == MaxKeyframes - 1
               m == n - 1
    <3>1. a \in Nat /\ b \in Nat /\ b > 0 /\ m \in Nat
      BY <2>1
    <3>2. a <= b * m
      <4>1. i - 1 \in Nat /\ b \in Nat /\ i - 1 <= b /\ m \in Nat
        BY <2>1
      <4> HIDE DEF b, m
      <4>2. \A x, y, z \in Nat : x <= y => x * z <= y * z
        OBVIOUS
      <4>3. (i - 1) * m <= b * m
        BY <4>1, <4>2
      <4> QED BY <4>3 DEF m
    <3>3. RoundedRatio(a, b) \in 0..m
      <4> HIDE DEF a, b, m
      <4> QED BY <3>1, <3>2, RoundedRatioBound
    <3> QED BY <2>1, <3>3
  <2>3. Selected(frames) = [i \in 1..MaxKeyframes |-> frames[pos(i)]]
    BY <2>1 DEF Selected
  <2> HIDE DEF pos
  <2>4. \A i \in 1..MaxKeyframes : frames[pos(i)] \in S
    BY <2>2
  <2>5. Selected(frames) \in Seq(S) /\ Len(Selected(frames)) = MaxKeyframes
    BY <2>1, <2>3, <2>4
  <2> QED BY <2>1, <2>5
<1> QED BY <1>1, <1>2, RefinerJobsConstants

-----------------------------------------------------------------------------
(* The bundle and the snapshot of it: the invariant.                       *)

(* The writer: its entries name frames it has written, of which only the   *)
(* last one's file may be gone, when a stored frame took the name of the   *)
(* one it made room for.                                                   *)
WrittenInOrder ==
  /\ \A i, j \in DOMAIN written : i <= j => written[i] <= written[j]
  /\ \A i \in DOMAIN written : written[i] <= saved
EntriesAreWritten ==
  \A i \in DOMAIN manifest : \E j \in DOMAIN written : manifest[i] = written[j]
EntriesHaveFiles ==
  \/ \A i \in DOMAIN manifest : manifest[i] \in files
  \/ /\ Len(manifest) = 1 /\ Len(written) = MaxFrames
     /\ \A j \in DOMAIN written : written[j] = manifest[1]

Storing == callback \in {"stored", "truncated"}
DiskIsCurrent ==
  /\ callback = "truncated" => diskManifest = Torn
  /\ ~Storing /\ diskManifest # Torn => diskManifest = manifest

BundleInv == /\ BundleTypeOK /\ callback \in CallbackSteps
             /\ WrittenInOrder /\ EntriesAreWritten /\ EntriesHaveFiles /\ DiskIsCurrent

(* An undisturbed copy: nothing is stored while it is made, and then it is *)
(* the bundle the manifest was read of; if no frame is lost the cameras    *)
(* are the frames that were read.                                          *)
CopyIsQuiet ==
  copy.quiet =>
    /\ worker \in {"list", "copy"} =>
         ~Storing /\ diskManifest = manifest /\ copy.read = manifest
    /\ worker = "copy" => copy.bundle = copy.read /\ copy.listed = files
    /\ worker \in {"record", "run"} =>
         /\ copy.bundle = copy.read
         /\ Len(copy.read) <= 1 \/ \A i \in DOMAIN copy.read : copy.read[i] \in copy.listed
    /\ worker = "align" /\ copy.whole => copy.cameras = copy.read

CopyInv == /\ alive \in BOOLEAN /\ lastJobSaved \in Frame /\ worker \in WorkerSteps
           /\ copy \in Copy /\ CopyIsQuiet

LEMMA PushIsFrames ==
  ASSUME NEW seq \in Seq(Nat), Len(seq) <= MaxFrames, NEW e \in Nat
  PROVE  /\ Push(seq, e) \in Seq(Nat) /\ Len(Push(seq, e)) <= MaxFrames
         /\ Len(Push(seq, e)) >= 1 /\ Push(seq, e)[Len(Push(seq, e))] = e
         /\ Len(seq) < MaxFrames =>
              Len(Push(seq, e)) = Len(seq) + 1 /\ \A i \in 1..Len(seq) : Push(seq, e)[i] = seq[i]
         /\ Len(seq) = MaxFrames =>
              /\ Len(Push(seq, e)) = Len(seq)
              /\ \A i \in 1..(Len(seq) - 1) : Push(seq, e)[i] = seq[i + 1]
<1>1. MaxFrames \in Nat /\ MaxFrames >= 1
  BY FrameBundleConstants
<1>2. CASE Len(seq) < MaxFrames
  BY <1>1, <1>2 DEF Push
<1>3. CASE Len(seq) = MaxFrames
  <2> DEFINE tail == Tail(seq)
  <2>1. seq # <<>>
    BY <1>1, <1>3
  <2>2. /\ tail \in Seq(Nat) /\ Len(tail) = Len(seq) - 1
        /\ \A i \in 1..(Len(seq) - 1) : tail[i] = seq[i + 1]
    BY <2>1
  <2>3. Push(seq, e) = Append(tail, e)
    BY <1>3 DEF Push
  <2> HIDE DEF tail
  <2> QED BY <1>1, <1>3, <2>2, <2>3
<1> QED BY <1>1, <1>2, <1>3

LEMMA StoreFrameKeeps ==
  ASSUME BundleInv, StoreFrame, UNCHANGED saved
  PROVE  /\ written' \in Seq(Frame) /\ Len(written') <= MaxFrames
         /\ manifest' \in Seq(Frame) /\ files' \in SUBSET Frame
         /\ WrittenInOrder' /\ EntriesAreWritten' /\ EntriesHaveFiles'
<1> DEFINE lost == IF Len(written) = MaxFrames THEN {written[1]} ELSE {}
           keep == {i \in DOMAIN manifest : manifest[i] \notin lost}
           kept == At(manifest, keep)
           old  == Len(written)
           new  == Len(written')
<1>1. /\ saved \in Nat /\ files \subseteq Nat
      /\ written \in Seq(Nat) /\ old <= MaxFrames /\ manifest \in Seq(Nat)
      /\ MaxFrames \in Nat /\ MaxFrames >= 1 /\ old \in Nat /\ Len(manifest) \in Nat
  BY FrameBundleConstants DEF BundleInv, BundleTypeOK, Frame
<1>0. DOMAIN written = 1..old /\ DOMAIN manifest = 1..Len(manifest)
  BY <1>1
<1>2. /\ files' = (files \cup {saved}) \ lost
      /\ written' = Push(written, saved)
      /\ manifest' = Append(kept, saved)
  BY DEF StoreFrame
<1>3. /\ kept \in Seq(Nat) /\ DOMAIN kept = 1..Len(kept) /\ Len(kept) \in Nat
      /\ Len(kept) <= Len(manifest)
      /\ \A i \in 1..Len(kept) : \E j \in 1..Len(manifest) : j \in keep /\ kept[i] = manifest[j]
  <2> HIDE DEF keep
  <2>1. /\ At(manifest, keep) \in Seq(Nat)
        /\ Len(At(manifest, keep)) <= Len(manifest)
        /\ \A i \in DOMAIN At(manifest, keep) :
             \E j \in DOMAIN manifest \cap keep : At(manifest, keep)[i] = manifest[j]
    BY <1>1, AtKeeps
  <2>2. kept = At(manifest, keep)
    OBVIOUS
  <2> HIDE DEF kept
  <2>3. kept \in Seq(Nat) /\ Len(kept) <= Len(manifest)
        /\ \A i \in DOMAIN kept : \E j \in DOMAIN manifest \cap keep : kept[i] = manifest[j]
    BY <2>1, <2>2
  <2>4. DOMAIN kept = 1..Len(kept) /\ Len(kept) \in Nat
    BY <2>3
  <2>5. \A i \in 1..Len(kept) : \E j \in 1..Len(manifest) : j \in keep /\ kept[i] = manifest[j]
    BY <1>0, <2>3, <2>4, Zenon
  <2> QED BY <2>3, <2>4, <2>5, Zenon
<1>4. \A j \in keep : manifest[j] \notin lost
  OBVIOUS
<1>5. old = MaxFrames => lost = {written[1]}
  OBVIOUS
<1>6. old < MaxFrames => lost = {}
  <2>1. old < MaxFrames => old # MaxFrames
    BY <1>1
  <2> QED BY <2>1, Zenon
<1> HIDE DEF lost, keep, kept
<1>7. /\ written' \in Seq(Nat) /\ new <= MaxFrames /\ new \in Nat
      /\ DOMAIN written' = 1..new
      /\ new >= 1 /\ written'[new] = saved
      /\ old < MaxFrames => new = old + 1 /\ \A i \in 1..old : written'[i] = written[i]
      /\ old = MaxFrames => new = old /\ \A i \in 1..(old - 1) : written'[i] = written[i + 1]
  <2> DEFINE pushed == Push(written, saved)
  <2>1. /\ pushed \in Seq(Nat) /\ Len(pushed) <= MaxFrames
        /\ Len(pushed) >= 1 /\ pushed[Len(pushed)] = saved
        /\ old < MaxFrames =>
             Len(pushed) = old + 1 /\ \A i \in 1..old : pushed[i] = written[i]
        /\ old = MaxFrames =>
             Len(pushed) = old /\ \A i \in 1..(old - 1) : pushed[i] = written[i + 1]
    BY <1>1, PushIsFrames
  <2> HIDE DEF pushed
  <2>2. written' = pushed
    BY <1>2 DEF pushed
  <2> QED BY <2>1, <2>2
<1>8. /\ \A i \in 1..old : written[i] <= saved /\ written[i] \in Nat
      /\ \A i, j \in 1..old : i <= j => written[i] <= written[j]
  <2>1. WrittenInOrder
    BY DEF BundleInv
  <2>2. \A i \in 1..old : written[i] \in Nat
    BY <1>1
  <2> HIDE DEF old
  <2> QED BY <1>0, <2>1, <2>2, Zenon DEF WrittenInOrder
<1>9. /\ manifest' \in Seq(Nat) /\ Len(manifest') = Len(kept) + 1
      /\ DOMAIN manifest' = 1..(Len(kept) + 1)
      /\ manifest'[Len(kept) + 1] = saved
      /\ \A i \in 1..Len(kept) : manifest'[i] = kept[i]
  BY <1>1, <1>2, <1>3
<1> HIDE DEF old, new
\* the new writer, element by element
<1>10. \A i \in 1..new : i = new \/ \E k \in 1..old : written'[i] = written[k]
                                                     /\ (old < MaxFrames => k = i)
                                                     /\ (old = MaxFrames => k = i + 1)
  <2> SUFFICES ASSUME NEW i \in 1..new, i # new
               PROVE  \E k \in 1..old : /\ written'[i] = written[k]
                                        /\ old < MaxFrames => k = i
                                        /\ old = MaxFrames => k = i + 1
    OBVIOUS
  <2>1. CASE old < MaxFrames
    <3>1. i \in 1..old
      BY <1>1, <1>7, <2>1
    <3> QED BY <1>1, <1>7, <2>1, <3>1
  <2>2. CASE old = MaxFrames
    <3>1. i \in 1..(old - 1) /\ i + 1 \in 1..old
      BY <1>1, <1>7, <2>2
    <3>2. written'[i] = written[i + 1]
      BY <1>7, <2>2, <3>1
    <3> QED BY <1>1, <2>2, <3>1, <3>2
  <2> QED BY <1>1, <2>1, <2>2
<1>11. WrittenInOrder'
  <2>1. \A i \in 1..new : written'[i] <= saved /\ written'[i] \in Nat
    <3> SUFFICES ASSUME NEW i \in 1..new PROVE written'[i] <= saved /\ written'[i] \in Nat
      OBVIOUS
    <3>1. CASE i = new
      BY <1>1, <1>7, <3>1
    <3>2. CASE i # new
      BY <1>8, <1>10, <3>2
    <3> QED BY <3>1, <3>2
  <2>2. ASSUME NEW i \in 1..new, NEW j \in 1..new, i <= j
        PROVE  written'[i] <= written'[j]
    <3>1. CASE j = new
      BY <1>7, <2>1, <3>1
    <3>2. CASE j # new
      <4>1. i # new
        BY <1>7, <2>2, <3>2
      <4>2. PICK k \in 1..old : /\ written'[i] = written[k]
                                /\ old < MaxFrames => k = i
                                /\ old = MaxFrames => k = i + 1
        BY <1>10, <4>1
      <4>3. PICK l \in 1..old : /\ written'[j] = written[l]
                                /\ old < MaxFrames => l = j
                                /\ old = MaxFrames => l = j + 1
        BY <1>10, <3>2
      <4>4. k <= l
        BY <1>1, <1>7, <2>2, <4>2, <4>3
      <4> QED BY <1>8, <4>2, <4>3, <4>4
    <3> QED BY <3>1, <3>2
  <2> QED BY <1>1, <1>7, <2>1, <2>2 DEF WrittenInOrder
\* what is kept of the manifest
<1>12. ASSUME NEW i \in 1..Len(kept)
       PROVE  /\ kept[i] \notin lost
              /\ \E j \in 1..Len(manifest) : kept[i] = manifest[j]
              /\ \E j \in 1..old : kept[i] = written[j]
  <2>1. PICK j \in 1..Len(manifest) : j \in keep /\ kept[i] = manifest[j]
    BY <1>3
  <2>2. \E k \in 1..old : manifest[j] = written[k]
    BY <1>0, Zenon DEF BundleInv, EntriesAreWritten
  <2> QED BY <1>4, <2>1, <2>2
<1>13. ASSUME NEW i \in 1..Len(kept)
       PROVE  \E j \in 1..new : kept[i] = written'[j]
  <2>1. PICK j \in 1..old : kept[i] = written[j]
    BY <1>12
  <2>2. CASE old < MaxFrames
    BY <1>1, <1>7, <2>1, <2>2
  <2>3. CASE old = MaxFrames
    <3>1. j # 1
      BY <1>5, <1>12, <2>1, <2>3
    <3>2. j - 1 \in 1..(old - 1) /\ (j - 1) + 1 = j /\ j - 1 \in 1..new
      BY <1>1, <1>7, <2>1, <2>3, <3>1
    <3>3. written'[j - 1] = written[j]
      BY <1>7, <2>3, <3>2
    <3> QED BY <2>1, <3>2, <3>3
  <2> QED BY <1>1, <2>2, <2>3
<1>14. EntriesAreWritten'
  <2>1. ASSUME NEW i \in 1..(Len(kept) + 1)
        PROVE  \E j \in 1..new : manifest'[i] = written'[j]
    <3>1. CASE i = Len(kept) + 1
      BY <1>7, <1>9, <3>1
    <3>2. CASE i # Len(kept) + 1
      <4>1. i \in 1..Len(kept)
        BY <1>3, <3>2
      <4> QED BY <1>9, <1>13, <4>1
    <3> QED BY <3>1, <3>2
  <2> QED BY <1>7, <1>9, <2>1 DEF EntriesAreWritten
<1>15. ASSUME saved \in lost PROVE EntriesHaveFiles'
  <2>1. old = MaxFrames /\ written[1] = saved
    BY <1>1, <1>5, <1>6, <1>15
  <2>2. \A j \in 1..old : written[j] = saved
    <3> SUFFICES ASSUME NEW j \in 1..old PROVE written[j] = saved
      OBVIOUS
    <3>1. 1 \in 1..old /\ 1 <= j
      BY <1>1
    <3>2. written[1] <= written[j] /\ written[j] <= saved /\ written[j] \in Nat
      BY <1>8, <3>1
    <3> QED BY <1>1, <2>1, <3>2
  <2>3. Len(kept) = 0
    <3> SUFFICES ASSUME Len(kept) # 0 PROVE FALSE
      OBVIOUS
    <3>1. 1 \in 1..Len(kept)
      BY <1>3
    <3> QED BY <1>12, <1>15, <2>2, <3>1
  <2>4. \A j \in 1..new : written'[j] = saved
    BY <1>7, <1>10, <2>2
  <2>5. Len(manifest') = 1 /\ manifest'[1] = saved
    BY <1>9, <2>3
  <2>6. new = MaxFrames
    BY <1>7, <2>1
  <2>7. Len(written') = MaxFrames /\ \A j \in DOMAIN written' : written'[j] = manifest'[1]
    BY <1>7, <2>4, <2>5, <2>6 DEF new
  <2> QED BY <2>5, <2>7 DEF EntriesHaveFiles
<1>16. ASSUME saved \notin lost PROVE EntriesHaveFiles'
  <2>1. ASSUME NEW i \in 1..Len(kept) PROVE kept[i] \in files
    <3>1. CASE \A j \in DOMAIN manifest : manifest[j] \in files
      BY <1>0, <1>12, <3>1
    <3>2. CASE /\ Len(manifest) = 1 /\ Len(written) = MaxFrames
               /\ \A j \in DOMAIN written : written[j] = manifest[1]
      <4>1. old = MaxFrames /\ 1 \in 1..old /\ written[1] = manifest[1]
        BY <1>1, <3>2 DEF old
      <4>2. PICK j \in 1..Len(manifest) : kept[i] = manifest[j]
        BY <1>12
      <4>3. j = 1
        BY <3>2, <4>2
      <4> QED BY <1>5, <1>12, <4>1, <4>2, <4>3
    <3> QED BY <3>1, <3>2 DEF BundleInv, EntriesHaveFiles
  <2>2. ASSUME NEW i \in 1..(Len(kept) + 1) PROVE manifest'[i] \in files'
    <3>1. CASE i = Len(kept) + 1
      BY <1>2, <1>9, <1>16, <3>1
    <3>2. CASE i # Len(kept) + 1
      <4>1. i \in 1..Len(kept)
        BY <1>3, <3>2
      <4> QED BY <1>2, <1>9, <1>12, <2>1, <4>1
    <3> QED BY <3>1, <3>2
  <2>3. \A i \in DOMAIN manifest' : manifest'[i] \in files'
    BY <1>9, <2>2
  <2> QED BY <2>3 DEF EntriesHaveFiles
<1> QED BY <1>1, <1>2, <1>7, <1>9, <1>11, <1>14, <1>15, <1>16 DEF Frame, new

LEMMA PushKeeps ==
  ASSUME NEW S, NEW seq \in Seq(S), Len(seq) <= MaxFrames, NEW e \in S
  PROVE  Push(seq, e) \in Seq(S) /\ Len(Push(seq, e)) <= MaxFrames
<1>1. MaxFrames \in Nat /\ MaxFrames >= 1
  BY FrameBundleConstants
<1>2. CASE Len(seq) < MaxFrames
  BY <1>1, <1>2 DEF Push
<1>3. CASE Len(seq) = MaxFrames
  <2> DEFINE tail == Tail(seq)
  <2>1. seq # <<>>
    BY <1>1, <1>3
  <2>2. tail \in Seq(S) /\ Len(tail) = Len(seq) - 1
    BY <2>1
  <2>3. Push(seq, e) = Append(tail, e)
    BY <1>3 DEF Push
  <2> HIDE DEF tail
  <2> QED BY <1>1, <1>3, <2>2, <2>3
<1> QED BY <1>1, <1>2, <1>3

LEMMA SampleKeeps ==
  ASSUME BundleTypeOK, NEW pose \in Pose, NEW elapsed, Sample(pose, elapsed)
  PROVE  buffer' \in Seq(Pose) /\ Len(buffer') <= MaxFrames
  BY PushKeeps DEF BundleTypeOK, Sample

LEMMA ImageCallbackKeeps ==
  ASSUME BundleInv, ImageCallback
  PROVE  BundleInv'
<1>1. ASSUME NEW pose \in Pose, NEW elapsed \in Elapsed, ImageStored(pose, elapsed)
      PROVE  BundleInv'
  <2>1. buffer' \in Seq(Pose) /\ Len(buffer') <= MaxFrames
    BY <1>1, SampleKeeps DEF ImageStored, BundleInv
  <2>2. StoreFrame /\ UNCHANGED <<saved, diskManifest>> /\ callback' = "stored"
    BY <1>1 DEF ImageStored
  <2>3. /\ written' \in Seq(Frame) /\ Len(written') <= MaxFrames
        /\ manifest' \in Seq(Frame) /\ files' \in SUBSET Frame
        /\ WrittenInOrder' /\ EntriesAreWritten' /\ EntriesHaveFiles'
    BY <2>2, StoreFrameKeeps
  <2>4. BundleTypeOK'
    BY <2>1, <2>2, <2>3 DEF BundleInv, BundleTypeOK
  <2>5. callback' \in CallbackSteps /\ DiskIsCurrent'
    BY <2>2 DEF CallbackSteps, DiskIsCurrent, Storing
  <2> QED BY <2>3, <2>4, <2>5 DEF BundleInv
<1>2. ASSUME NEW pose \in Pose, NEW elapsed \in Elapsed, ImageNotStored(pose, elapsed)
      PROVE  BundleInv'
  <2>1. buffer' \in Seq(Pose) /\ Len(buffer') <= MaxFrames
    BY <1>2, SampleKeeps DEF ImageNotStored, BundleInv
  <2>2. UNCHANGED <<saved, written, manifest, files, diskManifest, callback>>
    BY <1>2 DEF ImageNotStored
  <2> QED BY <2>1, <2>2 DEF BundleInv, BundleTypeOK, WrittenInOrder, EntriesAreWritten,
                            EntriesHaveFiles, DiskIsCurrent, Storing
<1>3. CASE TruncateManifest
  BY <1>3 DEF TruncateManifest, BundleInv, BundleTypeOK, CallbackSteps, WrittenInOrder,
              EntriesAreWritten, EntriesHaveFiles, DiskIsCurrent, Storing
<1>4. CASE SaveManifest
  <2>1. /\ callback' = "spin" /\ diskManifest' = manifest /\ saved' = saved + 1
        /\ UNCHANGED <<buffer, written, manifest, files>>
    BY <1>4 DEF SaveManifest
  <2>2. BundleTypeOK'
    BY <2>1 DEF BundleInv, BundleTypeOK, Frame
  <2>3. WrittenInOrder'
    <3>1. written \in Seq(Nat) /\ saved \in Nat
      BY DEF BundleInv, BundleTypeOK, Frame
    <3>2. \A i \in DOMAIN written : written[i] \in Nat /\ written[i] <= saved
      BY <3>1 DEF BundleInv, WrittenInOrder
    <3>3. \A i \in DOMAIN written : written[i] <= saved + 1
      BY <3>1, <3>2
    <3> QED BY <2>1, <3>3 DEF BundleInv, WrittenInOrder
  <2> QED BY <2>1, <2>2, <2>3 DEF BundleInv, CallbackSteps, EntriesAreWritten,
                                  EntriesHaveFiles, DiskIsCurrent, Storing
<1>5. CASE SaveManifestFails
  BY <1>5 DEF SaveManifestFails, bundleVars, BundleInv, BundleTypeOK, CallbackSteps,
              WrittenInOrder, EntriesAreWritten, EntriesHaveFiles, DiskIsCurrent, Storing
<1> QED BY <1>1, <1>2, <1>3, <1>4, <1>5 DEF ImageCallback

LEMMA BundleStarts ==
  /\ Init => BundleInv
  /\ BundleInv /\ Restart => BundleInv'
<1>1. MaxFrames \in Nat /\ DOMAIN <<>> = {}
  BY FrameBundleConstants
<1>2. ASSUME Init PROVE BundleInv
  <2>1. /\ buffer = <<>> /\ saved = 0 /\ written = <<>> /\ manifest = <<>> /\ files = {}
        /\ diskManifest = <<>> /\ callback = "spin"
    BY <1>2 DEF Init, BundleInit
  <2>2. BundleTypeOK
    BY <1>1, <2>1 DEF BundleTypeOK, Frame
  <2> QED BY <1>1, <2>1, <2>2 DEF BundleInv, CallbackSteps, WrittenInOrder, EntriesAreWritten,
                                  EntriesHaveFiles, DiskIsCurrent, Storing
<1>3. ASSUME BundleInv, Restart PROVE BundleInv'
  <2>1. /\ buffer' = <<>> /\ saved' = 0 /\ written' = <<>> /\ manifest' = <<>>
        /\ diskManifest' = <<>> /\ callback' = "spin" /\ UNCHANGED files
    BY <1>3 DEF Restart, NewBundle, NewWriter
  <2>2. BundleTypeOK'
    BY <1>1, <1>3, <2>1 DEF BundleInv, BundleTypeOK, Frame
  <2> QED BY <1>1, <2>1, <2>2 DEF BundleInv, CallbackSteps, WrittenInOrder, EntriesAreWritten,
                                  EntriesHaveFiles, DiskIsCurrent, Storing
<1> QED BY <1>2, <1>3

LEMMA BundleStep == BundleInv /\ [Next]_vars => BundleInv'
<1> SUFFICES ASSUME BundleInv, [Next]_vars PROVE BundleInv'
  OBVIOUS
<1>1. ASSUME UNCHANGED bundleVars, callback' \in CallbackSteps, Storing' <=> Storing,
             callback' = "truncated" => callback = "truncated"
      PROVE  BundleInv'
  BY <1>1 DEF bundleVars, BundleInv, BundleTypeOK, WrittenInOrder, EntriesAreWritten,
              EntriesHaveFiles, DiskIsCurrent
<1>2. CASE UNCHANGED <<bundleVars, callback>>
  BY <1>1, <1>2 DEF BundleInv, Storing
<1>3. CASE ImageCallback
  BY <1>3, ImageCallbackKeeps
<1>4. CASE ReadRecords
  BY <1>1, <1>4 DEF ReadRecords, Storing, CallbackSteps
<1>5. CASE ChooseOverlay
  BY <1>1, <1>5 DEF ChooseOverlay, PublishOverlay, DropOverlay, Storing, CallbackSteps
<1>6. CASE MaybeRunJob \/ OverlayRaises \/ WorkerStep \/ UNCHANGED vars
  BY <1>2, <1>6 DEF MaybeRunJob, OverlayRaises, WorkerStep, vars
<1> QED BY <1>3, <1>4, <1>5, <1>6, BundleStarts DEF Next, ExecutorStep

-----------------------------------------------------------------------------
(* The snapshot.                                                           *)

LEMMA NoCopyIsQuiet ==
  ASSUME copy' = NoCopy, worker' \in {"clean", "release", "off"}
  PROVE  copy' \in Copy /\ CopyIsQuiet'
<1>1. NoCopy \in Copy
  BY DEF NoCopy, Copy, Frame
<1> QED BY <1>1 DEF CopyIsQuiet

(* If the pipeline finds the frames of an undisturbed snapshot and loses   *)
(* none of them, its cameras are the frames of the manifest.               *)
LEMMA RunSucceedsKeeps ==
  ASSUME BundleInv, CopyInv, RunSucceeds
  PROVE  copy' \in Copy /\ CopyIsQuiet'
<1>1. /\ copy \in Copy /\ copy.bundle \in Seq(Nat) /\ copy.read \in Seq(Nat)
      /\ worker = "run" /\ worker' = "align"
  BY DEF CopyInv, Copy, RunSucceeds, Frame
<1> DEFINE there == {i \in DOMAIN copy.bundle : copy.bundle[i] \in files \cup copy.listed}
<1>2. /\ Found \in Seq(Nat) /\ Len(Found) <= Len(copy.bundle)
      /\ Len(Found) = Len(copy.bundle) => Found = copy.bundle
      /\ DOMAIN copy.bundle \subseteq there => Found = copy.bundle
  <2>1. Found = At(copy.bundle, there)
    BY DEF Found
  <2> HIDE DEF there
  <2> QED BY <1>1, <2>1, AtKeeps
<1>3. /\ Keyframes \in Seq(Nat) /\ Len(Keyframes) <= Len(Found)
      /\ Len(Keyframes) = Len(Found) => Keyframes = Found
  BY <1>2, SelectedKeeps DEF Keyframes
<1>4. PICK registered \in (SUBSET DOMAIN Keyframes) \ {{}} :
        copy' = [copy EXCEPT !.bundle = <<>>, !.listed = {},
                             !.cameras = At(Keyframes, registered),
                             !.whole = Len(At(Keyframes, registered)) = Len(Found)]
  BY DEF RunSucceeds
<1> DEFINE cameras == At(Keyframes, registered)
           whole == Len(cameras) = Len(Found)
<1>5. /\ cameras \in Seq(Nat) /\ Len(cameras) <= Len(Keyframes)
      /\ Len(cameras) = Len(Keyframes) => cameras = Keyframes
  BY <1>3, AtKeeps
<1>6. copy' = [copy EXCEPT !.bundle = <<>>, !.listed = {}, !.cameras = cameras,
                           !.whole = whole]
  BY <1>4
<1>7. whole \in BOOLEAN /\ (whole => Len(cameras) = Len(Found))
  OBVIOUS
<1> HIDE DEF cameras, there, whole
<1>8. copy' \in Copy
  <2>1. <<>> \in Seq(Nat) /\ {} \in SUBSET Nat
    OBVIOUS
  <2> QED BY <1>1, <1>5, <1>6, <1>7, <2>1 DEF Copy, Frame
<1>9. /\ copy'.quiet = copy.quiet /\ copy'.read = copy.read /\ copy'.cameras = cameras
      /\ copy'.whole = whole
  BY <1>1, <1>6 DEF Copy
<1>10. ASSUME copy.quiet, Len(cameras) = Len(Found)
       PROVE  cameras = copy.read
  <2>1. cameras = Found /\ Len(Found) \in Nat
    BY <1>2, <1>3, <1>5, <1>10
  <2>2. /\ copy.bundle = copy.read
        /\ Len(copy.read) <= 1 \/ \A i \in DOMAIN copy.read : copy.read[i] \in copy.listed
    BY <1>1, <1>10 DEF CopyInv, CopyIsQuiet
  <2>3. CASE \A i \in DOMAIN copy.read : copy.read[i] \in copy.listed
    BY <1>2, <2>1, <2>2, <2>3 DEF there
  <2>4. CASE Len(copy.read) <= 1
    <3>1. Len(Keyframes) # 0
      <4>1. registered # {} /\ registered \subseteq DOMAIN Keyframes
        OBVIOUS
      <4> QED BY <1>3, <4>1
    <3>2. Len(Found) >= 1
      BY <1>2, <1>3, <3>1
    <3> QED BY <1>1, <1>2, <2>1, <2>2, <2>4, <3>2
  <2> QED BY <2>2, <2>3, <2>4
<1> QED BY <1>1, <1>7, <1>8, <1>9, <1>10 DEF CopyIsQuiet

LEMMA WorkerKeepsCopy ==
  ASSUME BundleInv, CopyInv, WorkerStep
  PROVE  worker' \in WorkerSteps /\ copy' \in Copy /\ CopyIsQuiet'
<1>1. UNCHANGED <<bundleVars, callback>> /\ copy \in Copy
  BY DEF WorkerStep, CopyInv
<1>2. CASE ReadManifest
  <2>1. CASE diskManifest = Torn
    BY <1>2, <2>1, NoCopyIsQuiet DEF ReadManifest, Raise, WorkerSteps
  <2>2. CASE diskManifest # Torn
    <3> DEFINE quiet == callback \notin {"stored", "truncated"}
    <3>1. /\ diskManifest \in Seq(Frame) /\ worker' = "list"
          /\ copy' = [NoCopy EXCEPT !.read = diskManifest, !.quiet = quiet]
      BY <1>2, <2>2 DEF ReadManifest, BundleInv, BundleTypeOK
    <3>2. quiet \in BOOLEAN /\ (quiet => ~Storing)
      BY DEF Storing
    <3> HIDE DEF quiet
    <3>4. copy' \in Copy /\ copy'.read = diskManifest /\ (copy'.quiet => ~Storing)
      <4>1. NoCopy \in Copy
        BY DEF NoCopy, Copy, Frame
      <4> QED BY <3>1, <3>2, <4>1 DEF Copy
    <3>3. ~Storing => diskManifest = manifest
      BY <2>2 DEF BundleInv, DiskIsCurrent
    <3> QED BY <1>1, <3>1, <3>3, <3>4 DEF CopyIsQuiet, WorkerSteps, bundleVars, Storing
  <2> QED BY <2>1, <2>2
<1>3. CASE ListFrames
  <2>1. /\ worker = "list" /\ worker' = "copy"
        /\ copy' = [copy EXCEPT !.listed = files, !.bundle = diskManifest]
    BY <1>3 DEF ListFrames
  <2>2. copy' \in Copy
    BY <1>1, <2>1 DEF Copy, BundleInv, BundleTypeOK
  <2>3. /\ copy'.quiet = copy.quiet /\ copy'.read = copy.read
        /\ copy'.bundle = diskManifest /\ copy'.listed = files
    BY <1>1, <2>1 DEF Copy
  <2> QED BY <1>1, <2>1, <2>2, <2>3 DEF CopyInv, CopyIsQuiet, WorkerSteps, bundleVars, Storing
<1>4. CASE CopyFrames
  <2>1. CASE Raise
    BY <2>1, NoCopyIsQuiet DEF Raise, WorkerSteps
  <2>2. CASE /\ worker = "copy" /\ worker' = "record"
             /\ copy' = copy \/ copy' = [copy EXCEPT !.bundle = diskManifest]
    <3>1. copy' \in Copy
      BY <1>1, <2>2 DEF Copy, BundleInv, BundleTypeOK
    <3>2. /\ copy'.quiet = copy.quiet /\ copy'.read = copy.read /\ copy'.listed = copy.listed
          /\ copy'.bundle = copy.bundle \/ copy'.bundle = diskManifest
      BY <1>1, <2>2 DEF Copy
    <3>3. ASSUME copy.quiet
          PROVE  /\ copy.bundle = copy.read /\ diskManifest = copy.read
                 /\ Len(copy.read) <= 1
                    \/ \A i \in DOMAIN copy.read : copy.read[i] \in copy.listed
      <4>1. /\ diskManifest = manifest /\ copy.read = manifest
            /\ copy.bundle = copy.read /\ copy.listed = files
        BY <2>2, <3>3 DEF CopyInv, CopyIsQuiet
      <4>2. Len(manifest) <= 1 \/ \A i \in DOMAIN manifest : manifest[i] \in files
        <5>1. EntriesHaveFiles /\ Len(manifest) \in Nat
          BY DEF BundleInv, BundleTypeOK
        <5>2. Len(manifest) = 1 => Len(manifest) <= 1
          OBVIOUS
        <5> QED BY <5>1, <5>2, Zenon DEF EntriesHaveFiles
      <4>3. Len(copy.read) <= 1 \/ \A i \in DOMAIN copy.read : copy.read[i] \in copy.listed
        BY <4>1, <4>2, Zenon
      <4> QED BY <4>1, <4>3, Zenon
    <3> QED BY <2>2, <3>1, <3>2, <3>3 DEF CopyIsQuiet, WorkerSteps
  <2> QED BY <1>4, <2>1, <2>2 DEF CopyFrames
<1>5. CASE SaveRecord
  BY <1>1, <1>5 DEF SaveRecord, CopyInv, CopyIsQuiet, WorkerSteps
<1>6. CASE SaveRecordFails
  BY <1>6, NoCopyIsQuiet DEF SaveRecordFails, Raise, WorkerSteps
<1>7. CASE RunSucceeds
  BY <1>7, RunSucceedsKeeps DEF RunSucceeds, WorkerSteps
<1>8. CASE RunFails
  BY <1>8, NoCopyIsQuiet DEF RunFails, WorkerSteps
<1>9. ASSUME NEW verdict \in Verdicts, Complete(verdict)
      PROVE  worker' \in WorkerSteps /\ copy' \in Copy /\ CopyIsQuiet'
  BY <1>9, NoCopyIsQuiet DEF Complete, WorkerSteps
<1>10. CASE CleanUp \/ RemoveJob \/ CleanedUp \/ Release
  BY <1>1, <1>10 DEF CleanUp, RemoveJob, CleanedUp, Release, CopyInv, CopyIsQuiet, WorkerSteps
<1> QED BY <1>2, <1>3, <1>4, <1>5, <1>6, <1>7, <1>8, <1>9, <1>10 DEF WorkerStep

LEMMA CopyStep == BundleInv /\ CopyInv /\ [Next]_vars => CopyInv'
<1> SUFFICES ASSUME BundleInv, CopyInv, [Next]_vars PROVE CopyInv'
  OBVIOUS
<1>1. CASE ImageCallback /\ Disturb /\ UNCHANGED <<alive, lastJobSaved, worker>>
  <2>1. copy \in Copy /\ copy' \in Copy
    BY <1>1 DEF CopyInv, Copy, Disturb
  <2>2. CASE callback' = "stored" /\ worker \in {"list", "copy"}
    <3>1. ~copy'.quiet
      BY <1>1, <2>1, <2>2 DEF Disturb, Copy
    <3> QED BY <1>1, <2>1, <3>1 DEF CopyInv, CopyIsQuiet
  <2>3. CASE callback' = "stored" /\ worker \notin {"list", "copy"}
    BY <1>1, <2>1, <2>3 DEF CopyInv, CopyIsQuiet, Disturb
  <2>4. CASE callback' # "stored"
    <3>1. copy' = copy
      BY <1>1, <2>4 DEF Disturb
    <3>2. ~Storing => ~Storing' /\ UNCHANGED <<manifest, files, diskManifest>>
      BY <1>1, <2>4 DEF ImageCallback, ImageStored, ImageNotStored, TruncateManifest,
                        SaveManifest, SaveManifestFails, Storing
    <3> QED BY <1>1, <2>1, <3>1, <3>2 DEF CopyInv, CopyIsQuiet
  <2> QED BY <2>2, <2>3, <2>4
<1>2. CASE MaybeRunJob /\ UNCHANGED alive
  BY <1>2 DEF MaybeRunJob, CopyInv, CopyIsQuiet, WorkerSteps, BundleInv, BundleTypeOK
<1>3. CASE ReadRecords \/ ChooseOverlay \/ OverlayRaises \/ UNCHANGED vars
  <2>1. /\ UNCHANGED <<manifest, files, diskManifest, lastJobSaved, worker, copy>>
        /\ alive' \in BOOLEAN /\ (Storing' <=> Storing)
    BY <1>3 DEF ReadRecords, ChooseOverlay, PublishOverlay, DropOverlay, OverlayRaises, vars,
                bundleVars, jobVars, CopyInv, Storing
  <2> QED BY <2>1 DEF CopyInv, CopyIsQuiet
<1>4. CASE WorkerStep /\ UNCHANGED alive
  BY <1>4, WorkerKeepsCopy DEF WorkerStep, CopyInv
<1>5. CASE Restart
  BY <1>5, NoCopyIsQuiet DEF Restart, CopyInv, WorkerSteps, Frame
<1> QED BY <1>1, <1>2, <1>3, <1>4, <1>5 DEF Next, ExecutorStep

LEMMA CopyStarts == Init => CopyInv
<1>1. NoCopy \in Copy
  BY DEF NoCopy, Copy, Frame
<1> QED BY <1>1 DEF Init, CopyInv, CopyIsQuiet, WorkerSteps, Frame

LEMMA CopyInvIsHonest == CopyInv => PairsAreHonest
<1> SUFFICES ASSUME CopyInv, worker = "align", copy.quiet, copy.whole, NEW p \in Pairs
             PROVE  p[1] = p[2]
  BY DEF PairsAreHonest
<1>1. copy.cameras = copy.read
  BY DEF CopyInv, CopyIsQuiet
<1> QED BY <1>1 DEF Pairs

(* Cameras are paired with the poses of their own frames, with bundles,    *)
(* keyframes and jobs of any number, if no frame was stored while the      *)
(* bundle was copied and the pipeline lost none: also after saves of the   *)
(* manifest have failed and frames have taken each other's names.          *)
(* (bundle_io.py, BundleWriter; worker_core.py, snapshot_latest_bundle,    *)
(* _write_pose_correspondences)                                            *)
THEOREM PairsAreAlwaysHonest == Spec => []PairsAreHonest
  BY BundleStarts, BundleStep, CopyStarts, CopyStep, CopyInvIsHonest, PTL DEF Spec

LEMMA InvIsTyped == BundleInv /\ CopyInv /\ Inv => TypeOK
<1> SUFFICES ASSUME BundleInv, CopyInv, Inv PROVE TypeOK
  OBVIOUS
<1>1. jobs \in Seq(Job) /\ DOMAIN jobs \subseteq Nat
  BY DEF Inv, JobTypeOK
<1>2. stale \in SUBSET Nat /\ startupIds \in SUBSET Nat /\ seen \in SUBSET Nat
  BY <1>1 DEF Inv, JobTypeOK, RunsApart
<1>3. overlay \in Nat /\ lastShown \in Nat
  BY <1>1 DEF Inv, ShownStands, NoOverlay
<1> QED BY <1>1, <1>2, <1>3 DEF TypeOK, BundleInv, CopyInv

(* The refiner's state is of its type: the buffer and the writer's frames  *)
(* never outgrow max_buffered_frames, whatever fails and restarts.         *)
(* (bundle_core.py; bundle_io.py, write_frame; semantic_refiner_node.py)   *)
THEOREM RefinerIsTyped == Spec => []TypeOK
  BY BundleStarts, BundleStep, CopyStarts, CopyStep, InvStarts, InvStep, InvIsTyped, PTL
  DEF Spec
=============================================================================
