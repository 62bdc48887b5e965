---------------------------- MODULE FrameBundle ----------------------------
(***************************************************************************)
(* The rolling bundle of camera frames that semantic_refiner_node.py keeps *)
(* for its worker: which images are sampled (frame_sampler.py), the buffer *)
(* of their poses (bundle_core.py), when it is worth a job                 *)
(* (bundle_quality.py), and the frames and the manifest on disk            *)
(* (bundle_io.py).                                                         *)
(*                                                                         *)
(* Poses are points of a line with a heading, in whole units; Missing is   *)
(* the pose of a frame for which no transform was found.  A frame is its   *)
(* index, which is its file name.  The time since the last sample is any   *)
(* of Elapsed, and negative when the clock has jumped back.                *)
(***************************************************************************)
EXTENDS Integers, Sequences

CONSTANTS
  Poses,              \* robot poses, records [x, yaw]
  Missing,            \* the pose that could not be looked up
  Torn,               \* a manifest truncated, or written in part
  Turn,               \* a full turn, in units of yaw
  Elapsed,            \* seconds since the last sample, whole numbers
  Interval,           \* frame_sample_interval_sec
  MinTranslation,     \* frame_sample_min_translation_m
  MinYaw,             \* frame_sample_min_yaw_rad
  MaxFrames,          \* max_buffered_frames
  MinFrames,          \* min_buffered_frames_for_job
  MinPoseFrames,      \* min_pose_frames_for_job
  MinSpan,            \* min_bundle_translation_span_m
  MinPath,            \* min_bundle_path_length_m
  MaxSaved            \* bound: frames saved in one run

ASSUME FrameBundleConstants ==
  /\ \A p \in Poses : p.x \in Int /\ p.yaw \in Int
  /\ Missing \notin Poses
  /\ Torn \notin Seq(Nat)
  /\ Elapsed \subseteq Int
  /\ {Turn, MaxFrames} \subseteq Nat \ {0}
  /\ {Interval, MinTranslation, MinYaw, MinFrames, MinPoseFrames,
      MinSpan, MinPath, MaxSaved} \subseteq Nat

VARIABLES
  buffer,             \* _buffer: poses of the sampled frames
  saved,              \* _saved_frame_count, the index of the next frame
  written,            \* _written_paths of the writer
  manifest,           \* _manifest["frames"] of the writer
  files,              \* the frames in latest/frames
  diskManifest,       \* latest/manifest.json: its frames, or Torn
  callback            \* what the executor's thread is in the middle of

bundleVars == <<buffer, saved, written, manifest, files, diskManifest>>

Frame == Nat
Pose == Poses \cup {Missing}

BundleTypeOK ==
  /\ buffer \in Seq(Pose) /\ Len(buffer) <= MaxFrames
  /\ saved \in Frame
  /\ written \in Seq(Frame) /\ Len(written) <= MaxFrames
  /\ manifest \in Seq(Frame)
  /\ files \in SUBSET Frame
  /\ diskManifest \in Seq(Frame) \cup {Torn}

Abs(n) == IF n < 0 THEN -n ELSE n
Larger(a, b) == IF a < b THEN b ELSE a

(* The elements of a sequence at some of its positions, in their order.    *)
At(seq, positions) ==
  LET at[n \in 0..Len(seq)] ==
        IF n = 0 THEN <<>>
        ELSE IF n \in positions THEN Append(at[n - 1], seq[n]) ELSE at[n - 1]
  IN at[Len(seq)]

PushUnbounded(seq, e) == Append(seq, e)                           \* mutant

(* A deque of bounded length: the oldest element makes room.               *)
Push(seq, e) == Append(IF Len(seq) < MaxFrames THEN seq ELSE Tail(seq), e)

-----------------------------------------------------------------------------
(* frame_sampler.py                                                         *)

YawDelta(a, b) == LET d == (b - a) % Turn IN IF d > Turn - d THEN Turn - d ELSE d

(* A pose missing at either end, or no gate at all, counts as motion.      *)
MeetsMotionGate(last, pose) ==
  {last, pose} \subseteq Poses /\ MinTranslation + MinYaw > 0 =>
    \/ Abs(pose.x - last.x) >= MinTranslation
    \/ YawDelta(last.yaw, pose.yaw) >= MinYaw

(* The last sample is the newest frame of the buffer.                      *)
ShouldSample(pose, elapsed) ==
  buffer # <<>> =>
    /\ Interval > 0 => elapsed >= Interval
    /\ MeetsMotionGate(buffer[Len(buffer)], pose)

-----------------------------------------------------------------------------
(* bundle_quality.py                                                        *)

PoseFrames(frames) == At(frames, {i \in DOMAIN frames : frames[i] # Missing})

Span(poses) ==
  LET span[i \in Nat] ==
        IF i <= 1 THEN 0 ELSE Larger(span[i - 1], Abs(poses[i].x - poses[1].x))
  IN span[Len(poses)]

PathLength(poses) ==
  LET path[i \in Nat] ==
        IF i <= 1 THEN 0 ELSE path[i - 1] + Abs(poses[i].x - poses[i - 1].x)
  IN path[Len(poses)]

Ready(frames) ==
  LET poses == PoseFrames(frames)
  IN /\ Len(poses) >= Larger(1, MinPoseFrames)
     /\ Span(poses) >= MinSpan \/ PathLength(poses) >= MinPath

-----------------------------------------------------------------------------
(* A new writer makes an empty manifest; frames of an earlier run stay.    *)
NewWriter ==
  /\ written' = <<>>
  /\ manifest' = <<>>
  /\ diskManifest' = <<>>
  /\ UNCHANGED files

NewBundle ==
  /\ buffer' = <<>>
  /\ saved' = 0
  /\ NewWriter

BundleInit ==
  /\ buffer = <<>>
  /\ saved = 0
  /\ written = <<>>
  /\ manifest = <<>>
  /\ files = {}
  /\ diskManifest = <<>>

Sample(pose, elapsed) ==
  /\ callback = "spin"
  /\ ShouldSample(pose, elapsed)
  /\ buffer' = Push(buffer, pose)

StoreFrameKeepingEntry ==                                         \* mutant
  LET stale == IF Len(written) = MaxFrames THEN {written[1]} ELSE {}
  IN /\ files' = (files \cup {saved}) \ stale
     /\ written' = Push(written, saved)
     /\ manifest' = Append(manifest, saved)

(* The image is stored under the next index; when the writer is full the   *)
(* oldest file is unlinked and every entry of that name struck out.  The   *)
(* manifest on disk still names it.                                        *)
StoreFrame ==
  LET full  == Len(written) = MaxFrames
      stale == IF full THEN {written[1]} ELSE {}
  IN /\ files' = (files \cup {saved}) \ stale
     /\ written' = Push(written, saved)
     /\ manifest' = Append(At(manifest, {i \in DOMAIN manifest : manifest[i] \notin stale}),
                           saved)

ImageStored(pose, elapsed) ==
  /\ saved < MaxSaved
  /\ Sample(pose, elapsed)
  /\ StoreFrame
  /\ callback' = "stored"
  /\ UNCHANGED <<saved, diskManifest>>

(* Conversion or imwrite raises: the frame is in the buffer only.          *)
ImageNotStored(pose, elapsed) ==
  /\ Sample(pose, elapsed)
  /\ UNCHANGED <<saved, written, manifest, files, diskManifest, callback>>

(* write_text truncates the manifest before it writes it.                  *)
TruncateManifest ==
  /\ callback = "stored"
  /\ callback' = "truncated"
  /\ diskManifest' = Torn
  /\ UNCHANGED <<buffer, saved, written, manifest, files>>

SaveManifest ==
  /\ callback = "truncated"
  /\ callback' = "spin"
  /\ diskManifest' = manifest
  /\ saved' = saved + 1
  /\ UNCHANGED <<buffer, written, manifest, files>>

(* A full disk: the index is not advanced, and the next frame reuses it.   *)
SaveManifestFails ==
  /\ callback = "truncated"
  /\ callback' = "spin"
  /\ UNCHANGED bundleVars

ImageCallback ==
  \/ \E pose \in Pose, elapsed \in Elapsed :
       ImageStored(pose, elapsed) \/ ImageNotStored(pose, elapsed)
  \/ TruncateManifest
  \/ SaveManifest
  \/ SaveManifestFails

=============================================================================
