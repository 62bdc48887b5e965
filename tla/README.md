# TLA+ verification of semantic-nav-isaac

This directory specifies, model-checks and partly proves the control logic of
the ROS 2 workspace `dev/turtlebot3/ros2_ws/src` (called `W` below): a robot
explores a building by frontiers, remembers what it sees, and interrupts the
exploration to drive to an object an operator names.

`PROJECT.json` lists the components, the runs, the mutated definitions that
show each property can fail, the source lines behind every definition, the
disagreements found, the hazards of the code and the theorems.

## 1. Inventory

### Components, their state and their operations

| Component (source under `W`) | State | Operations | Here |
|---|---|---|---|
| Coordinator, `tb3_coordinator/coordinator_node.py` | mode, armed, last permission published, Nav2 goal handle, resume / timeout / sweep timers, idle count | arming service; user command; query result; goal pose; Nav2 response and result; timeout; resume; sweep check and tick | `Coordinator`, `ModePolicy` |
| Goal assignment, `tb3_frontier_exploration/src/goal_assignment_node.cpp` | state, goal handle, current goal, last failed goal, visit history, permission, warmup flag, latest frontiers | 1 Hz timer (cancel, expire, wait, dispatch); permission, warmup and frontier topics; Nav2 response and result | `GoalAssignment` |
| Nav2 `NavigateToPose` server (not in the repository) | one goal at a time, preemption | accept, reject, finish, cancel | `Nav2Server` |
| Launch composition of these three | `/exploration_enabled` messages on their way | publication, delivery, preemption across clients | `SemanticNavSystem` |
| Frontier detection, `tb3_frontier_exploration/src/frontier_detection_node.cpp` | latest costmap | map callback (cluster, centroid, filter, publish), costmap callback | `FrontierDetection` |
| Semantic memory registry, `tb3_memory` | objects by id, id counters | detection callback, publication timer | `SemanticMemory` |
| Persistent landmark memory, `tb3_coordinator/semantic_map_memory_node.py` | map, candidates, landmarks | objects, map, cleanup timer | `LandmarkMemory` |
| Semantic query, `tb3_query`, and goal adapter, `tb3_nav_adapter` | last map received; answers not handled yet | map messages; one answer per command; a pose per successful answer, or none | `SemanticQuery`; their outside, in `Coordinator` |
| Semantic refiner, `tb3_semantic_refiner` | rolling bundle and its manifest, worker thread, job directories, overlay | image callback, job start, the worker's steps, cleanup, overlay timer, restart | `FrameBundle`, `RefinerJobs`, `OverlayPolicy` |
| Live semantic map, `tb3_semantic_map` | entities, id counters, last scan, map and refined state, sampler | image callback, scan, map, refined state, publication timer | `LiveSemanticMap`, `Enrichment` |
| Localizer, `tb3_localizer` | none | bearing of a pixel, ray of a bearing, range around a ray | `ScanGeometry` (its core) |
| Startup warmup, `tb3_frontier_exploration/scripts/startup_map_warmup_node.py` | phase and its start | timer, interrupt | `StartupWarmup`; its message, in `GoalAssignment` |
| Contract checker, `isaac_semantic_nav/contract*.py` | windows of arrivals, failed reports in a row | message, observation of endpoints and transforms, report, shutdown | `ContractChecker` |
| Detector | none | one stateless callback | what its parser returns, in `LiveSemanticMap` |
| Vendored `semantic-nav-memory` | none | one run per job | which frames it takes and how it may end, in `RefinerJobs` |
| Runtime debug, markers, preflight | counters | subscribe, count, print | not modelled: they influence no other node |
| Isaac Sim scene and scripts, smallcar demo | | | not modelled: assets, process start-up |

### How they interact

    operator --arm/command--> Coordinator --command--> query --selection--> adapter
                                  |  ^  <------- query result ----'           |
              /exploration_enabled|  '------------- goal pose ----------------'
                                  v
    SLAM map --> FrontierDetection --frontiers--> GoalAssignment
                                  Coordinator --goals--> Nav2 <--goals-- GoalAssignment
    detector -> localizer -> SemanticMemory --every second--> LandmarkMemory --> query
    images, scans --> LiveSemanticMap --------------- or -------------------> query
                            ^  refined state
    images --> refiner (executor | worker thread on one directory tree)

Nodes share nothing but topics, services and the Nav2 action server. Every
node's executor runs one callback at a time, so a callback is an atomic step and
the difficulty lies in the order of callbacks, messages, timers and the
server's own steps. The refiner is the exception: a worker thread of its own and
a directory tree that outlives the process. What makes them hard:

* an acceptance, rejection or result arrives after the node has moved on;
* no message says which command or goal it is about, or the code does not look;
* the permission travels while frontier requests are under way, and Nav2 serves
  two clients that do not know of each other;
* rclpy timers are periodic: one that is overwritten without being cancelled
  keeps firing;
* memory nodes see the same sighting again and again, at positions relative to
  a robot that moves;
* the refiner's worker copies a directory that the image callback is rewriting,
  and removes directories that the overlay timer is reading; a write may fail,
  and a restart finds what earlier runs have left;
* answers, refined states and overlays are used long after they were made, when
  the robot, the map or the clock is somewhere else.

### What makes each component correct

* Coordinator: disarmed is quiet; a command is served undisturbed; mode,
  permission and timers agree; a cancel reaches the goal it is meant for; every
  query, held goal and outcome ends.
* Goal assignment: disabled is idle; navigating always has something to end it,
  and ends; one goal at a time; outcomes recorded where they happened.
* Composition: exploration is really paused while a command is served and really
  given back.
* Frontier detection: clusters are the connected components; nothing is published
  that the current costmap rejects.
* Memories: an id names one object; landmarks of one class, or of classes that
  exclude each other, do not coincide.
* Refiner: an overlay is an accepted job of this run and moves forward only;
  frames and cameras are paired as they were taken; no failure keeps the next
  job from starting; the latest accepted job is shown.
* Live map: what a refined state adds stands on live entities; the ray of a
  detection is the one that points at it; what is no longer seen is forgotten.
* Query and adapter: the answer is the best the map holds; the goal lies between
  the robot and the target.
* Startup: the warmup gives the robot back as it found it; a topic that falls
  quiet is reported.

## 2. Modules

| Module | Models | Extends / instantiates |
|---|---|---|
| `Nav2Server` | Nav2 as its clients see it (external) | |
| `Coordinator` | `coordinator_node.py`, one action per callback | extends `Nav2Server`, `Policy == INSTANCE ModePolicy` |
| `ModePolicy` | abstract specification: mode, arming and permission alone | |
| `GoalAssignment` | `goal_assignment_node.cpp`, one action per callback or way through the timer | extends `Nav2Server` |
| `ExplorationHistory` | the same with history variables: when a second goal may be under way, and the arrivals | extends `GoalAssignment` |
| `SemanticNavSystem` | both nodes, the permission topic, one Nav2 server | instantiates `Coordinator` and `GoalAssignment` |
| `FrontierDetection` | `frontier_detection_node.cpp` | |
| `SemanticMemory` | `memory_core.py`, `semantic_memory_node.py` | |
| `LandmarkMemory` | `semantic_map_memory_node.py` | extends `SemanticMemory` |
| `FrameBundle` | sampling, buffer, readiness, frames and manifest on disk: `frame_sampler.py`, `bundle_core.py`, `bundle_quality.py`, `bundle_io.py`, `_image_cb` | |
| `RefinerJobs` | `semantic_refiner_node.py` against `worker_core.py`, one action per step that touches the shared directory; the frame selection of the vendored `video_io.py` | extends `FrameBundle`, `Policy == INSTANCE OverlayPolicy` |
| `OverlayPolicy` | abstract specification: jobs judged, an overlay that moves forward | |
| `ScanGeometry` | `localizer_core.py` | |
| `Line` | distances, on a line | |
| `Enrichment` | `enrichment.py` and the builders of places, relations, anchors and the message | extends `Line` |
| `LiveSemanticMap` | `semantic_map_node.py`, its `memory_core.py`, `frame_sampler.py`, `grounding.py` | extends `ScanGeometry`, `Enrichment` |
| `SemanticQuery` | `semantic_query_node.py`, `query_core.py`, `nav_goal_adapter_node.py`, `goal_adapter_core.py` | extends `Line` |
| `StartupWarmup`, `ContractChecker` | `startup_map_warmup_node.py`; `contract.py`, `contract_checker_node.py` | |
| `Startup` | both, as `isaac_semantic_nav.launch.py` starts them | extends both |
| `MC...` | values of the constants for TLC | the module it is named after |
| `...Proofs` | theorems checked by TLAPS; `GoalAssignmentProofs`, of `GoalAssignment` and `ExplorationHistory`; `SemanticMapProofs`, of `LiveSemanticMap` and of `SemanticQuery` (whose specification is `QuerySpec`) | the module it is named after, `TLAPS` and the library's theorems |

Definitions carry the names of the methods they model, in CamelCase
(`_set_motion_armed_cb` is `Arm`, `ArmRefused` and `Disarm`); the comment of a
variable names the attribute it stands for. Definitions marked `\* mutant` are
plausible errors in the definition that follows them. They are used by no
specification; putting one in the place of its neighbour makes TLC report the
property `PROJECT.json` names, which shows that the property says something.

### Modelling decisions

* **Nav2Server.** A goal is requested, then accepted or rejected, then succeeds,
  aborts or is cancelled; each is a step of the server, and its client processes
  each message in a step of its own. Accepting a goal aborts the running one.
  The result of an accepted goal is delivered even after the client has
  dropped the handle, as both client libraries do. A server that dies is not
  modelled.
* **Coordinator.** Contents of commands and poses are abstracted to how many are
  under way; the readiness test of arming is a nondeterministic answer. The
  query node answers each command once, in order; the adapter publishes a pose
  or none. `liveNavTimers` holds every timeout timer that was never cancelled,
  and `staleSweep` a sweep timer that was overwritten. `_idle_explore_count` is
  capped where the code stops distinguishing values. Ticks of the sweep before
  the last only publish a velocity.
* **PromptAnswers.** The sweep begins after six checks 5 s apart. With
  `PromptAnswers = TRUE` Nav2 has answered every goal request by then. Without
  it a rejection can land in a sweep: the mode becomes TARGET_FAILED with the
  sweep timer ticking, a second sweep overwrites it, and `ModeMatchesPermission`
  and `ServingUndisturbed` fail. The results that need the assumption say so.
* **GoalAssignment.** Centroids are points of a line under the code's distance
  tests. Time is nondeterministic: a held goal may be expired at any tick
  (`GoalsExpire`), and so may the warmup wait. Odometry only moves the robot.
* **ExplorationHistory.** The node can lose track of a goal, and the code has two
  ways to do it: the permission comes back while a request is unanswered
  (`GivenBackUnanswered`), or a goal is sent before the outcome of a cancelled one
  was heard (`SentBeforeOutcome`). `overtaken` records that one of them has
  occurred since goals were last all free, and `arrivals` the last `HistoryLimit`
  places Nav2 reported as reached since; both are functions of the steps and
  restrict none. The properties say that whatever goes wrong has one of the two
  causes: every other withdrawal, timeout and late answer is covered. Either cause
  is needed; without it TLC finds all three properties violated.
* **SemanticNavSystem.** `/exploration_enabled` is reliable and ordered, hence a
  queue. Publishing the value already published changes nothing at the
  subscriber and is left out.
* **FrontierDetection.** Lengths are in cells and coordinates exact fractions
  where the code has doubles. Cells carry the `int8` values of an
  `OccupancyGrid`; a cost is that byte read as unsigned.
* **SemanticMemory, LandmarkMemory.** Positions are points of a line. A smoothed
  position is any point between the old one and the detection; the mean of n
  observations is kept exactly, as sum and count. `At` is the filter of both
  registries, element by element. What the obstacle search
  answers for a label at a cell, and whether the geometry fits the label, is
  data of the map: it may answer another place of one obstacle for another cell, as
  a search that sees no more than its window does. Whether a detection can be placed
  at all is open for each (`located` in `ObjectsReceived`): the transform into the
  map may fail (`semantic_map_memory_node.py:530`), and the detection is passed over. Time is counted in periods of the publication timer, and a
  publication is handled before the next.
* **FrameBundle, RefinerJobs.** A frame is its index, which is its file name, and
  a job its number. `callback` is what the executor's thread is in the middle
  of, `worker` what the worker thread does next; a step of either is what it
  does to the directory tree between two points at which the other may see it.
  `write_text` truncates before it writes, so that a manifest may be read `Torn`.
  A frame that is unlinked while the bundle is copied may have been copied in
  time or makes the copy fail. What a job computes is any of its outcomes. An
  accepted job needs two pairs. The record of a job is read in one step: it
  becomes complete once, and one job is at work at a time. `Restart` may happen
  at any step; it forgets everything but the frames and the jobs. `copy.quiet`,
  `copy.whole` and `lastShown` are history. Not in the model: a subprocess that
  outlives its process, and `cv2.imwrite` that returns FALSE.
* **LiveSemanticMap.** A callback runs to its end, and the clock goes on while it
  does: a detection is as old as the inference was long. Time is relative and
  ages are cut off above the remove timeout. Positions are points of a line, and
  a smoothed position and the mean of a place are rounded to it. Angles are
  whole numbers and angle increments positive. Confidences are kept of refined
  items only, where the code compares them. `At` is the filter of the registry,
  element by element. `Matches` is the code's dict: should two refined entities
  have one id, the last match counts, and the live entity of the other one stays
  claimed. Two assumptions are made of the inputs. `RaysWithinReach`: a scan
  begins within half a revolution of straight ahead and is about one revolution
  long, so that the revolutions from -2 to 2 that the code tries are enough.
  `RefinedStatesAreSound`: no refined relation is of a thing with itself (the
  worker's `relation_inference.py` makes none, and `enrichment.py` would pass it
  on), and no semantic name is the prefix `refined` of added places.
* **SemanticQuery.** A sentence is a sequence of words in which a phrase is one
  word. The answers travel on a queue of bounded depth that forgets its oldest.
  A transform that is not there makes the query take the origin and the adapter
  make no goal, as the code does. The objects of a message have ids of their own
  (`IdsAreUnique`): the registries give no id twice (`IdsAreNotReused`), and what
  the live map publishes is proved to have it (`PublishedIdsAreAlwaysUnique`).
* **Startup.** The warmup's timer may be late by less than `MaxLate`, the robot
  obeys the last command. In the checker, time passes in units, an arrival is kept by
  its age and the report is punctual. `shutdown_on_failure` is set (its default
  is FALSE: then the node is never down). The two share no state, so a behaviour
  has one of them.

## 3. Runs

`tlc -config <run>.cfg <module>`; the bounds are in the cfg files.

| Run | Checks | Bounds, and why they are enough |
|---|---|---|
| `CoordinatorSafety` | `TypeOK`, `DisarmedIsQuiet`, `ServingUndisturbed`, `ModeMatchesPermission`, `HandleIsUsable`, and that `Coordinator` implements `ModePolicy` | Two goals (one superseding the other is the conflict; goals are symmetric), two commands under way (a late answer to a superseded one), two idle checks (the count below and at its limit) |
| `CoordinatorLiveness` | `QueriesEnd`, `OutcomesResume`, `HeldGoalEnds` | One command under way, one idle check; commands repeat for ever |
| `GoalAssignment` | `TypeOK`, `DisabledIsIdle`, `NavigatingIsAnswerable`, `HandleIsUsable`, `GoalsEnd` | Two goals; three centroids of which two lie within both radii and one outside; permission changing and goals expiring at any time; a history of two, so that it is truncated |
| `ExplorationHistory` | `TwoGoalsHaveACause`, `StrayOutcomesHaveACause`, `ArrivalsAreSpaced` | Two goals, permission changing and goals expiring at any time; two centroids within both radii and one outside, two visits allowed, a history of three: the three and more visits that happen truncate it. The warmup, which the first permission ends or not, is left to `GoalAssignment` |
| `System` | `ServingPausesExploration`, `ExploringMeansEnabled`, `ExplorationIsGivenBack` | One goal per client, which already gives preemption in both directions; two permissions on their way |
| `FrontierDetection` | `ClustersAreComponents`, `CentroidsInBox`, `PublishedAreSafe` | Every 3 x 3 map with at most one occupied cell; no costmap, an aligned one, and one shifted and coarser; one map after any costmaps, since the map callback reads nothing an earlier map left |
| `LandmarkMemory` | `TypeOK`, `LandmarksLieApart`, `IdsAreNotReused` | Two exclusive classes and two obstacles on six cells, a wide one found at 0 or 1 depending on the cell asked for, so that means drift (a landmark at 0.5 is reached beside one of the other class), and one at 5; a robot that moves between sighting and publication, a sighting outside the map, two observations to promote and two more to drift, short timeouts so that ageing and cleanup happen |
| `RefinerJobs` | `TypeOK`, `OverlayIsOfThisRun`, `PairsAreHonest`, `JobsEnd`, `AcceptedIsShown`, and that `RefinerJobs` implements `OverlayPolicy` | Two jobs over all runs (the second removes, outdates or outlives the first), two frames saved a run in a bundle of three: a frame whose manifest could not be saved leaves its index to the next, so that the bundle fills up and unlinks, and two keyframes make the selection drop one; one job kept (so that cleanup removes); restarts and failures at every step. The code keeps `max_keyframes` at 8 or more; two make the selection drop frames as early |
| `LiveSemanticMap` | `TypeOK`, `RefinementStandsOnLive`, `RaysMatchBearings`, `UnseenIsForgotten` | Four layouts of a scan (`[0, turn)`, `[-half, half]` with one direction twice, partial, coarse) of twelve angles to a turn; a robot that faces up, down or nowhere; two boxes an image, two entities in all (two refined entities then compete for one), two refined states with low confidences, members lost and anchors that coincide; inference of up to one unit and a clock set back by one |
| `SemanticQuery` | `AnswersAreBest`, `GoalsLieBetween` | Three maps (with relations either way round, of confidence 0 and towards a bare detection; with equals; in the robot's frame), seven sentences of which two ask for nothing, all four launches, answers queued to a depth of two |
| `Startup` | `WarmupReturns`, `QuietIsReported` | Ticks up to three units late against turns of five; a topic with a rate and an age, another with neither; a window of three, a grace of two, two failures; the checker's clock stops changing anything at `Horizon` |

Deadlock is checked everywhere but in `FrontierDetection`, whose runs end after
one map, and `Startup`, whose warmup ends. One run ends in a violation, a
disagreement between the code and what the repository says of it:

| Run | Shows |
|---|---|
| `CoordinatorDisarmStopsGoals` | A goal accepted after a disarm drives on. `_cancel_nav_goal` can only cancel a handle it has, and the response callback looks at nothing. `SIM2REAL_DEPLOYMENT_PLAN.md:87`: "Disarming must cancel active goals". |

Disagreements that the models contain and no run reports by itself:

* SEMANTIC_NAV is entered with no timeout (`coordinator_node.py:412`): when the
  adapter publishes no pose, or the pose was handled first and dropped, the mode
  is never left and exploration stays paused, against step 6 of the docstring
  (`QueryResult`, `AdaptGoal`, `GoalPose`).
* The sweep begins while the robot is driven to a frontier: "idle"
  (`coordinator_node.py:551`) looks at the coordinator's own handle only, while
  the docstring at 542 speaks of a robot that has not moved.
* A threshold on the 0-255 scale is compared with costs of an `OccupancyGrid`,
  where lethal is 100 (`frontier_detection_node.cpp:493`): no known cell is ever
  rejected.
* One detection is republished every second for 5 s and each publication counts
  as an observation (`semantic_map_memory_node.py:616`): one sighting makes a
  landmark.
* The result of a superseded goal of the coordinator ends SEMANTIC_NAV, and
  clears the handle, of the goal that followed it (`NavResult`).
* Disabling and enabling exploration while a request is unanswered sends a second
  goal (`ExplorationEnabled`, `TickDispatch`), against "one goal at a time" of
  `GOAL_ASSIGNMENT_NODE_DESIGN.md:80`; two goals then leave one without handle,
  which a later withdrawal of the permission does not stop. So does a goal sent after
  a cancel whose outcome is still to come. `ExplorationHistory` checks, and
  `GoalAssignmentProofs` proves, that these are the only two ways to it.
* After a rejection in EXPLORING the mode is TARGET_FAILED with the permission
  still given; `ModeMatchesPermission` allows it, and resuming repairs it.
* A frontier request that Nav2 accepts after the semantic goal preempts it.
  Goal assignment cancels its own goal, but the semantic goal has failed.
* With `allow_lidar_only_landmarks` observations are not tied to obstacles, means
  drift anywhere, and landmarks may meet. `LandmarksLieApart` is stated, and checked, for
  the node's default, FALSE; `coordinator.yaml:79` sets TRUE.
* The refiner pairs cameras and frames by position (`worker_core.py:242`). As soon
  as the pipeline selects among more than `max_keyframes` frames, or drops one,
  later cameras get the pose of another frame. `PairsAreHonest` says when they
  do not: no frame stored during the copy, none lost.
* The overlay timer looks at `job.json` again (`semantic_refiner_node.py:403`), or
  loads the scene, after the worker may have removed the job; the exception ends
  the process (`OverlayRaises`).
* After an accepted job, a rejected one and enough failing ones, cleanup removes
  the rejected job and keeps the accepted one, and the overlay that had been
  withdrawn comes back. `OverlayPolicy` allows it: it is no older than what was
  shown.
* Frames of earlier runs are never unlinked, unless their index is used again; a
  manifest that could not be saved makes the next frame use the same index.
* Nothing tells the live map that the refiner has withdrawn its overlay
  (`semantic_map_node.py:254`); the last refined state goes on enriching.
* A dropped image uses up its slot of the sampler, inference longer than the
  stale timeout keeps an entity from ever being published, and after the clock
  was set back no image is taken until it has caught up.
* "Keep one full sample" (`localizer_core.py:117`) has no effect: only rays that
  the bearing rounds to are candidates, and they are within half a step.
* "go near the table" asks for nothing (`ParseCommand`), and a relation at
  exactly the near distance has confidence 0 and is passed over.
* `goal_adapter_core.py:8` has the robot stop `approach_distance` away; nearer than
  that and the standoff together it stops nearer (`GoalsLieBetween`).
* A warmup that is interrupted in a turn says that it is complete and sends no
  command to stop. Only a `KeyboardInterrupt` ends it that way (`main`, line 175):
  any other stop, such as the `ExternalShutdownException` of a node that is shut
  down, says nothing. The model has no such stop; `GoalAssignment` has the
  completion that never comes (`TickWarmupExpired`).

## 4. Fairness

* Coordinator (`Fairness`): each callback that is ready, and each timer that is
  live, runs in the end, because the executor spins and rclpy timers are
  periodic; the query node and the adapter handle what they receive; Nav2
  answers every request and honours every cancel. Nothing is assumed of the
  operator, and no goal is assumed to finish: `HeldGoalEnds` rests on the
  timeout timer.
* Goal assignment (`FairSpec`): the timer ticks, ready callbacks run, Nav2 answers
  every request. That Nav2 reports a result is not assumed: `GoalsEnd` rests on
  the goal timeout.
* System (`FairSpec`): permissions are delivered and the resume timer fires. With
  nothing more, an outcome leads to an enabled goal assignment unless the
  operator disarms or commands again.
* Refiner (`FairSpec`): the worker thread goes on (its subprocess has a timeout), a
  callback that was begun goes on, and the overlay timer gets its turn among
  the images. The last is strong fairness, since an image that is being stored
  disables it again and again: rclpy's executor takes timers and subscriptions
  in turn. Nothing is assumed of images, jobs and restarts, and a process that
  an exception ended need not come back.
* Live map (`FairSpec`): the publication timer goes on. Nothing obliges images to
  come: forgetting rests on the timer alone.

All others are weak fairness: a ready callback stays ready until it runs.


## 5. Proofs

The theorems hold for every value of the constants that satisfies the named
assumptions of the modules (`CoordinatorConstants`, `GoalAssignmentConstants`,
`NodesConstants`, `RefinerJobsConstants` and so on), which TLC also evaluates on the
values of the runs. `tlapm <Module>.tla` checks each module.

Induction over data. The library's induction theorems take an operator, which the
provers cannot instantiate; what is needed is proved over sets instead. A lemma
`Induction` (a set of naturals that has 0 and with n also n + 1 has all of them)
follows from `WFMin`, since `<` is well-founded. With it a recursive function is
shown to exist (by the domains it exists up to: `AtLoop`, `LoopIsDefined`,
`SumsExist`, `FoldKeeps`) and what it computes is shown step by step (`LoopKeeps`).
This covers the loops over sequences, the sums and folds over finite sets and the
flood fill.

**`CoordinatorProofs`**: `IInv == TypeOK /\ NavConsistent /\ HandleIsUsable /\ Quiet` with
`Quiet == DisarmedIsQuiet /\ (PromptAnswers => ModeMatchesPermission /\ TimersMatchMode)`.
`HandleIsUsable` needs `NavConsistent`, since acceptance is delivered after the
server's step; what each operation on a goal does to both is a lemma, here and in
`GoalAssignmentProofs`. `ModeMatchesPermission` is not inductive alone: a resume timer that
is live in another mode than an outcome would begin exploring under a command, and
an unanswered request in a sweep would end the mode and not the timer;
`TimersMatchMode` excludes both, the second by `PromptAnswers`. The refinement of
`ModePolicy` follows step by step from the same invariant.

**`GoalAssignmentProofs`**: `IInv` adds to the types and to `NavConsistent` and
`HandleIsUsable` that an outcome finds a place to be recorded at (`CurrentIsKnown`), `DisabledIsIdle` and
`NavigatingIsAnswerable`. `BestFrontierIsNearest` proves that `selectBestFrontier`
returns an acceptable frontier whenever there is one, and that none is nearer; the
minimum exists since `<` is well-founded on the naturals.

The same module proves the properties of `ExplorationHistory`, of every behaviour:
permissions change, goals expire and Nav2 answers late at any time. `HInv` adds to `IInv`
what holds while neither cause has occurred (`OnTrack`): at most one goal has no outcome
yet (`OneOutstanding`); it was sent to the current place (`HeadedForCurrent`); what was
accepted is held or cancelled, and an idle node that may send has no request on its
way (`NothingForgotten`); and the current place has room for another visit
(`RoomForVisit`): `ArrivalsAreSpaced` is not inductive without it, since the filter
counts when a goal is chosen and the visit is added when it is reached. The node's
history ends with the arrivals, however it was truncated (`ArrivalsAreVisits`). When all goals are free
the invariant starts anew, since nothing is outstanding (`FreeIsOnTrack`). Theorems:
`OneGoalIsSentAtATime`, `NoPlaceIsVisitedTooOften`, `OutcomesAreRecordedAtTheirGoal`.

**`SemanticNavSystemProofs`**: `Inv` joins three facts, one for each part: the
permission given last is the last on its way or has arrived
(`TopicCarriesPermission`), the coordinator's mode, permission and timers agree
(`CoordinatorAgrees`), a disabled goal assignment is idle. No part of the invariant is
about both nodes: what they agree on, they agree on through the topic.

**`RefinerJobsProofs`**: `Inv` says of the jobs that the one in work is the current one
(`WorksOnCurrent`), that the jobs of this run follow those of earlier runs
(`RunsApart`), that what the overlay timer has read were judged jobs
(`SeenAreJudged`), that a cleanup under way spares the latest accepted job
(`LatestIsSpared`), and that the job shown is
accepted and the timer, having read the records, has seen one as new (`ShownStands`). The last
two carry the refinement of `OverlayPolicy`: the timer chooses from records it read
earlier, while a job may end and a cleanup remove others. That it cannot go back to
an older job rests on the latest accepted one being neither removed nor missed.

`PairsAreAlwaysHonest` and `RefinerIsTyped` rest on what the bundle on disk is
(`BundleInv`, `CopyInv`). The manifest may name a frame that has no file, but only
in one case: a single entry, in a writer full of that one name, which a repeated index
leaves behind (`EntriesHaveFiles`; "every entry has a file" is false, and TLC shows
the run that makes it so). A manifest that is not being written is the one on disk
(`DiskIsCurrent`), and a copy that nothing disturbed holds that manifest and its
files, so that cameras and entries are paired by position as they were taken unless
the pipeline dropped a frame.

**`FrontierDetectionProofs`**, for maps of every size:
* `ClustersAreAlwaysComponents`. The stages of the flood fill grow inside a finite
  frontier, so after as many stages as there are cells nothing is added (`FloodStages`), and
  what is reached is the least set that holds the cell and its neighbours' cells
  (`FloodIsLeast`). Hence two floods touch or are one (`FloodsTouchOrAreOne`).
* `CentroidsAreAlwaysInBox`. A sum over n cells lies between n times the least and n
  times the greatest summand (`SumsAreBounded`, by the number of cells).
* `PublishedAreAlwaysSafe`, for costmaps of percentages and -1 and a threshold below 255
  (`CostsArePercentages`). An unknown cell is the byte 255 (`UnknownIsByte255`) and is rejected
  for that reason only: with a threshold of 255, or with a value of -128 read as
  128, the theorem is false.

**`LandmarkMemoryProofs`**. `IInv` types registry and memory (a candidate that was seen again
has not been seen often enough) and bounds every id by the counter of its label, from which
`IdsAreNeverReused` follows. What one observation preserves, a message preserves (`FoldKeeps`).
`RecordOutcomes` gives the four outcomes of an observation; that the entry found is one of
those that match rests on a least fraction, as distances are compared by cross
multiplication (`FirstFraction`). `LandmarksStayApart` is about every map. Where the search finds an obstacle at several
places, means move among them; the property asks only that those places form islands by
the node's distances (`IslandsLieApart`: what is near by one is near by each, and
near is transitive). The invariant `Settled` says that the mean of every entry lies
between two found places of one island (`InIsland`), and that no two landmarks that rival are of
one island. A place that an entry is near to is then on its island
(`NearIsOnIsland`), so that the mean stays there when it is added (`StaysOnIsland`) and
the checks see every rival of the island that is there when a landmark is made; means
of two islands stay apart (`MeansApart`). Where places form no islands, a
mean can wander along a chain of them, and landmarks may meet.

**`SemanticMapProofs`**, the live map:
* `RegistryIsSound`, with the invariant `TypeInv`. That entities have ids of their
  own (`DistinctIds`) is not inductive without the counters: `Registries` adds that an id
  has the name of its entity's label and lies below the counter of that name
  (`Given`). It is shown of one box (`UpdateExistingKeeps`, `CreateNewKeeps`), of an image
  of any number (`RememberedAll`) and of the removal (`AtKeeps`). Removal forgets ids
  and never counters, hence `IdsAreNeverGivenTwice`, proved of the action property
  `IdsAreNeverReused`: no counter falls, and an id that was not there before is one the
  counter had not reached (`Grown`).
* `RaysAlwaysMatchBearings`. Rounding to the nearest integer, ties to the even one, is
  nearest (`RoundedRatioIsNearest`), and so is the residual over all revolutions
  (`ResidualIsNearest`): this is where `RaysWithinReach` is needed, as the code tries five.
  Any ray but the one an index is rounded to lies half a step away at least, so that the
  nearest of the candidates is the nearest of the scan (`NearestRayIsRead`).
* `RefinementAlwaysStandsOnLive`, of every list of live entities with distinct ids
  (`LiveEntitiesAreDistinct`) and every refined state. A live id stands for one refined id
  (`Taken`), since a match is looked for among the unclaimed: thus the two ends of an
  added relation differ when those of the refined one do (`RefinedStatesAreSound`). The
  clusters that become places have members, all of them live (`ClusterIsLive`); an
  anchor is added where none of its target is near (`AddedAnchorsLieApart`).
* `PublishedIdsAreAlwaysUnique`: the message has one entity per id. Both this property
  and `IdsAreNeverReused` are stated beside their proofs; no run lists them.

**`SemanticMapProofs`**, the query: `ApproachLiesBetween` is the arithmetic of the approach
pose for integers of any size; the invariant types the robot, the last map and the
queued answers, and `GoalsAlwaysLieBetween` is proved of every step.
`AnswersAreAlwaysBest` is proved for every map whose objects have ids of their own
(`IdsAreUnique`): a best candidate exists since confidences and distances of finitely many
objects have a greatest and a least (`GreatestValue`, `TargetIsBest`, `PairIsBest`).

**`StartupProofs`**: `WarmupInv` bounds the heading in every phase by the least and the most
that the turns so far may have added (the tick that ends a turn may be late, and so may
the one that begins it), and says that the completion is announced once. `CheckerInv` relates the time a topic has been
quiet to the reports failed in a row (`QuietFails`, `FailuresTakeTime`, `DownForGood`).

Model-checked only: all liveness (`QueriesEnd`, `OutcomesResume`, `HeldGoalEnds`,
`GoalsEnd`, `ExplorationIsGivenBack`, `JobsEnd`, `AcceptedIsShown`,
`UnseenIsForgotten`). It needs `ENABLED`, which the prover does not handle. Every
invariant and every other action property of a run is also a theorem.

## 6. Not modelled

* Arithmetic on doubles in the plane: orientations, quaternions, smoothing
  factors, the alignment of a reconstruction with the map and its scores. Where
  the models need a position they take a point of a line and the code's tests of
  distance.
* `int()` at the lower borders of a map (`semantic_map_memory_node.py`), which takes a
  point just outside for row or column 0: positions of the model lie in the map.
* The detector's network, the vendored reconstruction (whose selection of frames is in
  `RefinerJobs`), the localizer's node (one stateless callback), the simulator and its
  scene, the smallcar demo, and the nodes that only show or count (markers,
  runtime debug, preflight).
* Crashes of nodes other than the refiner. Nothing of theirs is persisted: a restarted
  node begins with `Init`.
* Lost messages: the topics between the modelled nodes are reliable. A query node
  that is not running leaves the coordinator in SEMANTIC_QUERYING for ever, since it
  keeps no timeout for a query; `QueriesEnd` assumes that it runs.
* In the refiner: a subprocess that outlives its process after a restart, and an image
  that `cv2.imwrite` refuses by returning FALSE. Loading of YAML and parameters,
  everywhere.
* Markers, logs and the wording of messages.

## 7. Plan

The order was: the coordinator with Nav2, goal assignment, their composition; frontier
detection and the memories; the refiner, which has two threads and a directory tree; the live map;
the query and the adapter; start-up. All of these are done, with the abstract
specifications `ModePolicy` and `OverlayPolicy`. What could follow, in this order:

1. The live map and the query in one module, to follow a refined state from its job to
   the goal that is driven to.
2. Positions in the plane in place of a line, for the registries and landmarks.
