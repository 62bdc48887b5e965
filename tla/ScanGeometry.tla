---------------------------- MODULE ScanGeometry ----------------------------
(***************************************************************************)
(* localizer_core.py: from the pixel of a detection to a bearing, from the *)
(* bearing to a ray of the laser scan, and from the rays around it to a    *)
(* range.  Angles are whole numbers, Turn of them to a revolution; ranges  *)
(* are whole numbers, and NoReturn stands for every value that is not a    *)
(* finite number.                                                          *)
(***************************************************************************)
EXTENDS Integers, Sequences, FiniteSets

CONSTANTS
  Turn,               \* angles in a revolution
  Fov,                \* camera_hfov_rad
  ImageWidth,         \* width of an image, in pixels
  Window,             \* scan_window_half
  MinRange,           \* min_valid_range
  MaxRange,           \* max_valid_range
  NoReturn            \* the range of a ray that hit nothing

ASSUME ScanGeometryConstants ==
  /\ {Turn, Fov, ImageWidth} \subseteq Nat \ {0}
  /\ {Window, MinRange, MaxRange} \subseteq Nat
  /\ NoReturn \notin Int

(* A scan: the angle of its first ray, the step to the next, the ranges.   *)
IsScan(s) == /\ s.min \in Int /\ s.step \in Nat \ {0}
             /\ s.ranges \in Seq(Nat \cup {NoReturn})

Rays(s) == 0..(Len(s.ranges) - 1)

(* Nearest whole number, halves to the even one.                           *)
RoundedRatio(a, b) ==
  LET q == a \div b
      r == 2 * (a % b)
  IN IF r < b \/ (r = b /\ q % 2 = 0) THEN q ELSE q + 1

(* Pixels to the left of the centre are positive bearings.                 *)
PixelToBearing(u) == ((ImageWidth - 2 * u) * Fov) \div (2 * ImageWidth)

(* The angle between two directions, at most half a revolution.            *)
Residual(a, b) == LET d == (a - b) % Turn IN IF d > Turn - d THEN Turn - d ELSE d

RayAngle(s, i) == s.min + i * s.step

CandidatesOfOneTurn(s, bearing) ==                                \* mutant
  {RoundedRatio(bearing - s.min, s.step)} \cap Rays(s)

(* The rays that equal bearings of neighbouring revolutions round to.      *)
RayCandidates(s, bearing) ==
  {RoundedRatio(bearing - s.min + revolution * Turn, s.step) :
     revolution \in -2..2} \cap Rays(s)

NearestOf(s, bearing, rays) ==
  CHOOSE i \in rays :
    \A j \in rays : LET di == Residual(RayAngle(s, i), bearing)
                        dj == Residual(RayAngle(s, j), bearing)
                    IN di < dj \/ (di = dj /\ i <= j)

(* The set of the ray that is used; empty if there is none.                *)
BearingToRay(s, bearing) ==
  LET rays == RayCandidates(s, bearing)
  IN {i \in rays : i = NearestOf(s, bearing, rays)
                   /\ Residual(RayAngle(s, i), bearing) <= s.step}

AbsoluteOf(n) == IF n < 0 THEN -n ELSE n

FullCircle(s) == 2 * AbsoluteOf(s.step * Len(s.ranges) - Turn) <= 3 * s.step

(* The offsets of the window, on a full scan across its seam.              *)
ValidOffsets(s, i) ==
  LET n == Len(s.ranges)
      At(k) == s.ranges[(k % n) + 1]
  IN {k \in (i - Window)..(i + Window) :
        /\ FullCircle(s) \/ k \in Rays(s)
        /\ At(k) # NoReturn /\ At(k) \in MinRange..MaxRange}

(* The upper median of the valid ranges in the window.                     *)
RobustRange(s, i) ==
  LET offsets == ValidOffsets(s, i)
      n == Len(s.ranges)
      At(k) == s.ranges[(k % n) + 1]
      Below(r) == Cardinality({k \in offsets : At(k) < r})
      UpTo(r) == Cardinality({k \in offsets : At(k) <= r})
      middle == Cardinality(offsets) \div 2
  IN {r \in {At(k) : k \in offsets} : Below(r) <= middle /\ middle < UpTo(r)}

(* The range of the detection at pixel u, as a set with at most one member.*)
Localize(s, u) ==
  UNION {RobustRange(s, i) : i \in BearingToRay(s, PixelToBearing(u))}
=============================================================================
