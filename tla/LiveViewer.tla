----------------------------- MODULE LiveViewer -----------------------------
(***************************************************************************)
(* The live viewer (src/live_viewer.cpp, src/trajectory_view.cpp).  The    *)
(* dispatcher thread publishes estimator states and the capture thread     *)
(* stereo frames, each under the viewer's mutex; the main thread polls: it *)
(* copies what was published under the mutex, draws the copy, and lets     *)
(* HighGUI deliver mouse and keyboard input in waitKey, while the others   *)
(* go on publishing.  Replay does all of it on one thread, in orders that  *)
(* are among these.                                                        *)
(*                                                                         *)
(* Space is a line with whole positions, and the screen one with whole     *)
(* pixels counted from the centre of the viewport, whose size stays the    *)
(* same.  A length beyond MaxFinite stands for one that overflows to       *)
(* infinity.  The zoom is counted in halves and doubles with a turn of the *)
(* wheel, so that pixels stay whole where the cursor stands on multiples   *)
(* of sixteen.  The elevation goes like the yaw, and grid, labels and      *)
(* colours are wording.                                                    *)
(***************************************************************************)
EXTENDS Integers, Sequences, FiniteSetsExt, SequencesExt

CONSTANTS
  Nothing,      \* an empty std::optional
  Positions,    \* where a state may be
  MaxFinite,    \* the longest length that is finite
  MaxPoints,    \* options_.maximum_trajectory_points
  Cursors,      \* where the mouse may be
  MaxPublish,   \* bound: states published
  MaxInputs     \* bound: mouse events

ASSUME ViewerAssumption ==
  /\ Positions \subseteq Int /\ Nothing \notin Positions /\ MaxFinite \in Nat
  /\ MaxPoints \in Nat \ {0, 1}           \* the constructor refuses less than 2
  /\ \A x \in Cursors : x \in Int /\ x % 16 = 0

VARIABLES
  latestStereo,     \* latest_stereo_: "malformed", or "fine" when it can be drawn or is absent
  latestState,      \* latest_state_
  first, previous,  \* first_position_, previous_position_
  trajectory,       \* trajectory_
  total,            \* total_path_length_m_
  refused,          \* publish_state has thrown, which ends its thread
  published,        \* history: the states published
  windows, open,    \* the windows that exist, open_
  frame, framed,    \* view_frame_: [focus, span], and view_frame_initialized_
  fitRequested,     \* fit_requested_
  zoom, pan, yaw,   \* view_controller_
  drag, lastMouse,  \* drag_mode_, last_mouse_x_
  pc,               \* the main thread: "start", "idle", "draw", "input", "ending", "done"
  copy,             \* what poll copied under the mutex
  shown,            \* the trajectory window: [track, view], Nothing before
  touched, inputs   \* history: mouse or keyboard used since it was drawn; a count

data       == << latestState, first, previous, trajectory, total, refused, published >>
controller == << zoom, pan, yaw >>
hand       == << drag, lastMouse >>
desktop    == << windows, open >>
picture    == << frame, framed, fitRequested >>
vars == << latestStereo, data, desktop, picture, controller, hand, pc,
           copy, shown, touched, inputs >>

View == [frame |-> frame, zoom |-> zoom, pan |-> pan, yaw |-> yaw]

Init ==
  /\ latestStereo = "fine" /\ latestState = Nothing
  /\ first = Nothing /\ previous = Nothing /\ trajectory = << >> /\ total = 0
  /\ refused = FALSE /\ published = << >>
  /\ windows = {} /\ open = FALSE
  /\ frame = [focus |-> 0, span |-> 1] /\ framed = FALSE /\ fitRequested = FALSE
  /\ zoom = 2 /\ pan = 0 /\ yaw = 0
  /\ drag = "none" /\ lastMouse = 0
  /\ pc = "start" /\ copy = Nothing /\ shown = Nothing
  /\ touched = FALSE /\ inputs = 0

-----------------------------------------------------------------------------
(* Publishing. *)

Publishing == pc \notin {"start", "done"}

PublishStereo ==
  /\ Publishing
  /\ latestStereo' \in {"fine", "malformed"}
  /\ UNCHANGED << data, desktop, picture, controller, hand, pc, copy,
                  shown, touched, inputs >>

Distance(p, q) == IF p < q THEN q - p ELSE p - q

Finite(length) == length <= MaxFinite

\* The newest MaxPoints points.
Bounded(points) ==
  SubSeq(points, Max({1, Len(points) - MaxPoints + 1}), Len(points))

\* Poses that are not healthy do not define the origin.
Anchor(state) ==
  /\ first = Nothing
  /\ \/ ~state.healthy /\ UNCHANGED << first, previous, trajectory >>
     \/ /\ state.healthy
        /\ first' = state.position
        /\ previous' = state.position
        /\ trajectory' = Append(trajectory, state.position)
  /\ UNCHANGED << total, refused >>

\* Definitions marked "Faulty" are plausible slips in the code that only the
\* mutation runs use.

\* Faulty: the length of what is left of the trajectory after the oldest
\* points were dropped, rather than of all that was travelled.
FollowLength(points, step) ==
  IF Len(points) < MaxPoints THEN total + step
  ELSE total + step - Distance(points[1], points[2])

PathLength(points, step) == total + step

Follow(state) ==
  LET step == Distance(previous, state.position) IN
  /\ first # Nothing
  /\ \/ /\ Finite(step) /\ Finite(total + step)
        /\ total' = PathLength(trajectory, step)
        /\ previous' = state.position
        /\ trajectory' = Bounded(Append(trajectory, state.position))
        /\ UNCHANGED refused
     \/ /\ ~(Finite(step) /\ Finite(total + step))
        /\ refused' = TRUE
        /\ UNCHANGED << total, previous, trajectory >>
  /\ UNCHANGED first

PublishState ==
  /\ Publishing /\ ~refused /\ Len(published) < MaxPublish
  /\ \E state \in [position : Positions, healthy : BOOLEAN] :
       /\ latestState' = state
       /\ published' = Append(published, state)
       /\ Anchor(state) \/ Follow(state)
  /\ UNCHANGED << latestStereo, desktop, picture, controller, hand, pc,
                  copy, shown, touched, inputs >>

-----------------------------------------------------------------------------
(* Opening and closing. *)

Windows == {"stereo", "trajectory"}

\* close(): nothing happens to a viewer that is not open.
Left(isOpen, present) == IF isOpen THEN {} ELSE present

\* Faulty: the viewer counts as open when all has been set up.
MarkedLast(present) == present = Windows

\* The viewer counts as open from the first window on, so that close() destroys
\* it when a later call throws.
Marked(present) == present # {}

Open ==
  /\ pc = "start"
  /\ \/ windows' = Windows /\ open' = Marked(Windows) /\ pc' = "idle"
     \/ /\ \E present \in {{}, {"stereo"}, Windows} :
             windows' = Left(Marked(present), present)
        /\ pc' = "done" /\ UNCHANGED open
  /\ UNCHANGED << latestStereo, data, picture, controller, hand, copy,
                  shown, touched, inputs >>

\* The application stops polling after poll() returned false, or for a reason of
\* its own between two polls.
Close ==
  /\ pc \in {"idle", "ending"}
  /\ windows' = Left(open, windows) /\ open' = FALSE
  /\ drag' = "none" /\ pc' = "done"
  /\ UNCHANGED << latestStereo, data, picture, controller, lastMouse,
                  copy, shown, touched, inputs >>

-----------------------------------------------------------------------------
(* poll(). *)

Copied ==
  [stereo |-> latestStereo, state |-> latestState, first |-> first, total |-> total,
   trajectory |-> trajectory]

Copy ==
  /\ pc = "idle" /\ open
  /\ copy' = Copied
  /\ pc' = "draw"
  /\ UNCHANGED << latestStereo, data, desktop, picture, controller, hand,
                  shown, touched, inputs >>

\* fit() of the frame: the middle, doubled, and the span with its minimum.
Fitted(points) ==
  LET low == Min(Range(points))
      high == Max(Range(points))
  IN [focus |-> low + high, span |-> Max({1, high - low})]

\* What the window says of the track.
Track(c) == [state |-> c.state, first |-> c.first, total |-> c.total,
             trajectory |-> c.trajectory]

\* Faulty: centre and scale follow every new state.
FitAlways == TRUE

FitWanted == ~framed \/ fitRequested

Fit ==
  \/ /\ FitWanted
     /\ frame' = Fitted(copy.trajectory) /\ framed' = TRUE
     /\ zoom' = 2 /\ pan' = 0 /\ fitRequested' = FALSE
  \/ ~FitWanted /\ UNCHANGED << picture, zoom, pan >>

\* Nothing else in a copy can be infinite: the extent of the trajectory is at
\* most the length of the path.
Displaced(c) == Distance(c.first, c.state.position)

\* OpenCV may throw from any drawing call, before the fit or after it, and does so
\* for a malformed image: nothing is shown then and the polling ends.
Draw ==
  /\ pc = "draw"
  /\ copy' = Nothing
  /\ UNCHANGED << latestStereo, data, desktop, yaw, hand, inputs >>
  /\ \/ /\ pc' = "ending"
        /\ UNCHANGED << picture, zoom, pan, shown, touched >>
     \/ /\ copy.stereo # "malformed" /\ copy.trajectory = << >>
        /\ pc' = "input"
        /\ UNCHANGED << picture, zoom, pan, shown, touched >>
     \/ /\ copy.stereo # "malformed" /\ copy.trajectory # << >>
        /\ Fit
        /\ \/ /\ Finite(Displaced(copy))
              /\ shown' = [track |-> Track(copy), view |-> View']
              /\ touched' = FALSE /\ pc' = "input"
           \/ pc' = "ending" /\ UNCHANGED << shown, touched >>

\* waitKey calls handle_mouse() for the events that came.
Mouse ==
  /\ pc = "input" /\ inputs < MaxInputs
  /\ inputs' = inputs + 1 /\ touched' = TRUE
  /\ UNCHANGED << latestStereo, data, desktop, frame, framed, pc, copy, shown >>

Press(mode, x) ==
  /\ Mouse
  /\ drag' = mode /\ lastMouse' = x
  /\ UNCHANGED << fitRequested, controller >>

Release ==
  /\ Mouse /\ drag # "none"
  /\ drag' = "none"
  /\ UNCHANGED << fitRequested, controller, lastMouse >>

\* The yaw wraps at a full turn.
FullTurn == 64

Move(x) ==
  /\ Mouse /\ drag # "none"
  /\ \/ drag = "orbit" /\ yaw' = (yaw + x - lastMouse) % FullTurn /\ UNCHANGED << zoom, pan >>
     \/ drag = "pan" /\ pan' = pan + x - lastMouse /\ UNCHANGED << zoom, yaw >>
  /\ lastMouse' = x
  /\ UNCHANGED << fitRequested, drag >>

\* The zoom after a turn of the wheel, within its bounds.
Clamped(requested) == Max({1, Min({requested, 4})})

\* Faulty: the picture is shifted for a zoom that is then cut to its bounds.
ShiftUnclamped(x, requested) == x - (requested * (x - pan)) \div zoom

Shift(x, requested) == x - (Clamped(requested) * (x - pan)) \div zoom

Wheel(x) ==
  /\ Mouse
  /\ \E requested \in {2 * zoom, zoom \div 2} :
       /\ zoom' = Clamped(requested)
       /\ pan' = Shift(x, requested)
  /\ UNCHANGED << fitRequested, yaw, hand >>

ResetController == zoom' = 2 /\ pan' = 0 /\ yaw' = 0

DoubleClick ==
  /\ Mouse
  /\ ResetController
  /\ fitRequested' = TRUE
  /\ drag' = "none" /\ UNCHANGED lastMouse

\* What waitKey returns, and whether both windows are still visible.
Return ==
  /\ pc = "input"
  /\ pc' \in {"idle", "ending"}
  /\ \/ UNCHANGED << fitRequested, controller, touched >>      \* no key, or q
     \/ fitRequested' = TRUE /\ touched' = TRUE /\ UNCHANGED controller      \* f
     \/ fitRequested' = TRUE /\ touched' = TRUE /\ ResetController           \* r, 0
  /\ UNCHANGED << latestStereo, data, desktop, frame, framed, hand, copy, shown, inputs >>

Next ==
  \/ PublishStereo \/ PublishState
  \/ Open \/ Close \/ Copy \/ Draw \/ Return
  \/ \E x \in Cursors : Press("orbit", x) \/ Press("pan", x) \/ Move(x) \/ Wheel(x)
  \/ Release \/ DoubleClick

Spec == Init /\ [][Next]_vars

-----------------------------------------------------------------------------
(* Properties. *)

States == [position : Positions, healthy : BOOLEAN]

\* The variables keep their kinds, the trajectory its bound, and a viewer that
\* is not open has left no window (close() in the catch of open(),
\* live_viewer.cpp:106-120).
TypeOK ==
  /\ latestStereo \in {"fine", "malformed"}
  /\ latestState \in States \cup {Nothing}
  /\ first \in Positions \cup {Nothing} /\ previous \in Positions \cup {Nothing}
  /\ trajectory \in Seq(Positions) /\ Len(trajectory) <= MaxPoints
  /\ total \in 0 .. MaxFinite /\ refused \in BOOLEAN
  /\ windows \subseteq Windows /\ (~open => windows = {})
  /\ framed \in BOOLEAN /\ fitRequested \in BOOLEAN /\ touched \in BOOLEAN
  /\ zoom \in {1, 2, 4} /\ pan \in Int /\ yaw \in 0 .. FullTurn - 1
  /\ drag \in {"none", "orbit", "pan"} /\ lastMouse \in Cursors \cup {0}
  /\ pc \in {"start", "idle", "draw", "input", "ending", "done"}

\* What the states published up to some moment amount to: the first healthy
\* position, the newest positions since, and the way between them all.
Healthy(states) == {i \in DOMAIN states : states[i].healthy}

Poses(states) ==
  IF Healthy(states) = {} THEN << >>
  ELSE LET from == Min(Healthy(states))
       IN [i \in 1 .. Len(states) - from + 1 |-> states[from + i - 1].position]

\* The length of the way through the first i poses.
Way(poses) ==
  LET way[i \in Nat] ==
        IF i <= 1 THEN 0 ELSE way[i - 1] + Distance(poses[i - 1], poses[i])
  IN way

Amounts(states) ==
  LET poses == Poses(states)
  IN [first      |-> IF poses = << >> THEN Nothing ELSE Head(poses),
      total      |-> Way(poses)[Len(poses)],
      trajectory |-> Bounded(poses)]

\* Of what had been published at one moment.  The state that publish_state refuses
\* comes beside the track before it.
OfOneMoment(track) ==
  \E n \in 1 .. Len(published) :
    LET kept == IF refused /\ n = Len(published) THEN n - 1 ELSE n
        then == Amounts(SubSeq(published, 1, kept))
    IN
    /\ track.state = published[n]
    /\ track.first = then.first
    /\ track.total = then.total
    /\ track.trajectory = then.trajectory

\* The trajectory window shows what had been published at one moment: the axes
\* stand at the first healthy pose even when that has left the bounded history,
\* the path length counts all of the way, and pose, displacement and track
\* belong together, however publishing and drawing interleave (publish_state and
\* poll, live_viewer.cpp:129-158 and 217-230).
ShowsOneMoment == shown # Nothing => OfOneMoment(shown.track)

\* The pixel x shows the world point (x - pan) / zoom, in units of the frame.
SamePoint(x, y) == (x - pan) * zoom' = (y - pan') * zoom

\* The picture stays where it is: as long as nobody touches mouse or keyboard,
\* a new picture has the view of the one before, whatever is published; a fit
\* that was asked for keeps the viewing direction; and when the hand drags the
\* picture or turns the wheel, the world point under the pointer stays under it
\* (poll, handle_mouse and TrajectoryViewController).
ViewStaysPut ==
  [][/\ (pc = "draw" /\ ~touched /\ shown # Nothing /\ shown' # shown
           => shown'.view = shown.view)
     /\ (frame' # frame => yaw' = yaw)
     /\ (\A x \in Cursors : Wheel(x) => SamePoint(x, x))
     /\ (\A x \in Cursors : drag = "pan" /\ Move(x) => SamePoint(lastMouse, x))]_vars
=============================================================================
