-------------------------- MODULE LiveViewerProofs --------------------------
(***************************************************************************)
(* The viewer, for any number of states, positions and mouse events, and   *)
(* for a trajectory of any length.  Part 1: the picture stays where it is. *)
(* Part 2: it is of one moment.                                            *)
(***************************************************************************)
EXTENDS LiveViewer, SequenceTheorems, WellFoundedInduction, TLAPS

\* What has been published.
Data ==
  /\ latestStereo \in {"fine", "malformed"}
  /\ latestState \in States \cup {Nothing}
  /\ first \in Positions \cup {Nothing} /\ previous \in Positions \cup {Nothing}
  /\ trajectory \in Seq(Positions) /\ Len(trajectory) <= MaxPoints
  /\ total \in 0 .. MaxFinite /\ refused \in BOOLEAN
  /\ first = Nothing => trajectory = << >>
  /\ first # Nothing => previous \in Positions

\* The windows.
Desk ==
  /\ windows \subseteq Windows /\ open \in BOOLEAN
  /\ ~open => windows = {}
  /\ pc \in {"start", "idle", "draw", "input", "ending", "done"}
  /\ pc = "start" => ~open

\* The view moves by whole steps of the grid the zoom leaves to the cursors.
OnGrid(z, p) ==
  (z = 1 /\ p % 4 = 0) \/ (z = 2 /\ p % 8 = 0) \/ (z = 4 /\ p % 16 = 0)

Controls ==
  /\ zoom \in {1, 2, 4} /\ pan \in Int /\ yaw \in 0 .. FullTurn - 1
  /\ OnGrid(zoom, pan)
  /\ drag \in {"none", "orbit", "pan"}
  /\ lastMouse \in Cursors \cup {0}
  /\ framed \in BOOLEAN /\ fitRequested \in BOOLEAN /\ touched \in BOOLEAN

\* Untouched, the picture shown is the one that would be drawn now.
Settled ==
  shown # Nothing /\ ~touched => framed /\ ~fitRequested /\ shown.view = View

IInv == Data /\ Desk /\ Controls /\ Settled

LEMMA TypesFromIInv == IInv => TypeOK
BY DEF IInv, Data, Desk, Controls, TypeOK

LEMMA InitIInv == Init => IInv
<1>. SUFFICES ASSUME Init PROVE IInv
  OBVIOUS
<1>1. Data
  <2>1. << >> \in Seq(Positions) /\ Len(<< >>) = 0
    BY EmptySeq
  <2>2. 0 \in 0 .. MaxFinite /\ 0 <= MaxPoints
    BY ViewerAssumption
  <2>3. /\ latestStereo = "fine" /\ latestState = Nothing /\ first = Nothing
        /\ previous = Nothing /\ trajectory = << >> /\ total = 0 /\ refused = FALSE
    BY DEF Init
  <2>. QED BY <2>1, <2>2, <2>3 DEF Data
<1>2. Desk
  BY DEF Init, Desk
<1>3. Controls
  <2>1. OnGrid(2, 0) /\ 0 \in 0 .. FullTurn - 1
    BY DEF OnGrid, FullTurn
  <2>2. /\ zoom = 2 /\ pan = 0 /\ yaw = 0 /\ drag = "none" /\ lastMouse = 0
        /\ framed = FALSE /\ fitRequested = FALSE /\ touched = FALSE
    BY DEF Init
  <2>3. OnGrid(zoom, pan) /\ yaw \in 0 .. FullTurn - 1
    BY <2>1, <2>2, Zenon
  <2>4. zoom \in {1, 2, 4} /\ pan \in Int
    BY <2>2
  <2>. QED BY <2>2, <2>3, <2>4 DEF Controls
<1>4. Settled
  BY DEF Init, Settled
<1>. QED BY <1>1, <1>2, <1>3, <1>4 DEF IInv

-----------------------------------------------------------------------------
(* The helpers. *)

LEMMA MaxOfTwo ==
  ASSUME NEW a \in Int, NEW b \in Int
  PROVE  Max({a, b}) = IF a >= b THEN a ELSE b
BY DEF Max

LEMMA MinOfTwo ==
  ASSUME NEW a \in Int, NEW b \in Int
  PROVE  Min({a, b}) = IF a <= b THEN a ELSE b
BY DEF Min

LEMMA BoundedKeeps ==
  ASSUME NEW s \in Seq(Positions), s # << >>
  PROVE  Bounded(s) \in Seq(Positions) /\ Len(Bounded(s)) <= MaxPoints
<1>. DEFINE n == Len(s)
            m == IF n <= MaxPoints THEN 1 ELSE n - MaxPoints + 1
<1>0. n \in Nat /\ n # 0
  BY EmptySeq, LenProperties
<1>1. n \in Nat \ {0} /\ MaxPoints \in Nat \ {0, 1}
  BY <1>0, ViewerAssumption
<1>2. Max({1, n - MaxPoints + 1}) = m
  BY <1>1, MaxOfTwo
<1>3. m \in 1 .. n /\ n - m + 1 <= MaxPoints /\ m <= n + 1
  BY <1>1
<1>4. Bounded(s) = SubSeq(s, m, n)
  BY <1>2 DEF Bounded
<1>5. SubSeq(s, m, n) \in Seq(Positions) /\ Len(SubSeq(s, m, n)) = n - m + 1
  <2>1. m \in 1 .. Len(s) + 1 /\ n \in m - 1 .. Len(s)
    BY <1>1, <1>3
  <2>2. m <= n
    BY <1>3
  <2>. HIDE DEF m, n
  <2>. QED BY <2>1, <2>2, SubSeqProperties
<1>. QED BY <1>3, <1>4, <1>5

LEMMA ClampedIs ==
  ASSUME NEW r \in Int
  PROVE  Clamped(r) = IF r <= 1 THEN 1 ELSE IF r <= 4 THEN r ELSE 4
<1>1. Min({r, 4}) = IF r <= 4 THEN r ELSE 4
  BY MinOfTwo
<1>2. Min({r, 4}) \in Int
  BY <1>1
<1>3. Max({1, Min({r, 4})}) = IF 1 >= Min({r, 4}) THEN 1 ELSE Min({r, 4})
  BY <1>2, MaxOfTwo
<1>. QED BY <1>1, <1>3 DEF Clamped

-----------------------------------------------------------------------------
(* Publishing. *)

LEMMA AnchorKeepsData ==
  ASSUME Data, NEW state \in States, latestState' = state, Anchor(state),
         latestStereo' = latestStereo
  PROVE  Data'
<1>1. CASE UNCHANGED << first, previous, trajectory >>
  BY <1>1 DEF Data, Anchor
<1>2. CASE /\ first' = state.position /\ previous' = state.position
           /\ trajectory' = Append(trajectory, state.position)
  <2>1. state.position \in Positions /\ state.position # Nothing
    BY ViewerAssumption DEF States
  <2>2. trajectory = << >> /\ total' = total /\ refused' = refused
    BY DEF Data, Anchor
  <2>3. trajectory' \in Seq(Positions) /\ Len(trajectory') = 1
    BY <1>2, <2>1, <2>2, AppendProperties, EmptySeq
  <2>4. 1 <= MaxPoints
    BY ViewerAssumption
  <2>. QED BY <1>2, <2>1, <2>2, <2>3, <2>4 DEF Data
<1>. QED BY <1>1, <1>2 DEF Anchor

LEMMA FollowKeepsData ==
  ASSUME Data, NEW state \in States, latestState' = state, Follow(state),
         latestStereo' = latestStereo
  PROVE  Data'
<1>. DEFINE way == Distance(previous, state.position)
<1>1. first # Nothing /\ first' = first /\ previous \in Positions
      /\ state.position \in Positions
  BY DEF Data, Follow, States
<1>2. CASE UNCHANGED << total, previous, trajectory >> /\ refused' = TRUE
  BY <1>1, <1>2 DEF Data
<1>3. CASE /\ Finite(way) /\ Finite(total + way)
           /\ total' = PathLength(trajectory, way)
           /\ previous' = state.position
           /\ trajectory' = Bounded(Append(trajectory, state.position))
           /\ refused' = refused
  <2>1. previous \in Int /\ state.position \in Int /\ MaxFinite \in Nat
    BY <1>1, ViewerAssumption
  <2>2. way \in Nat
    BY <2>1 DEF Distance
  <2>3. total \in 0 .. MaxFinite
    BY DEF Data
  <2>4. total' \in 0 .. MaxFinite
    BY <1>3, <2>1, <2>2, <2>3 DEF Finite, PathLength
  <2>5. /\ Append(trajectory, state.position) \in Seq(Positions)
        /\ Append(trajectory, state.position) # << >>
    BY <1>1, AppendProperties, EmptySeq DEF Data
  <2>6. trajectory' \in Seq(Positions) /\ Len(trajectory') <= MaxPoints
    BY <1>3, <2>5, BoundedKeeps
  <2>. QED BY <1>1, <1>3, <2>4, <2>6 DEF Data
<1>. QED BY <1>2, <1>3 DEF Follow

LEMMA PublishingKeeps == ASSUME IInv, PublishStereo \/ PublishState PROVE IInv'
<1>1. CASE PublishStereo
  <2>1. latestStereo' \in {"fine", "malformed"} /\ UNCHANGED data
    BY <1>1 DEF PublishStereo
  <2>2. UNCHANGED << desktop, picture, controller, hand, pc, shown, touched >>
    BY <1>1 DEF PublishStereo
  <2>3. Data'
    BY <2>1 DEF IInv, Data, data
  <2>. QED BY <2>2, <2>3 DEF IInv, Desk, Controls, Settled, View, desktop,
                             picture, controller, hand
<1>2. CASE PublishState
  <2>1. PICK state \in States :
          latestState' = state /\ (Anchor(state) \/ Follow(state))
    BY <1>2 DEF PublishState, States
  <2>2. UNCHANGED << latestStereo, desktop, picture, controller, hand, pc, shown,
                     touched >>
    BY <1>2 DEF PublishState
  <2>3. Data'
    BY <2>1, <2>2, AnchorKeepsData, FollowKeepsData DEF IInv
  <2>. QED BY <2>2, <2>3 DEF IInv, Desk, Controls, Settled, View, desktop,
                             picture, controller, hand
<1>. QED BY <1>1, <1>2
-----------------------------------------------------------------------------
(* The main thread. *)

LEMMA WindowsKeep == ASSUME IInv, Open \/ Close \/ Copy PROVE IInv'
<1>1. CASE Open
  <2>1. UNCHANGED << latestStereo, data, picture, controller, hand, shown, touched >>
    BY <1>1 DEF Open
  <2>2. pc = "start" /\ ~open /\ windows = {} /\ open \in BOOLEAN
    BY <1>1 DEF IInv, Desk, Open
  <2>3. CASE windows' = Windows /\ open' = Marked(Windows) /\ pc' = "idle"
    <3>1. Marked(Windows) = TRUE
      BY DEF Marked, Windows
    <3>. QED BY <2>1, <2>3, <3>1 DEF IInv, Data, Desk, Controls, Settled, View, data,
                                    picture, controller, hand
  <2>4. CASE /\ \E present \in {{}, {"stereo"}, Windows} :
                  windows' = Left(Marked(present), present)
             /\ pc' = "done" /\ open' = open
    <3>1. windows' = {}
      BY <2>4 DEF Left, Marked
    <3>. QED BY <2>1, <2>2, <2>4, <3>1 DEF IInv, Data, Desk, Controls, Settled, View,
                                           data, picture, controller, hand
  <2>. QED BY <1>1, <2>3, <2>4 DEF Open
<1>2. CASE Close
  <2>1. /\ UNCHANGED << latestStereo, data, picture, controller, lastMouse, shown,
                        touched >>
        /\ windows' = Left(open, windows) /\ open' = FALSE /\ drag' = "none"
        /\ pc' = "done"
    BY <1>2 DEF Close
  <2>2. windows' = {}
    BY <2>1 DEF IInv, Desk, Left
  <2>3. Data' /\ Desk'
    BY <2>1, <2>2 DEF IInv, Data, Desk, data
  <2>4. UNCHANGED << zoom, pan, yaw, frame, framed, fitRequested, lastMouse, touched >>
    BY <2>1 DEF picture, controller
  <2>5. Controls'
    BY <2>1, <2>4 DEF IInv, Controls
  <2>6. Settled'
    BY <2>1, <2>4 DEF IInv, Settled, View
  <2>. QED BY <2>3, <2>5, <2>6 DEF IInv
<1>3. CASE Copy
  BY <1>3 DEF Copy, IInv, Data, Desk, Controls, Settled, View, data, desktop,
              picture, controller, hand
<1>. QED BY <1>1, <1>2, <1>3

\* A fit happens only when nothing has been shown yet or somebody asked for it.
LEMMA FitKeeps ==
  ASSUME Controls, Fit, UNCHANGED << yaw, hand, touched >>
  PROVE  Controls'
<1>1. CASE FitWanted
  <2>1. zoom' = 2 /\ pan' = 0 /\ framed' = TRUE /\ fitRequested' = FALSE
    BY <1>1 DEF Fit
  <2>2. OnGrid(2, 0)
    BY DEF OnGrid
  <2>3. OnGrid(zoom', pan')
    BY <2>1, <2>2, Zenon
  <2>4. zoom' \in {1, 2, 4} /\ pan' \in Int
    BY <2>1
  <2>5. UNCHANGED << yaw, drag, lastMouse, touched >>
    BY DEF hand
  <2>. QED BY <2>1, <2>3, <2>4, <2>5 DEF Controls
<1>2. CASE ~FitWanted
  BY <1>2 DEF Fit, Controls, picture, hand
<1>. QED BY <1>1, <1>2

LEMMA FitSettles ==
  ASSUME Controls, Fit
  PROVE  framed' = TRUE /\ fitRequested' = FALSE
BY DEF Fit, FitWanted, Controls, picture

LEMMA DrawKeeps == ASSUME IInv, Draw PROVE IInv'
<1>1. UNCHANGED << latestStereo, data, desktop, yaw, hand >> /\ pc = "draw"
  BY DEF Draw
<1>2. Data'
  BY <1>1 DEF IInv, Data, data
<1>3. Desk'
  <2>1. pc' \in {"input", "ending"}
    BY DEF Draw
  <2>. QED BY <1>1, <2>1 DEF IInv, Desk, desktop
<1>4. CASE UNCHANGED << picture, zoom, pan, shown, touched >>
  BY <1>1, <1>2, <1>3, <1>4 DEF IInv, Controls, Settled, View, picture, hand
<1>5. CASE Fit /\ shown' = [track |-> Track(copy), view |-> View'] /\ touched' = FALSE
  <2>1. framed' = TRUE /\ fitRequested' = FALSE
    BY <1>5, FitSettles DEF IInv
  <2>2. Controls'
    <3>1. CASE FitWanted
      <4>1. zoom' = 2 /\ pan' = 0
        BY <1>5, <3>1 DEF Fit
      <4>2. OnGrid(2, 0)
        BY DEF OnGrid
      <4>3. OnGrid(zoom', pan')
        BY <4>1, <4>2, Zenon
      <4>4. zoom' \in {1, 2, 4} /\ pan' \in Int
        BY <4>1
      <4>5. UNCHANGED << yaw, drag, lastMouse >> /\ touched' = FALSE
        BY <1>1, <1>5 DEF hand
      <4>. QED BY <2>1, <4>3, <4>4, <4>5 DEF IInv, Controls
    <3>2. CASE ~FitWanted
      BY <1>1, <1>5, <2>1, <3>2 DEF IInv, Fit, Controls, picture, hand
    <3>. QED BY <3>1, <3>2
  <2>3. shown'.view = View'
    BY <1>5
  <2>4. Settled'
    BY <2>1, <2>3 DEF Settled
  <2>. QED BY <1>2, <1>3, <2>2, <2>4 DEF IInv
<1>6. CASE Fit /\ UNCHANGED << shown, touched >>
  <2>1. Controls'
    BY <1>1, <1>6, FitKeeps DEF IInv
  <2>2. Settled'
    <3>1. CASE FitWanted
      BY <1>6, <3>1 DEF IInv, Settled, FitWanted
    <3>2. CASE ~FitWanted
      BY <1>1, <1>6, <3>2 DEF IInv, Fit, Settled, View, picture
    <3>. QED BY <3>1, <3>2
  <2>. QED BY <1>2, <1>3, <2>1, <2>2 DEF IInv
<1>. QED BY <1>4, <1>5, <1>6 DEF Draw

-----------------------------------------------------------------------------
(* Mouse and keyboard. *)

LEMMA MouseKeeps ==
  ASSUME IInv, Mouse, Controls'
  PROVE  IInv'
<1>1. /\ UNCHANGED << latestStereo, data, desktop, pc >>
      /\ touched' = TRUE
  BY DEF Mouse
<1>. QED BY <1>1 DEF IInv, Data, Desk, Settled, data, desktop

LEMMA PressKeeps ==
  ASSUME IInv, NEW x \in Cursors, NEW mode \in {"orbit", "pan"}, Press(mode, x)
  PROVE  IInv'
<1>1. Mouse /\ Controls'
  BY DEF Press, Mouse, IInv, Controls, controller
<1>. QED BY <1>1, MouseKeeps

LEMMA ReleaseKeeps == ASSUME IInv, Release PROVE IInv'
<1>1. Mouse /\ Controls'
  BY DEF Release, Mouse, IInv, Controls, controller
<1>. QED BY <1>1, MouseKeeps

LEMMA DoubleClickKeeps == ASSUME IInv, DoubleClick PROVE IInv'
<1>1. /\ zoom' = 2 /\ pan' = 0 /\ yaw' = 0 /\ fitRequested' = TRUE
      /\ drag' = "none" /\ lastMouse' = lastMouse /\ framed' = framed /\ touched' = TRUE
  BY DEF DoubleClick, ResetController, Mouse
<1>2. OnGrid(2, 0) /\ 0 \in 0 .. FullTurn - 1
  BY DEF OnGrid, FullTurn
<1>3. OnGrid(zoom', pan') /\ yaw' \in 0 .. FullTurn - 1
  BY <1>1, <1>2, Zenon
<1>4. Controls'
  BY <1>1, <1>3 DEF IInv, Controls
<1>. QED BY <1>4, MouseKeeps DEF DoubleClick

LEMMA CursorOnGrid ==
  ASSUME NEW x \in Cursors \cup {0}
  PROVE  x \in Int /\ x % 16 = 0
BY ViewerAssumption

LEMMA MoveKeeps == ASSUME IInv, NEW x \in Cursors, Move(x) PROVE IInv'
<1>1. /\ lastMouse' = x /\ framed' = framed /\ fitRequested' = fitRequested
      /\ drag' = drag /\ touched' = TRUE
  BY DEF Move, Mouse
<1>2. x \in Int /\ x % 16 = 0 /\ lastMouse \in Int /\ lastMouse % 16 = 0
  BY CursorOnGrid DEF IInv, Controls
<1>3. CASE yaw' = (yaw + x - lastMouse) % FullTurn /\ UNCHANGED << zoom, pan >>
  <2>1. yaw' \in 0 .. FullTurn - 1
    BY <1>2, <1>3 DEF IInv, Controls, FullTurn
  <2>2. Controls'
    BY <1>1, <1>3, <2>1 DEF IInv, Controls
  <2>. QED BY <2>2, MouseKeeps DEF Move
<1>4. CASE pan' = pan + x - lastMouse /\ UNCHANGED << zoom, yaw >>
  <2>1. zoom \in {1, 2, 4} /\ pan \in Int /\ OnGrid(zoom, pan)
    BY DEF IInv, Controls
  <2>2. pan' \in Int /\ OnGrid(zoom', pan')
    BY <1>2, <1>4, <2>1 DEF OnGrid
  <2>3. Controls'
    BY <1>1, <1>4, <2>2 DEF IInv, Controls
  <2>. QED BY <2>3, MouseKeeps DEF Move
<1>. QED BY <1>3, <1>4 DEF Move

\* A turn of the wheel keeps the grid and the point under the cursor.
LEMMA WheelMoves ==
  ASSUME IInv, NEW x \in Cursors, Wheel(x)
  PROVE  /\ zoom' \in {1, 2, 4} /\ pan' \in Int /\ OnGrid(zoom', pan')
         /\ (x - pan) * zoom' = (x - pan') * zoom
<1>1. PICK r \in {2 * zoom, zoom \div 2} : zoom' = Clamped(r) /\ pan' = Shift(x, r)
  BY DEF Wheel
<1>2. zoom \in {1, 2, 4} /\ pan \in Int /\ OnGrid(zoom, pan)
  BY DEF IInv, Controls
<1>3. x \in Int /\ x % 16 = 0
  BY CursorOnGrid
<1>4. zoom' = Clamped(r) /\ pan' = x - (Clamped(r) * (x - pan)) \div zoom
  BY <1>1 DEF Shift
<1>5. r \in {2 * zoom, zoom \div 2}
  BY <1>1
<1>6. CASE zoom = 1
  <2>1. r = 2 \/ r = 0
    BY <1>5, <1>6
  <2>2. (r = 2 /\ Clamped(r) = 2) \/ (r = 0 /\ Clamped(r) = 1)
    BY <2>1, ClampedIs
  <2>. QED BY <1>2, <1>3, <1>4, <1>6, <2>2 DEF OnGrid
<1>7. CASE zoom = 2
  <2>1. r = 4 \/ r = 1
    BY <1>5, <1>7
  <2>2. (r = 4 /\ Clamped(r) = 4) \/ (r = 1 /\ Clamped(r) = 1)
    BY <2>1, ClampedIs
  <2>3. pan % 8 = 0
    BY <1>2, <1>7 DEF OnGrid
  <2>4. CASE zoom' = 4
    <3>1. pan' = x - 2 * (x - pan)
      BY <1>2, <1>3, <1>4, <1>7, <2>2, <2>4
    <3>. QED BY <1>2, <1>3, <1>7, <2>3, <2>4, <3>1 DEF OnGrid
  <2>5. CASE zoom' = 1
    <3>1. pan' = x - (x - pan) \div 2
      BY <1>2, <1>3, <1>4, <1>7, <2>2, <2>5
    <3>. QED BY <1>2, <1>3, <1>7, <2>3, <2>5, <3>1 DEF OnGrid
  <2>. QED BY <1>4, <2>2, <2>4, <2>5
<1>8. CASE zoom = 4
  <2>1. r = 8 \/ r = 2
    BY <1>5, <1>8
  <2>2. (r = 8 /\ Clamped(r) = 4) \/ (r = 2 /\ Clamped(r) = 2)
    BY <2>1, ClampedIs
  <2>3. pan % 16 = 0
    BY <1>2, <1>8 DEF OnGrid
  <2>4. CASE zoom' = 4
    <3>1. pan' = pan
      BY <1>2, <1>3, <1>4, <1>8, <2>2, <2>4
    <3>. QED BY <1>2, <1>3, <1>8, <2>3, <2>4, <3>1 DEF OnGrid
  <2>5. CASE zoom' = 2
    <3>1. pan' = x - (2 * (x - pan)) \div 4
      BY <1>2, <1>3, <1>4, <1>8, <2>2, <2>5
    <3>. QED BY <1>2, <1>3, <1>8, <2>3, <2>5, <3>1 DEF OnGrid
  <2>. QED BY <1>4, <2>2, <2>4, <2>5
<1>. QED BY <1>2, <1>6, <1>7, <1>8

LEMMA WheelKeeps == ASSUME IInv, NEW x \in Cursors, Wheel(x) PROVE IInv'
<1>1. zoom' \in {1, 2, 4} /\ pan' \in Int /\ OnGrid(zoom', pan')
  BY WheelMoves
<1>2. /\ Mouse /\ framed' = framed /\ touched' = TRUE
      /\ UNCHANGED << fitRequested, yaw, drag, lastMouse >>
  BY DEF Wheel, Mouse, hand
<1>3. Controls'
  BY <1>1, <1>2 DEF IInv, Controls
<1>. QED BY <1>2, <1>3, MouseKeeps

LEMMA ReturnKeeps == ASSUME IInv, Return PROVE IInv'
<1>1. /\ UNCHANGED << latestStereo, data, desktop, frame, framed, hand, shown >>
      /\ pc' \in {"idle", "ending"}
  BY DEF Return
<1>2. Data' /\ Desk'
  BY <1>1 DEF IInv, Data, Desk, data, desktop
<1>3. CASE UNCHANGED << fitRequested, controller, touched >>
  BY <1>1, <1>2, <1>3 DEF IInv, Controls, Settled, View, controller, hand
<1>4. CASE fitRequested' = TRUE /\ touched' = TRUE /\ UNCHANGED controller
  BY <1>1, <1>2, <1>4 DEF IInv, Controls, Settled, controller, hand
<1>5. CASE fitRequested' = TRUE /\ touched' = TRUE /\ ResetController
  <2>1. zoom' = 2 /\ pan' = 0 /\ yaw' = 0
    BY <1>5 DEF ResetController
  <2>2. OnGrid(2, 0) /\ 0 \in 0 .. FullTurn - 1
    BY DEF OnGrid, FullTurn
  <2>3. OnGrid(zoom', pan') /\ yaw' \in 0 .. FullTurn - 1
    BY <2>1, <2>2, Zenon
  <2>4. Controls' /\ Settled'
    BY <1>1, <1>5, <2>1, <2>3 DEF IInv, Controls, Settled, hand
  <2>. QED BY <1>2, <2>4 DEF IInv
<1>. QED BY <1>3, <1>4, <1>5 DEF Return

-----------------------------------------------------------------------------
(* The theorems. *)

LEMMA NextKeepsIInv == IInv /\ [Next]_vars => IInv'
<1>. SUFFICES ASSUME IInv, [Next]_vars PROVE IInv'
  OBVIOUS
<1>1. ASSUME UNCHANGED vars PROVE IInv'
  BY <1>1 DEF vars, IInv, Data, Desk, Controls, Settled, View, data, desktop,
              picture, controller, hand
<1>2. ASSUME NEW x \in Cursors,
             Press("orbit", x) \/ Press("pan", x) \/ Move(x) \/ Wheel(x)
      PROVE  IInv'
  BY <1>2, PressKeeps, MoveKeeps, WheelKeeps
<1>. QED BY <1>1, <1>2, PublishingKeeps, WindowsKeep, DrawKeeps, ReturnKeeps,
            ReleaseKeeps, DoubleClickKeeps DEF Next

LEMMA IInvHolds == Spec => []IInv
<1>. QED BY InitIInv, NextKeepsIInv, PTL DEF Spec

\* The variables of the viewer keep their kinds, the trajectory its bound and
\* a viewer that is not open has left no window, for a history of any length
\* (LiveViewer::open, close and publish_state).
THEOREM ViewerTypeCorrect == Spec => []TypeOK
<1>. QED BY IInvHolds, TypesFromIInv, PTL

LEMMA MovesKeepThePoint ==
  ASSUME IInv, NEW x \in Cursors, drag = "pan", Move(x)
  PROVE  SamePoint(lastMouse, x)
<1>1. pan' = pan + x - lastMouse /\ zoom' = zoom
  BY DEF Move
<1>2. x \in Int /\ lastMouse \in Int /\ pan \in Int /\ zoom \in {1, 2, 4}
  BY CursorOnGrid DEF IInv, Controls
<1>3. x - pan' = lastMouse - pan
  BY <1>1, <1>2
<1>. QED BY <1>1, <1>3 DEF SamePoint

LEMMA DrawShowsTheSame ==
  ASSUME IInv, Draw, ~touched, shown # Nothing, shown' # shown
  PROVE  shown'.view = shown.view
<1>1. framed /\ ~fitRequested /\ shown.view = View
  BY DEF IInv, Settled
<1>2. Fit /\ shown' = [track |-> Track(copy), view |-> View'] /\ yaw' = yaw
  BY DEF Draw
<1>3. View' = View
  BY <1>1, <1>2 DEF Fit, FitWanted, View, picture
<1>. QED BY <1>1, <1>2, <1>3

\* The frame changes only when a fit draws it.
LEMMA FitsKeepTheDirection ==
  ASSUME Next, frame' # frame
  PROVE  yaw' = yaw
<1>1. ~PublishStereo /\ ~PublishState /\ ~Open /\ ~Close /\ ~Copy /\ ~Return
  BY DEF PublishStereo, PublishState, Open, Close, Copy, Return, picture
<1>2. \A x \in Cursors :
        ~Press("orbit", x) /\ ~Press("pan", x) /\ ~Move(x) /\ ~Wheel(x)
  BY DEF Press, Move, Wheel, Mouse
<1>3. ~Release /\ ~DoubleClick
  BY DEF Release, DoubleClick, Mouse
<1>4. Draw
  BY <1>1, <1>2, <1>3 DEF Next
<1>. QED BY <1>4 DEF Draw

LEMMA OnlyDrawDraws ==
  ASSUME Next, pc = "draw", shown' # shown
  PROVE  Draw
<1>1. ~PublishStereo /\ ~PublishState /\ ~Open /\ ~Close /\ ~Copy /\ ~Return
  BY DEF PublishStereo, PublishState, Open, Close, Copy, Return
<1>2. \A x \in Cursors :
        ~Press("orbit", x) /\ ~Press("pan", x) /\ ~Move(x) /\ ~Wheel(x)
  BY DEF Press, Move, Wheel, Mouse
<1>3. ~Release /\ ~DoubleClick
  BY DEF Release, DoubleClick, Mouse
<1>. QED BY <1>1, <1>2, <1>3 DEF Next

\* Untouched, the picture never moves, whatever is published while it is shown;
\* a fit keeps the direction; and the point under the pointer stays under it
\* when the picture is dragged or zoomed, at the limits of the zoom too (poll,
\* handle_mouse, zoom_at and fit).
THEOREM PictureStaysPut == Spec => ViewStaysPut
<1>1. ASSUME IInv, [Next]_vars
      PROVE  [/\ (pc = "draw" /\ ~touched /\ shown # Nothing /\ shown' # shown
                    => shown'.view = shown.view)
              /\ (frame' # frame => yaw' = yaw)
              /\ (\A x \in Cursors : Wheel(x) => SamePoint(x, x))
              /\ (\A x \in Cursors : drag = "pan" /\ Move(x)
                    => SamePoint(lastMouse, x))]_vars
  <2>1. CASE UNCHANGED vars
    BY <2>1
  <2>2. CASE Next
    <3>1. pc = "draw" /\ ~touched /\ shown # Nothing /\ shown' # shown
            => shown'.view = shown.view
      BY <1>1, <2>2, OnlyDrawDraws, DrawShowsTheSame
    <3>2. frame' # frame => yaw' = yaw
      BY <2>2, FitsKeepTheDirection
    <3>3. ASSUME NEW x \in Cursors, Wheel(x) PROVE SamePoint(x, x)
      BY <1>1, <3>3, WheelMoves DEF SamePoint
    <3>4. ASSUME NEW x \in Cursors, drag = "pan", Move(x)
          PROVE  SamePoint(lastMouse, x)
      BY <1>1, <3>4, MovesKeepThePoint
    <3>. QED BY <3>1, <3>2, <3>3, <3>4
  <2>. QED BY <1>1, <2>1, <2>2
<1>. QED BY <1>1, IInvHolds, PTL DEF Spec, ViewStaysPut

-----------------------------------------------------------------------------
(* Part 2.  Induction on the natural numbers, from the library's theorem that *)
(* a well-founded set has minimal elements.                                   *)

LEMMA SmallestExists ==
  ASSUME NEW T, T \subseteq Nat, T # {}
  PROVE  \E x \in T : \A y \in T : x <= y
<1>. DEFINE R == OpToRel(<, Nat)
<1>1. IsWellFoundedOn(R, Nat)
  BY NatLessThanWellFounded
<1>2. \A x, y \in Nat : y < x => << y, x >> \in R
  BY DEF OpToRel
<1>. HIDE DEF R
<1>3. PICK x \in T : \A y \in T : ~(<< y, x >> \in R)
  BY <1>1, WFMin
<1>4. ASSUME NEW y \in T PROVE x <= y
  <2>1. x \in Nat /\ y \in Nat
    BY <1>3, <1>4
  <2>2. ~(y < x)
    BY <1>2, <1>3, <1>4, <2>1
  <2>. QED BY <2>1, <2>2
<1>. QED BY <1>4

LEMMA Induct ==
  ASSUME NEW T, 0 \in T, \A n \in Nat : n \in T => n + 1 \in T
  PROVE  Nat \subseteq T
<1>. SUFFICES ASSUME Nat \ T # {} PROVE FALSE
  OBVIOUS
<1>1. PICK x \in Nat \ T : \A y \in Nat \ T : x <= y
  BY SmallestExists
<1>2. x # 0
  BY <1>1
<1>3. x - 1 \in Nat /\ x - 1 \notin T
  BY <1>1, <1>2
<1>. QED BY <1>1, <1>3

-----------------------------------------------------------------------------
(* The length of a way. *)

\* What a length does up to n.
AddsUp(f, poses, n) ==
  \A i \in 0 .. n :
    f[i] = IF i <= 1 THEN 0 ELSE f[i - 1] + Distance(poses[i - 1], poses[i])

LEMMA SomeAddsUp == \A poses : \A n \in Nat : \E f : AddsUp(f, poses, n)
<1>. TAKE poses
<1>. DEFINE T == {n \in Nat : \E f : AddsUp(f, poses, n)}
<1>1. 0 \in T
  <2>1. AddsUp([i \in Nat |-> 0], poses, 0)
    BY DEF AddsUp
  <2>. QED BY <2>1
<1>2. ASSUME NEW n \in Nat, n \in T PROVE n + 1 \in T
  <2>1. PICK f : AddsUp(f, poses, n)
    BY <1>2
  <2>. DEFINE step == Distance(poses[n], poses[n + 1])
              g == [i \in Nat |-> IF i # n + 1 THEN f[i]
                                  ELSE IF i <= 1 THEN 0 ELSE f[n] + step]
  <2>2. ASSUME NEW i \in 0 .. n + 1
        PROVE  g[i] = IF i <= 1 THEN 0
                      ELSE g[i - 1] + Distance(poses[i - 1], poses[i])
    <3>1. CASE i = n + 1
      <4>1. i - 1 = n /\ i \in Nat
        BY <3>1
      <4>2. g[i] = IF i <= 1 THEN 0 ELSE f[n] + step
        BY <3>1, <4>1
      <4>3. g[n] = f[n]
        OBVIOUS
      <4>. QED BY <3>1, <4>1, <4>2, <4>3
    <3>2. CASE i # n + 1
      <4>1. i \in 0 .. n /\ i \in Nat
        BY <3>2
      <4>2. g[i] = f[i]
        BY <3>2, <4>1
      <4>3. i > 1 => i - 1 \in Nat /\ i - 1 # n + 1
        BY <4>1
      <4>4. i > 1 => g[i - 1] = f[i - 1]
        BY <4>3
      <4>5. f[i] = IF i <= 1 THEN 0 ELSE f[i - 1] + Distance(poses[i - 1], poses[i])
        BY <2>1, <4>1 DEF AddsUp
      <4>. HIDE DEF g
      <4>. QED BY <4>1, <4>2, <4>4, <4>5
    <3>. QED BY <3>1, <3>2
  <2>. HIDE DEF g
  <2>3. AddsUp(g, poses, n + 1)
    BY <2>2 DEF AddsUp
  <2>. QED BY <2>3
<1>. HIDE DEF T
<1>3. Nat \subseteq T
  BY <1>1, <1>2, Induct
<1>. QED BY <1>3 DEF T

\* Lengths depend on the poses so far, and on nothing else.
LEMMA AddsUpAlike ==
  ASSUME NEW p, NEW q, NEW k \in Nat, \A i \in 1 .. k : p[i] = q[i],
         NEW f, AddsUp(f, p, k), NEW g, AddsUp(g, q, k)
  PROVE  f[k] = g[k]
<1>. DEFINE T == {n \in Nat : n <= k => f[n] = g[n]}
<1>1. 0 \in T
  BY DEF AddsUp
<1>2. ASSUME NEW n \in Nat, n \in T PROVE n + 1 \in T
  <2>. SUFFICES ASSUME n + 1 <= k PROVE f[n + 1] = g[n + 1]
    OBVIOUS
  <2>1. f[n] = g[n]
    BY <1>2
  <2>2. n >= 1 => p[n] = q[n] /\ p[n + 1] = q[n + 1]
    OBVIOUS
  <2>3. n + 1 \in 0 .. k /\ (n + 1 <= 1 <=> n < 1) /\ (n + 1) - 1 = n
    OBVIOUS
  <2>4. /\ f[n + 1] = IF n < 1 THEN 0 ELSE f[n] + Distance(p[n], p[n + 1])
        /\ g[n + 1] = IF n < 1 THEN 0 ELSE g[n] + Distance(q[n], q[n + 1])
    BY <2>3 DEF AddsUp
  <2>. QED BY <2>1, <2>2, <2>4
<1>. HIDE DEF T
<1>3. Nat \subseteq T
  BY <1>1, <1>2, Induct
<1>. QED BY <1>3 DEF T

LEMMA WayAddsUp ==
  ASSUME NEW poses
  PROVE  Way(poses) = [i \in Nat |-> IF i <= 1 THEN 0
                        ELSE Way(poses)[i - 1] + Distance(poses[i - 1], poses[i])]
<1>. DEFINE best(n) == CHOOSE f : AddsUp(f, poses, n)
            w == [n \in Nat |-> best(n)[n]]
<1>1. ASSUME NEW n \in Nat
      PROVE  w[n] = IF n <= 1 THEN 0
                    ELSE w[n - 1] + Distance(poses[n - 1], poses[n])
  <2>1. AddsUp(best(n), poses, n)
    BY SomeAddsUp
  <2>2. best(n)[n] = IF n <= 1 THEN 0
                     ELSE best(n)[n - 1] + Distance(poses[n - 1], poses[n])
    <3>. HIDE DEF best
    <3>. QED BY <2>1 DEF AddsUp
  <2>3. CASE n > 1
    <3>1. n - 1 \in Nat
      BY <2>3
    <3>2. AddsUp(best(n - 1), poses, n - 1)
      BY <3>1, SomeAddsUp
    <3>3. AddsUp(best(n), poses, n - 1)
      <4>. HIDE DEF best
      <4>. QED BY <2>1, <3>1 DEF AddsUp
    <3>4. best(n)[n - 1] = best(n - 1)[n - 1]
      <4>. HIDE DEF best
      <4>1. n - 1 \in 0 .. n - 1 /\ \A i \in 1 .. n - 1 : poses[i] = poses[i]
        BY <3>1
      <4>. QED BY <3>1, <3>2, <3>3, <4>1, AddsUpAlike
    <3>5. w[n - 1] = best(n - 1)[n - 1] /\ w[n] = best(n)[n]
      BY <3>1
    <3>. HIDE DEF best, w
    <3>. QED BY <2>2, <3>4, <3>5
  <2>4. CASE n <= 1
    <3>1. w[n] = best(n)[n]
      OBVIOUS
    <3>. HIDE DEF best, w
    <3>. QED BY <2>2, <2>4, <3>1
  <2>. QED BY <2>3, <2>4
<1>2. w = [i \in Nat |-> w[i]]
  OBVIOUS
<1>3. w = [i \in Nat |-> IF i <= 1 THEN 0
             ELSE w[i - 1] + Distance(poses[i - 1], poses[i])]
  <2>. HIDE DEF w
  <2>. QED BY <1>1, <1>2
<1>. HIDE DEF w
<1>. QED BY <1>3 DEF Way

LEMMA WayIs ==
  ASSUME NEW poses, NEW n \in Nat
  PROVE  /\ AddsUp(Way(poses), poses, n)
         /\ n > 0 => Way(poses)[n + 1] = Way(poses)[n] + Distance(poses[n], poses[n + 1])
         /\ n <= 1 => Way(poses)[n] = 0
<1>. DEFINE w == Way(poses)
<1>1. w = [i \in Nat |-> IF i <= 1 THEN 0
             ELSE w[i - 1] + Distance(poses[i - 1], poses[i])]
  BY WayAddsUp
<1>. HIDE DEF w
<1>2. \A i \in Nat : w[i] = IF i <= 1 THEN 0
             ELSE w[i - 1] + Distance(poses[i - 1], poses[i])
  BY <1>1
<1>3. AddsUp(w, poses, n)
  BY <1>2 DEF AddsUp
<1>4. n + 1 \in Nat /\ (n + 1) - 1 = n /\ (n > 0 => ~(n + 1 <= 1))
  OBVIOUS
<1>5. n > 0 => w[n + 1] = w[n] + Distance(poses[n], poses[n + 1])
  BY <1>2, <1>4
<1>6. n <= 1 => w[n] = 0
  BY <1>2
<1>. QED BY <1>3, <1>5, <1>6 DEF w

LEMMA WayGoesOn ==
  ASSUME NEW poses \in Seq(Positions), NEW p \in Positions, poses # << >>
  PROVE  Way(Append(poses, p))[Len(poses) + 1]
           = Way(poses)[Len(poses)] + Distance(poses[Len(poses)], p)
<1>. DEFINE k == Len(poses)
            more == Append(poses, p)
<1>1. k \in Nat /\ k > 0
  BY EmptySeq, LenProperties
<1>2. more[k + 1] = p /\ \A i \in 1 .. k : more[i] = poses[i]
  BY AppendProperties
<1>. HIDE DEF k, more
<1>3. Way(more)[k + 1] = Way(more)[k] + Distance(more[k], more[k + 1])
  BY <1>1, WayIs
<1>4. Way(more)[k] = Way(poses)[k]
  <2>1. AddsUp(Way(more), more, k) /\ AddsUp(Way(poses), poses, k)
    BY <1>1, WayIs
  <2>2. \A i \in 1 .. k : more[i] = poses[i]
    BY <1>2
  <2>. QED BY <1>1, <2>1, <2>2, AddsUpAlike
<1>5. more[k] = poses[k]
  BY <1>1, <1>2
<1>6. Way(more)[k + 1] = Way(poses)[k] + Distance(poses[k], p)
  BY <1>2, <1>3, <1>4, <1>5
<1>. QED BY <1>6 DEF k, more

-----------------------------------------------------------------------------
(* What an accepted state adds to the amounts. *)

\* The first healthy state is found.
LEMMA FirstHealthy ==
  ASSUME NEW states \in Seq(States), Healthy(states) # {}
  PROVE  /\ Min(Healthy(states)) \in Healthy(states)
         /\ Min(Healthy(states)) \in 1 .. Len(states)
         /\ \A i \in Healthy(states) : Min(Healthy(states)) <= i
<1>1. Healthy(states) \subseteq 1 .. Len(states) /\ Len(states) \in Nat
  BY LenProperties DEF Healthy
<1>2. \E x \in Healthy(states) : \A y \in Healthy(states) : x <= y
  BY <1>1, SmallestExists
<1>. QED BY <1>1, <1>2 DEF Min

LEMMA PosesAre ==
  ASSUME NEW states \in Seq(States)
  PROVE  /\ Poses(states) \in Seq(Positions)
         /\ Poses(states) = << >> <=> Healthy(states) = {}
<1>1. CASE Healthy(states) = {}
  BY <1>1, EmptySeq DEF Poses
<1>2. CASE Healthy(states) # {}
  <2>. DEFINE from == Min(Healthy(states))
              k == Len(states) - from + 1
              poses == [i \in 1 .. k |-> states[from + i - 1].position]
  <2>1. from \in 1 .. Len(states) /\ Len(states) \in Nat
    BY <1>2, FirstHealthy, LenProperties
  <2>2. k \in Nat /\ k # 0
    BY <2>1
  <2>3. ASSUME NEW i \in 1 .. k PROVE states[from + i - 1].position \in Positions
    <3>1. from + i - 1 \in 1 .. Len(states)
      BY <2>1
    <3>2. states[from + i - 1] \in States
      BY <3>1, ElementOfSeq
    <3>. QED BY <3>2 DEF States
  <2>4. Poses(states) = poses
    BY <1>2 DEF Poses
  <2>. HIDE DEF from, k
  <2>5. poses \in Seq(Positions) /\ Len(poses) = k
    BY <2>2, <2>3, IsASeq
  <2>. QED BY <1>2, <2>2, <2>4, <2>5, EmptySeq
<1>. QED BY <1>1, <1>2

LEMMA HealthyGrows ==
  ASSUME NEW states \in Seq(States), NEW s \in States
  PROVE  Healthy(Append(states, s))
           = Healthy(states) \cup (IF s.healthy THEN {Len(states) + 1} ELSE {})
<1>. DEFINE more == Append(states, s)
<1>1. /\ Len(more) = Len(states) + 1 /\ more[Len(states) + 1] = s
      /\ \A i \in 1 .. Len(states) : more[i] = states[i]
      /\ Len(states) \in Nat /\ more \in Seq(States)
  BY AppendProperties, LenProperties
<1>2. DOMAIN more = 1 .. Len(states) + 1 /\ DOMAIN states = 1 .. Len(states)
  BY <1>1, LenProperties
<1>. HIDE DEF more
<1>3. ASSUME NEW i
      PROVE  i \in DOMAIN more /\ more[i].healthy
               <=> i \in Healthy(states) \/ (s.healthy /\ i = Len(states) + 1)
  <2>1. CASE i \in 1 .. Len(states)
    BY <1>1, <1>2, <2>1 DEF Healthy
  <2>2. CASE i = Len(states) + 1
    BY <1>1, <1>2, <2>2 DEF Healthy
  <2>3. CASE i \notin 1 .. Len(states) + 1
    BY <1>1, <1>2, <2>3 DEF Healthy
  <2>. QED BY <1>1, <2>1, <2>2, <2>3
<1>. QED BY <1>3 DEF Healthy, more

LEMMA PosesGoOn ==
  ASSUME NEW states \in Seq(States), NEW s \in States
  PROVE  Poses(Append(states, s)) =
           IF Healthy(states) # {} THEN Append(Poses(states), s.position)
           ELSE IF s.healthy THEN << s.position >> ELSE << >>
<1>. DEFINE more == Append(states, s)
            n == Len(states)
<1>1. /\ Len(more) = n + 1 /\ more[n + 1] = s /\ n \in Nat /\ more \in Seq(States)
      /\ \A i \in 1 .. n : more[i] = states[i]
  BY AppendProperties, LenProperties
<1>2. Healthy(more) = Healthy(states) \cup (IF s.healthy THEN {n + 1} ELSE {})
  BY HealthyGrows
<1>. HIDE DEF more
<1>3. CASE Healthy(states) # {}
  <2>. DEFINE from == Min(Healthy(states))
              k == n - from + 1
  <2>1. /\ from \in Healthy(states) /\ from \in 1 .. n
        /\ \A i \in Healthy(states) : from <= i
    BY <1>3, FirstHealthy
  <2>2. Healthy(more) # {}
    BY <1>2, <1>3
  <2>3. /\ Min(Healthy(more)) \in Healthy(more) /\ Min(Healthy(more)) \in 1 .. n + 1
        /\ \A i \in Healthy(more) : Min(Healthy(more)) <= i
    BY <1>1, <2>2, FirstHealthy
  <2>. HIDE DEF from
  <2>4. Min(Healthy(more)) = from
    <3>1. Min(Healthy(more)) <= from
      BY <1>2, <2>1, <2>3
    <3>2. from <= Min(Healthy(more))
      <4>1. CASE Min(Healthy(more)) \in Healthy(states)
        BY <2>1, <4>1
      <4>2. CASE Min(Healthy(more)) = n + 1
        BY <1>1, <2>1, <4>2
      <4>. QED BY <1>2, <2>3, <4>1, <4>2
    <3>. QED BY <1>1, <2>1, <2>3, <3>1, <3>2
  <2>5. Poses(states) = [i \in 1 .. k |-> states[from + i - 1].position]
    BY <1>3 DEF Poses, from
  <2>6. Poses(more) = [i \in 1 .. k + 1 |-> more[from + i - 1].position]
    <3>1. Len(more) - from + 1 = k + 1
      BY <1>1, <2>1
    <3>2. Poses(more)
            = [i \in 1 .. Len(more) - from + 1 |-> more[from + i - 1].position]
      BY <2>2, <2>4 DEF Poses
    <3>. QED BY <3>1, <3>2
  <2>7. k \in Nat
    BY <1>1, <2>1
  <2>8. \A i \in 1 .. k : more[from + i - 1] = states[from + i - 1]
    BY <1>1, <2>1
  <2>9. more[from + (k + 1) - 1] = s
    BY <1>1, <2>1
  <2>. HIDE DEF k
  <2>10. Poses(states) \in Seq(Positions) /\ s.position \in Positions
    BY PosesAre DEF States
  <2>11. Len(Poses(states)) = k
    BY <2>5, <2>7, <2>10, LenProperties
  <2>12. Poses(more) \in Seq(Positions)
    BY <1>1, PosesAre
  <2>13. Len(Poses(more)) = k + 1
    BY <2>6, <2>7, <2>12, LenProperties
  <2>. DEFINE longer == Append(Poses(states), s.position)
  <2>14. /\ longer \in Seq(Positions) /\ Len(longer) = k + 1
         /\ \A i \in 1 .. k : longer[i] = Poses(states)[i]
         /\ longer[k + 1] = s.position
    BY <2>10, <2>11, AppendProperties
  <2>. HIDE DEF longer
  <2>15. ASSUME NEW i \in 1 .. k + 1 PROVE Poses(more)[i] = longer[i]
    <3>1. CASE i \in 1 .. k
      BY <2>5, <2>6, <2>8, <2>14, <3>1
    <3>2. CASE i = k + 1
      BY <2>6, <2>7, <2>9, <2>14, <3>2
    <3>. QED BY <2>7, <3>1, <3>2
  <2>16. Poses(more) = longer
    BY <2>12, <2>13, <2>14, <2>15, SeqEqual
  <2>. QED BY <1>3, <2>16 DEF longer, more
<1>4. CASE Healthy(states) = {} /\ s.healthy
  <2>1. Healthy(more) = {n + 1}
    BY <1>2, <1>4
  <2>2. Min(Healthy(more)) = n + 1
    BY <1>1, <2>1, FirstHealthy
  <2>3. Poses(more) = [i \in 1 .. Len(more) - (n + 1) + 1
                         |-> more[(n + 1) + i - 1].position]
    BY <2>1, <2>2 DEF Poses
  <2>4. Len(more) - (n + 1) + 1 = 1
    BY <1>1
  <2>5. \A i \in 1 .. 1 : more[(n + 1) + i - 1].position = s.position
    BY <1>1
  <2>6. Poses(more) = [i \in 1 .. 1 |-> s.position]
    BY <2>3, <2>4, <2>5
  <2>. QED BY <1>4, <2>6 DEF more
<1>5. CASE Healthy(states) = {} /\ ~s.healthy
  BY <1>2, <1>5 DEF Poses, more
<1>. QED BY <1>3, <1>4, <1>5

LEMMA BoundedIs ==
  ASSUME NEW s \in Seq(Positions)
  PROVE  /\ Len(s) <= MaxPoints => Bounded(s) = s
         /\ Len(s) > MaxPoints => Bounded(s) = SubSeq(s, Len(s) - MaxPoints + 1, Len(s))
<1>1. Len(s) \in Nat /\ MaxPoints \in Nat \ {0, 1}
  BY LenProperties, ViewerAssumption
<1>2. Max({1, Len(s) - MaxPoints + 1})
        = IF 1 >= Len(s) - MaxPoints + 1 THEN 1 ELSE Len(s) - MaxPoints + 1
  BY <1>1, MaxOfTwo
<1>. DEFINE from == Max({1, Len(s) - MaxPoints + 1})
<1>0. Bounded(s) = SubSeq(s, from, Len(s))
  BY DEF Bounded
<1>3. CASE Len(s) <= MaxPoints
  <2>1. from = 1
    BY <1>1, <1>2, <1>3
  <2>2. SubSeq(s, 1, Len(s)) = s
    BY SubSeqFull
  <2>. HIDE DEF from
  <2>. QED BY <1>0, <1>1, <1>3, <2>1, <2>2
<1>4. CASE Len(s) > MaxPoints
  <2>1. from = Len(s) - MaxPoints + 1
    BY <1>1, <1>2, <1>4
  <2>. HIDE DEF from
  <2>. QED BY <1>0, <1>1, <1>4, <2>1
<1>. QED BY <1>1, <1>3, <1>4

LEMMA BoundedGoesOn ==
  ASSUME NEW q \in Seq(Positions), q # << >>, NEW p \in Positions
  PROVE  Bounded(Append(Bounded(q), p)) = Bounded(Append(q, p))
<1>. DEFINE k == Len(q)
            m == MaxPoints
<1>1. k \in Nat /\ k > 0 /\ m \in Nat \ {0, 1}
  BY EmptySeq, LenProperties, ViewerAssumption
<1>2. CASE k <= m
  BY <1>2, BoundedIs
<1>3. CASE k > m
  <2>. DEFINE b == SubSeq(q, k - m + 1, k)
              bp == Append(b, p)
              qp == Append(q, p)
  <2>1. Bounded(q) = b
    BY <1>3, BoundedIs
  <2>2. \A i \in k - m + 1 .. k : q[i] \in Positions
    BY <1>1, <1>3, ElementOfSeq
  <2>3. /\ b \in Seq(Positions) /\ Len(b) = m
        /\ \A i \in 1 .. m : b[i] = q[k - m + i]
    <3>1. k - m + 1 \in Int /\ k \in Int /\ k - m + 1 <= k
      BY <1>1, <1>3
    <3>2. k - (k - m + 1) + 1 = m /\ \A i \in 1 .. m : (k - m + 1) + i - 1 = k - m + i
      BY <1>1
    <3>3. /\ b \in Seq(Positions) /\ Len(b) = k - (k - m + 1) + 1
          /\ \A i \in 1 .. k - (k - m + 1) + 1 : b[i] = q[(k - m + 1) + i - 1]
      <4>. HIDE DEF k, m
      <4>. QED BY <2>2, <3>1, SubSeqProperties
    <3>. HIDE DEF b, k, m
    <3>. QED BY <3>2, <3>3
  <2>. HIDE DEF b
  <2>4. /\ bp \in Seq(Positions) /\ Len(bp) = m + 1 /\ bp[m + 1] = p
        /\ \A i \in 1 .. m : bp[i] = b[i]
    BY <2>3, AppendProperties
  <2>5. /\ qp \in Seq(Positions) /\ Len(qp) = k + 1 /\ qp[k + 1] = p
        /\ \A i \in 1 .. k : qp[i] = q[i]
    BY AppendProperties
  <2>. HIDE DEF bp, qp
  <2>6. Bounded(bp) = SubSeq(bp, 2, m + 1)
    <3>1. Len(bp) > m /\ Len(bp) - m + 1 = 2
      BY <1>1, <2>4
    <3>. QED BY <2>4, <3>1, BoundedIs
  <2>7. Bounded(qp) = SubSeq(qp, k + 1 - m + 1, k + 1)
    <3>1. Len(qp) > m
      BY <1>1, <1>3, <2>5
    <3>2. Bounded(qp) = SubSeq(qp, Len(qp) - m + 1, Len(qp))
      BY <2>5, <3>1, BoundedIs
    <3>3. Len(qp) = k + 1 /\ Len(qp) - m + 1 = k + 1 - m + 1
      BY <1>1, <2>5
    <3>. HIDE DEF m, k
    <3>. QED BY <3>2, <3>3
  <2>. DEFINE left == SubSeq(bp, 2, m + 1)
              right == SubSeq(qp, k + 1 - m + 1, k + 1)
  <2>8. /\ left \in Seq(Positions) /\ Len(left) = m
        /\ \A i \in 1 .. m : left[i] = bp[i + 1]
    <3>1. \A i \in 2 .. m + 1 : bp[i] \in Positions
      BY <1>1, <2>4, ElementOfSeq
    <3>2. 2 \in Int /\ m + 1 \in Int /\ 2 <= m + 1 /\ (m + 1) - 2 + 1 = m
          /\ \A i \in 1 .. m : 2 + i - 1 = i + 1
      BY <1>1
    <3>3. /\ left \in Seq(Positions) /\ Len(left) = (m + 1) - 2 + 1
          /\ \A i \in 1 .. (m + 1) - 2 + 1 : left[i] = bp[2 + i - 1]
      <4>. HIDE DEF m
      <4>. QED BY <3>1, <3>2, SubSeqProperties
    <3>. HIDE DEF left, m
    <3>. QED BY <3>2, <3>3
  <2>9. /\ right \in Seq(Positions) /\ Len(right) = m
        /\ \A i \in 1 .. m : right[i] = qp[k + 1 - m + i]
    <3>1. \A i \in k + 1 - m + 1 .. k + 1 : qp[i] \in Positions
      BY <1>1, <1>3, <2>5, ElementOfSeq
    <3>2. /\ k + 1 - m + 1 \in Int /\ k + 1 \in Int /\ k + 1 - m + 1 <= k + 1
          /\ (k + 1) - (k + 1 - m + 1) + 1 = m
          /\ \A i \in 1 .. m : (k + 1 - m + 1) + i - 1 = k + 1 - m + i
      BY <1>1
    <3>3. /\ right \in Seq(Positions) /\ Len(right) = (k + 1) - (k + 1 - m + 1) + 1
          /\ \A i \in 1 .. (k + 1) - (k + 1 - m + 1) + 1 :
               right[i] = qp[(k + 1 - m + 1) + i - 1]
      <4>. HIDE DEF k, m
      <4>. QED BY <3>1, <3>2, SubSeqProperties
    <3>. HIDE DEF right, k, m
    <3>. QED BY <3>2, <3>3
  <2>. HIDE DEF left, right
  <2>10. ASSUME NEW i \in 1 .. m PROVE left[i] = right[i]
    <3>1. CASE i < m
      <4>1. i + 1 \in 1 .. m /\ k + 1 - m + i \in 1 .. k /\ k - m + (i + 1) = k + 1 - m + i
        BY <1>1, <1>3, <3>1
      <4>2. left[i] = q[k - m + (i + 1)]
        BY <2>3, <2>4, <2>8, <4>1
      <4>. QED BY <2>5, <2>9, <4>1, <4>2
    <3>2. CASE i = m
      <4>1. k + 1 - m + m = k + 1 /\ m \in 1 .. m
        BY <1>1
      <4>2. left[m] = bp[m + 1]
        BY <2>8, <4>1
      <4>3. right[m] = qp[k + 1 - m + m]
        BY <2>9, <4>1
      <4>. QED BY <2>4, <2>5, <3>2, <4>1, <4>2, <4>3
    <3>. QED BY <1>1, <3>1, <3>2
  <2>11. left = right
    <3>. HIDE DEF m
    <3>. QED BY <2>8, <2>9, <2>10, SeqEqual
  <2>. QED BY <2>1, <2>6, <2>7, <2>11 DEF left, right, bp, qp
<1>. QED BY <1>1, <1>2, <1>3

-----------------------------------------------------------------------------
(* What has been accepted. *)

AcceptedOf(states, refusal) ==
  IF refusal = TRUE THEN SubSeq(states, 1, Len(states) - 1) ELSE states

\* Origin, newest position, track and length are those of the states accepted.
Match(states, origin, newest, track, length) ==
  /\ origin = IF Poses(states) = << >> THEN Nothing ELSE Head(Poses(states))
  /\ origin # Nothing => newest = Poses(states)[Len(Poses(states))]
  /\ track = Bounded(Poses(states))
  /\ length = Way(Poses(states))[Len(Poses(states))]

Accounts ==
  /\ published \in Seq(States)
  /\ refused => published # << >>
  /\ published # << >> => latestState = published[Len(published)]
  /\ Match(AcceptedOf(published, refused), first, previous, trajectory, total)

LEMMA OriginIs ==
  ASSUME NEW states \in Seq(States), NEW o, NEW p, NEW t, NEW l, Match(states, o, p, t, l)
  PROVE  o = Nothing <=> Poses(states) = << >>
<1>1. Poses(states) # << >> => Head(Poses(states)) \in Positions
  BY PosesAre, HeadTailProperties
<1>. QED BY <1>1, ViewerAssumption DEF Match

LEMMA MatchFirst ==
  ASSUME NEW states \in Seq(States), NEW s \in States, s.healthy, Poses(states) = << >>
  PROVE  Match(Append(states, s), s.position, s.position, << s.position >>, 0)
<1>1. Poses(Append(states, s)) = << s.position >>
  BY PosesAre, PosesGoOn
<1>2. s.position \in Positions
  BY DEF States
<1>3. /\ << s.position >> \in Seq(Positions) /\ Len(<< s.position >>) = 1
      /\ Head(<< s.position >>) = s.position /\ << s.position >> # << >>
      /\ << s.position >>[1] = s.position
  BY <1>2
<1>4. Bounded(<< s.position >>) = << s.position >>
  <2>1. 1 <= MaxPoints
    BY ViewerAssumption
  <2>. QED BY <1>3, <2>1, BoundedIs
<1>5. Way(<< s.position >>)[1] = 0
  BY WayIs
<1>. QED BY <1>1, <1>3, <1>4, <1>5 DEF Match

LEMMA MatchNone ==
  ASSUME NEW states \in Seq(States), NEW s \in States, ~s.healthy, Poses(states) = << >>,
         NEW o, NEW p, NEW t, NEW l, Match(states, o, p, t, l)
  PROVE  Match(Append(states, s), o, p, t, l)
<1>1. Poses(Append(states, s)) = Poses(states)
  BY PosesAre, PosesGoOn
<1>. QED BY <1>1 DEF Match

LEMMA MatchNext ==
  ASSUME NEW states \in Seq(States), NEW s \in States, Poses(states) # << >>,
         NEW o, NEW p, NEW t, NEW l, Match(states, o, p, t, l)
  PROVE  Match(Append(states, s), o, s.position, Bounded(Append(t, s.position)),
               l + Distance(p, s.position))
<1>. DEFINE poses == Poses(states)
            x == s.position
            more == Append(poses, x)
<1>1. Poses(Append(states, s)) = more
  BY PosesAre, PosesGoOn
<1>2. poses \in Seq(Positions) /\ x \in Positions /\ poses # << >>
  BY PosesAre DEF States
<1>3. /\ more \in Seq(Positions) /\ Len(more) = Len(poses) + 1 /\ more # << >>
      /\ more[Len(poses) + 1] = x /\ \A i \in 1 .. Len(poses) : more[i] = poses[i]
  BY <1>2, AppendProperties
<1>4. Len(poses) \in Nat /\ Len(poses) > 0
  BY <1>2, EmptySeq, LenProperties
<1>5. Head(more) = Head(poses)
  <2>1. more[1] = poses[1]
    BY <1>3, <1>4
  <2>. QED BY <1>2, <1>3, <2>1, HeadTailProperties
<1>6. o = Head(poses) /\ o # Nothing /\ p = poses[Len(poses)] /\ t = Bounded(poses)
      /\ l = Way(poses)[Len(poses)]
  BY <1>2, OriginIs DEF Match
<1>7. Way(more)[Len(poses) + 1] = l + Distance(p, x)
  BY <1>2, <1>6, WayGoesOn
<1>8. Bounded(Append(t, x)) = Bounded(more)
  BY <1>2, <1>6, BoundedGoesOn
<1>. HIDE DEF poses, x, more
<1>9. Match(Append(states, s), o, x, Bounded(Append(t, x)), l + Distance(p, x))
  BY <1>1, <1>3, <1>5, <1>6, <1>7, <1>8 DEF Match
<1>. QED BY <1>9 DEF x

LEMMA AppendDropped ==
  ASSUME NEW states \in Seq(States), NEW s \in States
  PROVE  /\ SubSeq(Append(states, s), 1, Len(Append(states, s)) - 1) = states
         /\ \A n \in 0 .. Len(states) :
              SubSeq(Append(states, s), 1, n) = SubSeq(states, 1, n)
<1>. DEFINE more == Append(states, s)
<1>1. /\ more \in Seq(States) /\ Len(more) = Len(states) + 1 /\ Len(states) \in Nat
      /\ \A i \in 1 .. Len(states) : more[i] = states[i]
  BY AppendProperties, LenProperties
<1>. HIDE DEF more
<1>2. ASSUME NEW n \in 0 .. Len(states)
      PROVE  SubSeq(more, 1, n) = SubSeq(states, 1, n)
  <2>. DEFINE a == SubSeq(more, 1, n)
              b == SubSeq(states, 1, n)
  <2>1. \A i \in 1 .. n : more[i] \in States /\ states[i] \in States /\ more[i] = states[i]
    BY <1>1, <1>2, ElementOfSeq
  <2>2. n \in Int /\ n \in Nat /\ 1 \in Int /\ n - 1 + 1 = n /\ (~(1 <= n) => n = 0)
        /\ \A i \in 1 .. n : 1 + i - 1 = i
    BY <1>1, <1>2
  <2>3. /\ a \in Seq(States) /\ Len(a) = IF 1 <= n THEN n - 1 + 1 ELSE 0
        /\ \A i \in 1 .. n - 1 + 1 : a[i] = more[1 + i - 1]
    BY <2>1, <2>2, SubSeqProperties
  <2>4. /\ b \in Seq(States) /\ Len(b) = IF 1 <= n THEN n - 1 + 1 ELSE 0
        /\ \A i \in 1 .. n - 1 + 1 : b[i] = states[1 + i - 1]
    BY <2>1, <2>2, SubSeqProperties
  <2>. HIDE DEF a, b
  <2>5. Len(a) = n /\ Len(b) = n /\ \A i \in 1 .. n : a[i] = b[i]
    BY <2>1, <2>2, <2>3, <2>4
  <2>6. a = b
    BY <2>3, <2>4, <2>5, SeqEqual
  <2>. QED BY <2>6 DEF a, b
<1>3. SubSeq(more, 1, Len(more) - 1) = states
  <2>1. Len(more) - 1 = Len(states) /\ Len(states) \in 0 .. Len(states)
    BY <1>1
  <2>2. SubSeq(states, 1, Len(states)) = states
    BY SubSeqFull
  <2>. QED BY <1>2, <2>1, <2>2
<1>. QED BY <1>2, <1>3 DEF more

-----------------------------------------------------------------------------
(* A moment stays one while others publish. *)

MomentOf(track, states, refusal) ==
  \E n \in 1 .. Len(states) :
    LET kept == IF refusal = TRUE /\ n = Len(states) THEN n - 1 ELSE n
        then == Amounts(SubSeq(states, 1, kept))
    IN
    /\ track.state = states[n]
    /\ track.first = then.first
    /\ track.total = then.total
    /\ track.trajectory = then.trajectory

LEMMA MomentKept ==
  ASSUME NEW states \in Seq(States), NEW s \in States, NEW refusal \in BOOLEAN,
         NEW track, MomentOf(track, states, FALSE)
  PROVE  MomentOf(track, Append(states, s), refusal)
<1>. DEFINE more == Append(states, s)
<1>1. PICK n \in 1 .. Len(states) :
        /\ track.state = states[n]
        /\ track.first = Amounts(SubSeq(states, 1, n)).first
        /\ track.total = Amounts(SubSeq(states, 1, n)).total
        /\ track.trajectory = Amounts(SubSeq(states, 1, n)).trajectory
  BY DEF MomentOf
<1>2. Len(states) \in Nat /\ Len(more) = Len(states) + 1 /\ more[n] = states[n]
  BY AppendProperties, LenProperties
<1>3. SubSeq(more, 1, n) = SubSeq(states, 1, n)
  BY <1>2, AppendDropped
<1>. HIDE DEF more
<1>4. n \in 1 .. Len(more) /\ n # Len(more)
  BY <1>2
<1>5. MomentOf(track, more, refusal)
  BY <1>1, <1>2, <1>3, <1>4 DEF MomentOf
<1>. QED BY <1>5 DEF more

LEMMA PublishedIsAMoment ==
  ASSUME Data, Accounts, trajectory # << >>
  PROVE  MomentOf(Track(Copied), published, refused)
<1>. DEFINE n == Len(published)
            accepted == AcceptedOf(published, refused)
<1>1. published \in Seq(States) /\ n \in Nat
  BY LenProperties DEF Accounts
<1>2. published # << >>
  <2>. SUFFICES ASSUME published = << >> PROVE FALSE
    OBVIOUS
  <2>1. accepted = << >>
    BY DEF Accounts, AcceptedOf
  <2>2. Poses(<< >>) = << >>
    <3>1. Healthy(<< >>) = {}
      BY DEF Healthy
    <3>. QED BY <3>1 DEF Poses
  <2>3. Bounded(<< >>) = << >>
    <3>1. << >> \in Seq(Positions) /\ Len(<< >>) <= MaxPoints
      BY EmptySeq, ViewerAssumption
    <3>. QED BY <3>1, BoundedIs
  <2>4. trajectory = Bounded(Poses(accepted))
    BY DEF Accounts, Match
  <2>. QED BY <2>1, <2>2, <2>3, <2>4
<1>3. n \in 1 .. n
  BY <1>1, <1>2, EmptySeq
<1>4. accepted = SubSeq(published, 1, IF refused = TRUE /\ n = n THEN n - 1 ELSE n)
  BY <1>1, SubSeqFull DEF AcceptedOf
<1>5. /\ Track(Copied).state = latestState /\ Track(Copied).first = first
      /\ Track(Copied).total = total /\ Track(Copied).trajectory = trajectory
  BY DEF Track, Copied
<1>6. /\ first = Amounts(accepted).first /\ total = Amounts(accepted).total
      /\ trajectory = Amounts(accepted).trajectory
  BY DEF Accounts, Match, Amounts
<1>7. latestState = published[n]
  BY <1>2 DEF Accounts
<1>. HIDE DEF accepted
<1>. QED BY <1>3, <1>4, <1>5, <1>6, <1>7 DEF MomentOf

\* What was copied, and what is shown.
Taken == pc = "draw" /\ copy.trajectory # << >> => MomentOf(Track(copy), published, refused)

Visible == shown # Nothing => MomentOf(shown.track, published, refused)

Told == Data /\ Accounts /\ Taken /\ Visible

LEMMA ToldIsOneMoment == Told => ShowsOneMoment
<1>. SUFFICES ASSUME Told, shown # Nothing PROVE OfOneMoment(shown.track)
  BY DEF ShowsOneMoment
<1>1. MomentOf(shown.track, published, refused) /\ refused \in BOOLEAN
  BY DEF Told, Visible, Data
<1>2. refused = TRUE <=> refused
  BY <1>1
<1>. QED BY <1>1, <1>2 DEF MomentOf, OfOneMoment

LEMMA InitTold == Init => Told
<1>. SUFFICES ASSUME Init PROVE Told
  OBVIOUS
<1>1. Data
  BY InitIInv DEF IInv
<1>2. Accounts
  <2>1. /\ published = << >> /\ refused = FALSE /\ first = Nothing
        /\ trajectory = << >> /\ total = 0
    BY DEF Init
  <2>2. AcceptedOf(published, refused) = << >>
    BY <2>1 DEF AcceptedOf
  <2>3. Poses(<< >>) = << >>
    <3>1. Healthy(<< >>) = {}
      BY DEF Healthy
    <3>. QED BY <3>1 DEF Poses
  <2>4. << >> \in Seq(Positions) /\ Len(<< >>) = 0 /\ << >> \in Seq(States)
    BY EmptySeq
  <2>5. Bounded(<< >>) = << >> /\ Way(<< >>)[0] = 0
    <3>1. 0 <= MaxPoints /\ 0 \in Nat
      BY ViewerAssumption
    <3>2. Bounded(<< >>) = << >>
      BY <2>4, <3>1, BoundedIs
    <3>3. Way(<< >>)[0] = 0
      BY <3>1, WayIs
    <3>. QED BY <3>2, <3>3
  <2>. QED BY <2>1, <2>2, <2>3, <2>4, <2>5 DEF Accounts, Match
<1>3. Taken /\ Visible
  BY DEF Init, Taken, Visible
<1>. QED BY <1>1, <1>2, <1>3 DEF Told

LEMMA PublishAccounts ==
  ASSUME Told, Data', PublishState
  PROVE  Told'
<1>1. PICK state \in States :
        /\ latestState' = state /\ published' = Append(published, state)
        /\ Anchor(state) \/ Follow(state)
  BY DEF PublishState, States
<1>2. refused = FALSE /\ refused' \in BOOLEAN /\ published \in Seq(States)
  BY DEF Told, Data, Accounts, PublishState
<1>3. UNCHANGED << pc, copy, shown >>
  BY DEF PublishState
<1>4. /\ published' \in Seq(States) /\ published' # << >>
      /\ latestState' = published'[Len(published')]
  BY <1>1, <1>2, AppendProperties
<1>5. Match(published, first, previous, trajectory, total)
  BY <1>2 DEF Told, Accounts, AcceptedOf
<1>6. Match(AcceptedOf(published', refused'), first', previous', trajectory', total')
  <2>1. CASE Anchor(state)
    <3>1. first = Nothing /\ refused' = FALSE /\ total' = total
      BY <1>2, <2>1 DEF Anchor
    <3>2. AcceptedOf(published', refused') = Append(published, state)
      BY <1>1, <3>1 DEF AcceptedOf
    <3>3. Poses(published) = << >>
      BY <1>2, <1>5, <3>1, OriginIs
    <3>4. CASE ~state.healthy /\ UNCHANGED << first, previous, trajectory >>
      <4>1. Match(Append(published, state), first, previous, trajectory, total)
        BY <1>2, <1>5, <3>3, <3>4, MatchNone
      <4>. QED BY <3>1, <3>2, <3>4, <4>1
    <3>5. CASE /\ state.healthy /\ first' = state.position /\ previous' = state.position
               /\ trajectory' = Append(trajectory, state.position)
      <4>1. trajectory = << >>
        BY <3>1 DEF Told, Data
      <4>2. total = 0
        <5>1. total = Way(<< >>)[Len(<< >>)]
          BY <1>5, <3>3 DEF Match
        <5>2. Len(<< >>) = 0 /\ Way(<< >>)[0] = 0
          BY EmptySeq, WayIs
        <5>. QED BY <5>1, <5>2
      <4>3. trajectory' = << state.position >>
        BY <3>5, <4>1
      <4>4. Match(Append(published, state), state.position, state.position,
                  << state.position >>, 0)
        BY <1>2, <3>3, <3>5, MatchFirst
      <4>. QED BY <3>1, <3>2, <3>5, <4>2, <4>3, <4>4
    <3>. QED BY <2>1, <3>4, <3>5 DEF Anchor
  <2>2. CASE Follow(state)
    <3>. DEFINE step == Distance(previous, state.position)
    <3>1. first # Nothing /\ first' = first
      BY <2>2 DEF Follow
    <3>2. Poses(published) # << >>
      BY <1>2, <1>5, <3>1, OriginIs
    <3>3. CASE /\ total' = PathLength(trajectory, step) /\ previous' = state.position
               /\ trajectory' = Bounded(Append(trajectory, state.position))
               /\ refused' = refused
      <4>1. AcceptedOf(published', refused') = Append(published, state)
        BY <1>1, <1>2, <3>3 DEF AcceptedOf
      <4>2. Match(Append(published, state), first, state.position,
                  Bounded(Append(trajectory, state.position)), total + step)
        BY <1>2, <1>5, <3>2, MatchNext
      <4>. QED BY <3>1, <3>3, <4>1, <4>2 DEF PathLength
    <3>4. CASE refused' = TRUE /\ UNCHANGED << total, previous, trajectory >>
      <4>1. AcceptedOf(published', refused') = published
        BY <1>1, <1>2, <3>4, AppendDropped DEF AcceptedOf
      <4>. QED BY <1>5, <3>1, <3>4, <4>1
    <3>. QED BY <2>2, <3>3, <3>4 DEF Follow
  <2>. QED BY <1>1, <2>1, <2>2
<1>7. Accounts'
  BY <1>4, <1>6 DEF Accounts
<1>8. \A track : MomentOf(track, published, refused)
                   => MomentOf(track, published', refused')
  BY <1>1, <1>2, MomentKept
<1>9. Taken' /\ Visible'
  <2>1. Taken'
    BY <1>3, <1>8 DEF Told, Taken, Track
  <2>2. Visible'
    BY <1>3, <1>8 DEF Told, Visible
  <2>. QED BY <2>1, <2>2
<1>. QED BY <1>7, <1>9 DEF Told

LEMMA NextKeepsTold == IInv /\ Told /\ [Next]_vars => Told'
<1>. SUFFICES ASSUME IInv, Told, [Next]_vars PROVE Told'
  OBVIOUS
<1>1. Data'
  BY NextKeepsIInv DEF IInv
<1>2. CASE PublishState
  BY <1>1, <1>2, PublishAccounts
<1>3. CASE UNCHANGED data /\ UNCHANGED << shown, copy, pc >>
  BY <1>1, <1>3 DEF Told, Accounts, Taken, Visible, Track, data
<1>4. ASSUME UNCHANGED data, shown' = shown, pc' # "draw" PROVE Told'
  BY <1>1, <1>4 DEF Told, Accounts, Taken, Visible, data
<1>5. CASE Copy
  <2>1. UNCHANGED data /\ shown' = shown /\ copy' = Copied
    BY <1>5 DEF Copy
  <2>2. Accounts' /\ Visible'
    BY <2>1 DEF Told, Accounts, Visible, data
  <2>3. Taken'
    <3>1. copy'.trajectory # << >> => trajectory # << >>
      BY <2>1 DEF Copied
    <3>2. copy'.trajectory # << >> => MomentOf(Track(Copied), published, refused)
      BY <3>1, PublishedIsAMoment DEF Told
    <3>3. UNCHANGED << published, refused >>
      BY <2>1 DEF data
    <3>4. Track(copy)' = Track(Copied)
      BY <2>1 DEF Track
    <3>. QED BY <3>2, <3>3, <3>4 DEF Taken
  <2>. QED BY <1>1, <2>2, <2>3 DEF Told
<1>6. CASE Draw
  <2>1. UNCHANGED data /\ pc = "draw" /\ pc' # "draw"
    BY <1>6 DEF Draw
  <2>2. CASE shown' = shown
    BY <1>4, <2>1, <2>2
  <2>3. CASE copy.trajectory # << >> /\ shown' = [track |-> Track(copy), view |-> View']
    <3>1. Accounts' /\ Taken'
      BY <2>1 DEF Told, Accounts, Taken, data
    <3>2. UNCHANGED << published, refused >>
      BY <2>1 DEF data
    <3>3. shown'.track = Track(copy)
      BY <2>3
    <3>4. MomentOf(Track(copy), published, refused)
      BY <2>1, <2>3 DEF Told, Taken
    <3>5. Visible'
      BY <3>2, <3>3, <3>4 DEF Visible
    <3>. QED BY <1>1, <3>1, <3>5 DEF Told
  <2>. QED BY <1>6, <2>2, <2>3 DEF Draw
<1>7. CASE UNCHANGED vars
  BY <1>3, <1>7 DEF vars
<1>8. CASE PublishStereo
  BY <1>3, <1>8 DEF PublishStereo
<1>9. CASE Open \/ Close \/ Return
  <2>1. UNCHANGED data /\ shown' = shown /\ pc' # "draw"
    BY <1>9 DEF Open, Close, Return
  <2>. QED BY <1>4, <2>1
<1>10. ASSUME Mouse PROVE Told'
  <2>1. UNCHANGED data /\ shown' = shown /\ UNCHANGED << shown, copy, pc >>
    BY <1>10 DEF Mouse
  <2>. QED BY <1>3, <2>1
<1>11. ASSUME NEW x \in Cursors,
              Press("orbit", x) \/ Press("pan", x) \/ Move(x) \/ Wheel(x)
       PROVE  Told'
  BY <1>10, <1>11 DEF Press, Move, Wheel
<1>12. CASE Release \/ DoubleClick
  BY <1>10, <1>12 DEF Release, DoubleClick
<1>. QED BY <1>2, <1>5, <1>6, <1>7, <1>8, <1>9, <1>11, <1>12 DEF Next

\* The trajectory window shows what had been published at one moment, for
\* histories of any length: the first healthy pose stays the origin, the length
\* is that of all of the way although the track keeps its newest points only,
\* and no interleaving of publish_state with poll mixes two moments
\* (live_viewer.cpp:129-158 and 217-230).
THEOREM PictureIsOfOneMoment == Spec => []ShowsOneMoment
<1>1. Spec => []Told
  BY IInvHolds, InitTold, NextKeepsTold, PTL DEF Spec
<1>. QED BY <1>1, ToldIsOneMoment, PTL
=============================================================================
