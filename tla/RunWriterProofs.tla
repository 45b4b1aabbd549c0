-------------------------- MODULE RunWriterProofs --------------------------
(***************************************************************************)
(* The run writer's properties hold for any set of directories.            *)
(***************************************************************************)
EXTENDS RunWriter, TLAPS

NothingFailed == \A f \in Files : streams[f].good

\* A run whose files are open still has its marker, and as long as no stream has
\* failed its files are undamaged and hold a state once have_state_ is set.
OpenRun ==
  outputOpen =>
    /\ disk[directory].used /\ disk[directory].marker
    /\ NothingFailed => disk[directory].damaged = {}
    /\ NothingFailed /\ haveState => disk[directory].hasState

\* Between the two halves of open() the directory has just the marker; between
\* those of finalize() only the marker keeps the run from being complete.
Halfway ==
  /\ step = "marked" => disk[directory] = Marked /\ ~haveState
  /\ step = "closed" =>
       /\ disk[directory].used /\ disk[directory].marker
       /\ disk[directory].damaged = {} /\ disk[directory].hasState

IInv == TypeOK /\ OpenRun /\ Halfway /\ MarkerProtects

\* The invariant holds before anything is opened.
LEMMA InitIInv == Init => IInv
<1>. SUFFICES ASSUME Init PROVE IInv
  OBVIOUS
<1>1. TypeOK
  BY DEF Init, TypeOK, Empty, Closed, Directory, Stream, Files
<1>2. OpenRun /\ Halfway /\ MarkerProtects
  BY DEF Init, OpenRun, Halfway, MarkerProtects, Complete, Empty
<1>. QED BY <1>1, <1>2 DEF IInv

\* Damage only reaches the run whose files are open.
LEMMA DamageReaches ==
  ASSUME TypeOK, NEW fs \in SUBSET Files
  PROVE  /\ Damage(fs) \in [Dirs -> Directory]
         /\ outputOpen => Damage(fs) = [disk EXCEPT ![directory].damaged = @ \cup fs]
         /\ ~outputOpen => Damage(fs) = disk
<1>1. CASE outputOpen
  <2>1. {f \in fs : streams[f].open} = fs
    BY <1>1 DEF TypeOK
  <2>2. directory \in Dirs /\ Damage(fs) = [disk EXCEPT ![directory].damaged = @ \cup fs]
    BY <1>1, <2>1 DEF TypeOK, Damage
  <2>3. disk[directory].damaged \cup fs \in SUBSET Files
    BY <2>2 DEF TypeOK, Directory
  <2>. QED BY <1>1, <2>2, <2>3 DEF TypeOK, Directory
<1>2. CASE ~outputOpen
  <2>1. {f \in fs : streams[f].open} = {}
    BY <1>2 DEF TypeOK
  <2>2. CASE directory \in Dirs
    <3>1. disk[directory] \in Directory
      BY <2>2 DEF TypeOK
    <3>2. disk[directory].damaged \cup {} = disk[directory].damaged
      OBVIOUS
    <3>3. [disk[directory] EXCEPT !.damaged = disk[directory].damaged] = disk[directory]
      BY <3>1 DEF Directory
    <3>4. Damage(fs) = [disk EXCEPT ![directory].damaged = @]
      BY <2>1, <2>2, <3>2 DEF Damage
    <3>. QED BY <1>2, <2>2, <3>3, <3>4 DEF TypeOK
  <2>3. CASE directory \notin Dirs
    BY <1>2, <2>3 DEF TypeOK, Damage
  <2>. QED BY <2>2, <2>3
<1>. QED BY <1>1, <1>2 DEF TypeOK

\* What damage does to each directory.
LEMMA DamageEach ==
  ASSUME TypeOK, NEW fs \in SUBSET Files, NEW d \in Dirs
  PROVE  /\ Damage(fs)[d].used = disk[d].used
         /\ Damage(fs)[d].marker = disk[d].marker
         /\ Damage(fs)[d].hasState = disk[d].hasState
         /\ outputOpen /\ d = directory => Damage(fs)[d].damaged = disk[d].damaged \cup fs
         /\ ~outputOpen \/ d # directory => Damage(fs)[d] = disk[d]
<1>1. CASE outputOpen
  <2>1. Damage(fs) = [disk EXCEPT ![directory].damaged = @ \cup fs] /\ directory \in Dirs
    BY <1>1, DamageReaches DEF TypeOK
  <2>2. disk \in [Dirs -> Directory]
    BY DEF TypeOK
  <2>. QED BY <1>1, <2>1, <2>2 DEF Directory
<1>2. CASE ~outputOpen
  BY <1>2, DamageReaches
<1>. QED BY <1>1, <1>2 DEF TypeOK

\* A step that leaves complete runs alone and removes no marker keeps what the
\* marker protects.
LEMMA StaysProtected ==
  ASSUME MarkerProtects,
         \A d \in Dirs : Complete(d) => disk'[d] = disk[d],
         \A d \in Dirs : Complete(d)' => Complete(d)
  PROVE  MarkerProtects'
BY DEF MarkerProtects, Complete

\* A complete run is not the one that is open or half way open.
LEMMA CompleteIsElsewhere ==
  ASSUME IInv, NEW d \in Dirs, Complete(d)
  PROVE  (outputOpen => d # directory) /\ (step # "idle" => d # directory)
<1>1. step \in {"idle", "marked", "closed"}
  BY DEF IInv, TypeOK
<1>. QED BY <1>1 DEF IInv, OpenRun, Halfway, Complete, Marked, Empty

\* Closing the files leaves complete runs alone, and no run becomes complete.
LEMMA DamageStays ==
  ASSUME IInv, NEW fs \in SUBSET Files, disk' = Damage(fs)
  PROVE  /\ disk' \in [Dirs -> Directory]
         /\ \A d \in Dirs : Complete(d) => disk'[d] = disk[d]
         /\ MarkerProtects'
<1>1. TypeOK /\ MarkerProtects
  BY DEF IInv
<1>2. disk' \in [Dirs -> Directory]
  BY <1>1, DamageReaches
<1>3. ASSUME NEW d \in Dirs, Complete(d) PROVE disk'[d] = disk[d]
  BY <1>1, <1>3, DamageEach, CompleteIsElsewhere
<1>4. ASSUME NEW d \in Dirs, Complete(d)' PROVE Complete(d)
  BY <1>1, <1>4, DamageEach DEF Complete
<1>. QED BY <1>1, <1>2, <1>3, <1>4, StaysProtected

\* Complete runs stay as they are in this step.
Stays == \A d \in Dirs : Complete(d) => disk'[d] = disk[d]

\* Closing the files: whatever fails, what follows is a closed run.
LEMMA CloseStep ==
  ASSUME IInv, NEW failing \in Failing, CloseLocked(failing)
  PROVE  /\ streams' \in [Files -> Stream]
         /\ \A f \in Files : streams'[f].open = FALSE /\ streams'[f].pending = FALSE
         /\ disk' \in [Dirs -> Directory]
         /\ Stays /\ MarkerProtects'
<1>1. failing \in SUBSET Files
  BY DEF Failing
<1>2. disk' \in [Dirs -> Directory] /\ Stays /\ MarkerProtects'
  BY <1>1, DamageStays DEF CloseLocked, Stays
<1>3. streams' = ClosedStreams(failing)
  BY DEF CloseLocked
<1>. QED BY <1>2, <1>3 DEF ClosedStreams, Closed, Failed, Stream

LEMMA CloseKeeps == ASSUME IInv, Close PROVE IInv' /\ Stays
<1>1. PICK failing \in Failing : CloseLocked(failing)
  BY DEF Close
<1>2. step = "idle" /\ UNCHANGED <<directory, finalized, haveState, step>> /\ outputOpen' = FALSE
  BY <1>1 DEF Close, CloseLocked
<1>3. TypeOK'
  BY <1>1, <1>2, CloseStep DEF IInv, TypeOK
<1>4. OpenRun' /\ Halfway'
  BY <1>2 DEF OpenRun, Halfway
<1>. QED BY <1>1, <1>3, <1>4, CloseStep DEF IInv

LEMMA FinalizeKeeps == ASSUME IInv, Finalize PROVE IInv' /\ Stays
<1>1. PICK failing \in Failing : CloseLocked(failing) /\ step' = IF Success(failing) THEN "closed" ELSE "idle"
  BY DEF Finalize
<1>2. /\ step = "idle" /\ outputOpen /\ haveState
      /\ UNCHANGED <<directory, finalized, haveState>> /\ outputOpen' = FALSE
  BY <1>1 DEF Finalize, CloseLocked
<1>3. TypeOK'
  BY <1>1, <1>2, CloseStep DEF IInv, TypeOK
<1>4. ASSUME step' = "closed"
      PROVE  /\ disk'[directory'].used /\ disk'[directory'].marker
             /\ disk'[directory'].damaged = {} /\ disk'[directory'].hasState
  <2>1. Success(failing) /\ TypeOK /\ directory \in Dirs /\ directory' = directory
    BY <1>1, <1>2, <1>4 DEF IInv, TypeOK
  <2>2. failing = {} /\ NothingFailed
    BY <1>2, <2>1 DEF Success, Writable, TypeOK, NothingFailed, Failing
  <2>3. disk' = Damage({})
    BY <1>1, <2>2 DEF CloseLocked
  <2>4. /\ disk[directory].used /\ disk[directory].marker
        /\ disk[directory].damaged = {} /\ disk[directory].hasState
    BY <1>2, <2>2 DEF IInv, OpenRun
  <2>. QED BY <1>2, <2>1, <2>3, <2>4, DamageEach
<1>5. OpenRun' /\ Halfway'
  BY <1>1, <1>2, <1>4 DEF OpenRun, Halfway
<1>. QED BY <1>1, <1>3, <1>5, CloseStep DEF IInv

\* A directory of Dirs replaced on top of the damage, when it was unused.
LEMMA OpenStep ==
  ASSUME IInv, step = "idle", NEW d \in Dirs, ~disk[d].used, NEW failing \in Failing,
         NEW left \in {Empty, Marked},
         Begin(d, failing), disk' = [Damage(failing) EXCEPT ![d] = left]
  PROVE  /\ streams' \in [Files -> Stream]
         /\ \A f \in Files : streams'[f].open = FALSE /\ streams'[f].pending = FALSE
         /\ disk' \in [Dirs -> Directory] /\ disk'[d] = left
         /\ Stays /\ MarkerProtects'
<1>1. failing \in SUBSET Files /\ TypeOK /\ MarkerProtects
  BY DEF Failing, IInv
<1>2. left \in Directory /\ (left.used => left.marker)
  <2>1. CASE left = Empty
    BY <2>1 DEF Empty, Directory
  <2>2. CASE left = Marked
    BY <2>2 DEF Marked, Directory
  <2>. QED BY <2>1, <2>2
<1>3. Damage(failing) \in [Dirs -> Directory]
  BY <1>1, DamageReaches
<1>4. disk' \in [Dirs -> Directory] /\ disk'[d] = left
  BY <1>2, <1>3
<1>5. \A e \in Dirs : e # d => disk'[e] = Damage(failing)[e]
  BY <1>3
<1>6. ASSUME NEW e \in Dirs, Complete(e) PROVE disk'[e] = disk[e]
  <2>1. e # d
    BY <1>6 DEF Complete
  <2>2. Damage(failing)[e] = disk[e]
    BY <1>1, <1>6, DamageEach, CompleteIsElsewhere
  <2>. QED BY <1>5, <2>1, <2>2
<1>7. ASSUME NEW e \in Dirs, Complete(e)' PROVE Complete(e)
  <2>1. e # d
    BY <1>2, <1>4, <1>7 DEF Complete
  <2>2. Damage(failing)[e].used = disk[e].used /\ Damage(failing)[e].marker = disk[e].marker
    BY <1>1, DamageEach
  <2>. QED BY <1>5, <1>7, <2>1, <2>2 DEF Complete
<1>8. streams' = ClosedStreams(failing)
  BY DEF Begin
<1>9. /\ streams' \in [Files -> Stream]
      /\ \A f \in Files : streams'[f].open = FALSE /\ streams'[f].pending = FALSE
  BY <1>8 DEF ClosedStreams, Closed, Failed, Stream
<1>. QED BY <1>1, <1>4, <1>6, <1>7, <1>9, StaysProtected DEF Stays

LEMMA OpenMarkerKeeps ==
  ASSUME IInv, NEW d \in Dirs, OpenMarker(d) PROVE IInv' /\ Stays
<1>1. PICK failing \in Failing :
        Begin(d, failing) /\ disk' = [Damage(failing) EXCEPT ![d] = Marked]
  BY DEF OpenMarker
<1>2. /\ step = "idle" /\ ~disk[d].used /\ step' = "marked" /\ directory' = d
      /\ outputOpen' = FALSE /\ finalized' = FALSE /\ haveState' = FALSE
  BY <1>1 DEF OpenMarker, Begin
<1>3. /\ streams' \in [Files -> Stream]
      /\ \A f \in Files : streams'[f].open = FALSE /\ streams'[f].pending = FALSE
      /\ disk' \in [Dirs -> Directory] /\ disk'[d] = Marked
      /\ Stays /\ MarkerProtects'
  BY <1>1, <1>2, OpenStep
<1>4. TypeOK'
  BY <1>2, <1>3 DEF TypeOK
<1>5. OpenRun' /\ Halfway'
  BY <1>2, <1>3 DEF OpenRun, Halfway
<1>. QED BY <1>3, <1>4, <1>5 DEF IInv

LEMMA OpenMarkerFailsKeeps ==
  ASSUME IInv, NEW d \in Dirs, OpenMarkerFails(d) PROVE IInv' /\ Stays
<1>1. PICK failing \in Failing, left \in {Empty, Marked} :
        Begin(d, failing) /\ disk' = [Damage(failing) EXCEPT ![d] = left]
  BY DEF OpenMarkerFails
<1>2. /\ step = "idle" /\ ~disk[d].used /\ step' = "idle" /\ directory' = d
      /\ outputOpen' = FALSE /\ finalized' = FALSE /\ haveState' = FALSE
  BY <1>1 DEF OpenMarkerFails, Begin
<1>3. /\ streams' \in [Files -> Stream]
      /\ \A f \in Files : streams'[f].open = FALSE /\ streams'[f].pending = FALSE
      /\ disk' \in [Dirs -> Directory]
      /\ Stays /\ MarkerProtects'
  BY <1>1, <1>2, OpenStep
<1>4. TypeOK'
  BY <1>2, <1>3 DEF TypeOK
<1>5. OpenRun' /\ Halfway'
  BY <1>2 DEF OpenRun, Halfway
<1>. QED BY <1>3, <1>4, <1>5 DEF IInv

LEMMA OpenFilesKeeps == ASSUME IInv, OpenFiles PROVE IInv' /\ Stays
<1>1. PICK lost \in SUBSET Headed, buffered \in SUBSET Headed :
        /\ streams' = [f \in Files |-> [open |-> TRUE, good |-> f \notin lost,
                                        pending |-> f \in buffered]]
        /\ disk' = [disk EXCEPT ![directory].damaged = lost]
  BY DEF OpenFiles
<1>2. /\ step = "marked" /\ step' = "idle" /\ outputOpen' = TRUE
      /\ UNCHANGED <<directory, finalized, haveState>>
  BY DEF OpenFiles
<1>3. /\ TypeOK /\ MarkerProtects /\ disk \in [Dirs -> Directory] /\ directory \in Dirs
      /\ disk[directory] = Marked /\ ~haveState /\ lost \in SUBSET Files
  BY <1>2 DEF IInv, TypeOK, Halfway, Headed
<1>4. /\ disk' \in [Dirs -> Directory]
      /\ disk'[directory] = [Marked EXCEPT !.damaged = lost]
      /\ \A d \in Dirs : d # directory => disk'[d] = disk[d]
  BY <1>1, <1>3 DEF Directory
<1>5. /\ disk'[directory].used = TRUE /\ disk'[directory].marker = TRUE
      /\ disk'[directory].damaged = lost
  BY <1>4 DEF Marked, Empty
<1>6. Stays
  BY <1>2, <1>4, CompleteIsElsewhere DEF Stays
<1>7. ASSUME NEW d \in Dirs, Complete(d)' PROVE Complete(d)
  BY <1>4, <1>5, <1>7 DEF Complete
<1>8. MarkerProtects'
  BY <1>3, <1>6, <1>7, StaysProtected DEF Stays
<1>9. ASSUME NEW f \in Files
      PROVE  /\ streams'[f] \in Stream /\ streams'[f].open = TRUE
             /\ streams'[f].good => f \notin lost
  <2>1. streams'[f] = [open |-> TRUE, good |-> f \notin lost, pending |-> f \in buffered]
    BY <1>1
  <2>2. \A a, b \in BOOLEAN :
          /\ [open |-> TRUE, good |-> a, pending |-> b] \in Stream
          /\ [open |-> TRUE, good |-> a, pending |-> b].open = TRUE
          /\ [open |-> TRUE, good |-> a, pending |-> b].good => a
    BY DEF Stream
  <2>3. (f \notin lost) \in BOOLEAN /\ (f \in buffered) \in BOOLEAN
    OBVIOUS
  <2>. QED BY <2>1, <2>2, <2>3, Zenon
<1>10. streams' \in [Files -> Stream]
  BY <1>1, <1>9
<1>11. TypeOK'
  BY <1>2, <1>3, <1>4, <1>9, <1>10 DEF TypeOK
<1>12. OpenRun'
  <2>1. NothingFailed' => lost = {}
    BY <1>3, <1>9 DEF NothingFailed
  <2>. QED BY <1>2, <1>3, <1>5, <2>1 DEF OpenRun
<1>13. Halfway'
  BY <1>2 DEF Halfway
<1>. QED BY <1>6, <1>8, <1>11, <1>12, <1>13 DEF IInv

LEMMA OpenFilesFailsKeeps == ASSUME IInv, OpenFilesFails PROVE IInv' /\ Stays
<1>1. PICK missing \in SUBSET Files :
        streams' = [f \in Files |-> IF f \in missing THEN Failed ELSE Closed]
  BY DEF OpenFilesFails
<1>2. /\ step = "marked" /\ step' = "idle"
      /\ UNCHANGED <<disk, directory, outputOpen, finalized, haveState>>
  BY DEF OpenFilesFails
<1>3. /\ streams' \in [Files -> Stream]
      /\ \A f \in Files : streams'[f].open = FALSE /\ streams'[f].pending = FALSE
  BY <1>1 DEF Failed, Closed, Stream
<1>4. TypeOK /\ outputOpen = FALSE
  BY <1>2 DEF IInv, TypeOK
<1>5. TypeOK'
  BY <1>2, <1>3, <1>4 DEF TypeOK
<1>6. OpenRun' /\ Halfway' /\ Stays /\ MarkerProtects'
  BY <1>2, <1>4 DEF IInv, OpenRun, Halfway, Stays, MarkerProtects, Complete
<1>. QED BY <1>5, <1>6 DEF IInv

\* Writing a row keeps the streams' types, and a refused row leaves a failed stream.
LEMMA PutKeeps ==
  ASSUME TypeOK, NEW fs \in SUBSET Files, NEW o \in Rows(fs), Put(fs, o)
  PROVE  /\ streams' \in [Files -> Stream]
         /\ \A f \in Files : streams'[f].open = outputOpen /\ (streams'[f].pending => outputOpen)
         /\ Refused(fs, o) => ~NothingFailed'
         /\ NothingFailed' => NothingFailed
         /\ ~Refused(fs, o) /\ fs # {} => outputOpen
<1>1. /\ streams \in [Files -> Stream] /\ outputOpen \in BOOLEAN
      /\ \A f \in Files : streams[f].open = outputOpen /\ (streams[f].pending => outputOpen)
  BY DEF TypeOK
<1>2. ASSUME NEW f \in fs
      PROVE  /\ After(f, o[f]) \in Stream /\ After(f, o[f]).open = streams[f].open
             /\ After(f, o[f]).pending => outputOpen
             /\ After(f, o[f]).good => streams[f].good /\ o[f] # "fails"
             /\ o[f] # "fails" => outputOpen
  <2>1. streams[f] \in Stream /\ o[f] \in Outcomes(f) /\ o[f] \in {"buffered", "written", "fails"}
    BY <1>1 DEF Rows
  <2>2. CASE o[f] = "buffered"
    BY <1>1, <2>1, <2>2 DEF After, Outcomes, Writable, Stream
  <2>3. CASE o[f] = "written"
    BY <1>1, <2>1, <2>3 DEF After, Outcomes, Writable, Stream
  <2>4. CASE o[f] = "fails"
    BY <1>1, <2>1, <2>4 DEF After, Outcomes, Writable, Stream
  <2>. QED BY <2>1, <2>2, <2>3, <2>4
<1>3. streams' = [f \in Files |-> IF f \in fs THEN After(f, o[f]) ELSE streams[f]]
  BY DEF Put
<1>4. \A f \in Files : streams'[f] \in Stream
  BY <1>1, <1>2, <1>3
<1>5. streams' \in [Files -> Stream]
  BY <1>3, <1>4
<1>6. \A f \in Files : streams'[f].open = outputOpen /\ (streams'[f].pending => outputOpen)
  BY <1>1, <1>2, <1>3
<1>7. Refused(fs, o) => ~NothingFailed'
  BY <1>2, <1>3 DEF Refused, NothingFailed
<1>8. NothingFailed' => NothingFailed
  BY <1>2, <1>3 DEF NothingFailed
<1>9. ~Refused(fs, o) /\ fs # {} => outputOpen
  BY <1>2 DEF Refused
<1>. QED BY <1>5, <1>6, <1>7, <1>8, <1>9

\* A refused row damages files of the open run only, whose streams cannot all be
\* good any more.
LEMMA RefusedKeeps ==
  ASSUME IInv, step = "idle", NEW fs \in SUBSET Files, NEW o \in Rows(fs),
         Put(fs, o), Refused(fs, o), disk' = Damage(fs),
         UNCHANGED <<directory, outputOpen, finalized, step>>, haveState' \in BOOLEAN
  PROVE  IInv' /\ Stays
<1>1. TypeOK
  BY DEF IInv
<1>2. disk' \in [Dirs -> Directory] /\ Stays /\ MarkerProtects'
  BY DamageStays DEF Stays
<1>3. /\ streams' \in [Files -> Stream]
      /\ \A f \in Files : streams'[f].open = outputOpen /\ (streams'[f].pending => outputOpen)
      /\ ~NothingFailed'
  BY <1>1, PutKeeps
<1>4. TypeOK'
  BY <1>1, <1>2, <1>3 DEF TypeOK
<1>5. outputOpen => disk'[directory].used /\ disk'[directory].marker
  <2>1. outputOpen => directory \in Dirs /\ disk[directory].used /\ disk[directory].marker
    BY DEF IInv, OpenRun, TypeOK
  <2>2. ASSUME NEW d \in Dirs
        PROVE disk'[d].used = disk[d].used /\ disk'[d].marker = disk[d].marker
    BY <1>1, DamageEach
  <2>. QED BY <2>1, <2>2
<1>6. OpenRun'
  BY <1>3, <1>5 DEF OpenRun
<1>7. Halfway'
  BY DEF Halfway
<1>. QED BY <1>2, <1>4, <1>6, <1>7 DEF IInv

LEMMA WriteToKeeps ==
  ASSUME IInv, NEW g \in Files, WriteTo(g) PROVE IInv' /\ Stays
<1>1. PICK o \in Rows({g}) :
        Put({g}, o) /\ disk' = IF Refused({g}, o) THEN Damage({g}) ELSE disk
  BY DEF WriteTo
<1>2. step = "idle" /\ UNCHANGED <<directory, outputOpen, finalized, haveState, step>>
  BY DEF WriteTo
<1>3. TypeOK
  BY DEF IInv
<1>4. CASE Refused({g}, o)
  <2>1. haveState' \in BOOLEAN
    BY <1>2, <1>3 DEF TypeOK
  <2>. QED BY <1>1, <1>2, <1>4, <2>1, RefusedKeeps
<1>5. CASE ~Refused({g}, o)
  <2>1. /\ streams' \in [Files -> Stream]
        /\ \A f \in Files : streams'[f].open = outputOpen /\ (streams'[f].pending => outputOpen)
        /\ NothingFailed' => NothingFailed
    BY <1>1, <1>3, PutKeeps
  <2>2. UNCHANGED disk
    BY <1>1, <1>5
  <2>3. TypeOK'
    BY <1>2, <1>3, <2>1, <2>2 DEF TypeOK
  <2>4. OpenRun' /\ Halfway' /\ MarkerProtects' /\ Stays
    BY <1>2, <2>1, <2>2 DEF IInv, OpenRun, Halfway, MarkerProtects, Complete, Stays
  <2>. QED BY <2>3, <2>4 DEF IInv
<1>. QED BY <1>4, <1>5

LEMMA WriteStateKeeps == ASSUME IInv, WriteState PROVE IInv' /\ Stays
<1>. DEFINE fs == {"trajectory", "state"}
<1>1. PICK o \in Rows(fs) :
        /\ Put(fs, o)
        /\ disk' = IF Refused(fs, o) THEN Damage(fs) ELSE [disk EXCEPT ![directory].hasState = TRUE]
  BY DEF WriteState
<1>2. /\ step = "idle" /\ haveState' = TRUE
      /\ UNCHANGED <<directory, outputOpen, finalized, step>>
  BY DEF WriteState
<1>3. TypeOK /\ MarkerProtects /\ fs \in SUBSET Files /\ fs # {}
  BY DEF IInv, Files
<1>. HIDE DEF fs
<1>4. CASE Refused(fs, o)
  BY <1>1, <1>2, <1>3, <1>4, RefusedKeeps
<1>5. CASE ~Refused(fs, o)
  <2>1. /\ streams' \in [Files -> Stream]
        /\ \A f \in Files : streams'[f].open = outputOpen /\ (streams'[f].pending => outputOpen)
        /\ NothingFailed' => NothingFailed
        /\ outputOpen
    BY <1>1, <1>3, <1>5, PutKeeps
  <2>2. directory \in Dirs /\ disk \in [Dirs -> Directory]
    BY <1>3, <2>1 DEF TypeOK
  <2>3. disk' = [disk EXCEPT ![directory].hasState = TRUE]
    BY <1>1, <1>5
  <2>4. /\ disk' \in [Dirs -> Directory]
        /\ \A d \in Dirs : d # directory => disk'[d] = disk[d]
        /\ disk'[directory].hasState /\ disk'[directory].used = disk[directory].used
        /\ disk'[directory].marker = disk[directory].marker
        /\ disk'[directory].damaged = disk[directory].damaged
    BY <2>2, <2>3 DEF Directory
  <2>5. Stays
    BY <2>1, <2>4, CompleteIsElsewhere DEF Stays
  <2>6. MarkerProtects'
    BY <1>3, <2>4, <2>5, StaysProtected DEF Stays, Complete
  <2>7. TypeOK'
    BY <1>2, <1>3, <2>1, <2>4 DEF TypeOK
  <2>8. OpenRun' /\ Halfway'
    BY <1>2, <2>1, <2>4 DEF IInv, OpenRun, Halfway
  <2>. QED BY <2>5, <2>6, <2>7, <2>8 DEF IInv
<1>. QED BY <1>4, <1>5

\* The marker is removed from a run that lacks nothing.
LEMMA RemoveMarkerKeeps == ASSUME IInv, RemoveMarker PROVE IInv' /\ Stays
<1>1. /\ step = "closed" /\ step' = "idle" /\ finalized' = TRUE
      /\ disk' = [disk EXCEPT ![directory].marker = FALSE]
      /\ UNCHANGED <<directory, streams, outputOpen, haveState>>
  BY DEF RemoveMarker
<1>2. TypeOK /\ directory \in Dirs /\ ~outputOpen /\ disk \in [Dirs -> Directory]
  BY <1>1 DEF IInv, TypeOK
<1>3. /\ disk' \in [Dirs -> Directory]
      /\ \A d \in Dirs : d # directory => disk'[d] = disk[d]
      /\ disk'[directory].hasState = disk[directory].hasState
      /\ disk'[directory].damaged = disk[directory].damaged
  BY <1>1, <1>2 DEF Directory
<1>4. Stays
  BY <1>1, <1>3, CompleteIsElsewhere DEF Stays
<1>5. MarkerProtects'
  <2>1. ASSUME NEW d \in Dirs, Complete(d)' PROVE disk'[d].hasState /\ disk'[d].damaged = {}
    <3>1. CASE d = directory
      BY <1>1, <1>3, <3>1 DEF IInv, Halfway
    <3>2. CASE d # directory
      BY <1>3, <2>1, <3>2 DEF IInv, MarkerProtects, Complete
    <3>. QED BY <3>1, <3>2
  <2>. QED BY <2>1 DEF MarkerProtects
<1>6. TypeOK'
  BY <1>1, <1>2, <1>3 DEF TypeOK
<1>7. OpenRun' /\ Halfway'
  BY <1>1, <1>2 DEF OpenRun, Halfway
<1>. QED BY <1>4, <1>5, <1>6, <1>7 DEF IInv

LEMMA RemoveMarkerFailsKeeps == ASSUME IInv, RemoveMarkerFails PROVE IInv' /\ Stays
<1>1. /\ step' = "idle"
      /\ UNCHANGED <<disk, directory, streams, outputOpen, finalized, haveState>>
  BY DEF RemoveMarkerFails
<1>2. TypeOK'
  BY <1>1 DEF IInv, TypeOK
<1>3. OpenRun' /\ Halfway' /\ MarkerProtects' /\ Stays
  BY <1>1 DEF IInv, OpenRun, NothingFailed, Halfway, MarkerProtects, Complete, Stays
<1>. QED BY <1>2, <1>3 DEF IInv

LEMMA CrashKeeps == ASSUME IInv, Crash PROVE IInv' /\ Stays
<1>1. /\ disk' = Damage({f \in Files : streams[f].pending})
      /\ directory' = NoDirectory /\ streams' = [f \in Files |-> Closed]
      /\ outputOpen' = FALSE /\ finalized' = FALSE /\ haveState' = FALSE /\ step' = "idle"
  BY DEF Crash
<1>2. {f \in Files : streams[f].pending} \in SUBSET Files
  OBVIOUS
<1>3. disk' \in [Dirs -> Directory] /\ Stays /\ MarkerProtects'
  BY <1>1, <1>2, DamageStays DEF Stays
<1>4. /\ streams' \in [Files -> Stream]
      /\ \A f \in Files : streams'[f].open = FALSE /\ streams'[f].pending = FALSE
  BY <1>1 DEF Closed, Stream
<1>5. TypeOK'
  BY <1>1, <1>3, <1>4 DEF TypeOK
<1>6. OpenRun' /\ Halfway'
  BY <1>1 DEF OpenRun, Halfway
<1>. QED BY <1>3, <1>5, <1>6 DEF IInv

\* Every step keeps the invariant and leaves complete runs alone.
LEMMA NextKeeps == ASSUME IInv, [Next]_vars PROVE IInv' /\ Stays
<1>1. ASSUME NEW d \in Dirs, OpenMarker(d) PROVE IInv' /\ Stays
  BY <1>1, OpenMarkerKeeps
<1>2. ASSUME NEW d \in Dirs, OpenMarkerFails(d) PROVE IInv' /\ Stays
  BY <1>2, OpenMarkerFailsKeeps
<1>3. CASE WriteDiagnostics \/ Log
  <2>1. "diagnostics" \in Files /\ "log" \in Files
    BY DEF Files
  <2>. QED BY <1>3, <2>1, WriteToKeeps DEF WriteDiagnostics, Log
<1>4. CASE UNCHANGED vars
  <2>1. IInv'
    BY <1>4 DEF vars, members, IInv, TypeOK, OpenRun, NothingFailed, Halfway, MarkerProtects, Complete
  <2>. QED BY <1>4, <2>1 DEF vars, Stays
<1>5. CASE OpenFiles \/ OpenFilesFails \/ WriteState
  BY <1>5, OpenFilesKeeps, OpenFilesFailsKeeps, WriteStateKeeps
<1>6. CASE Close \/ Finalize \/ RemoveMarker \/ RemoveMarkerFails \/ Crash
  BY <1>6, CloseKeeps, FinalizeKeeps, RemoveMarkerKeeps, RemoveMarkerFailsKeeps, CrashKeeps
<1>. QED BY <1>1, <1>2, <1>3, <1>4, <1>5, <1>6 DEF Next

LEMMA Invariance == Spec => []IInv
<1>1. IInv /\ [Next]_vars => IInv'
  BY NextKeeps
<1>. QED BY InitIInv, <1>1, PTL DEF Spec

\* The members keep their types, and the four streams are open together or not at
\* all (lines 80-163 and 336-391).
THEOREM TypeCorrect == Spec => []TypeOK
BY Invariance, PTL DEF IInv

\* A directory without its marker holds a complete run, whatever failed and wherever
\* the process died, for any number of directories (lines 116-126 and 393-428).
THEOREM MarkerCorrect == Spec => []MarkerProtects
BY Invariance, PTL DEF IInv

\* A complete run is never changed again (lines 85-92 and 395-424).
THEOREM CompleteIsFinal == Spec => CompletedRunsStay
<1>1. IInv /\ [Next]_vars => [\A d \in Dirs : Complete(d) => disk'[d] = disk[d]]_vars
  BY NextKeeps DEF Stays
<1>. QED BY <1>1, Invariance, PTL DEF Spec, CompletedRunsStay

=============================================================================
