------------------------- MODULE TrackingHealthGate -------------------------
(***************************************************************************)
(* The tracking-health gate (src/src/tracking_health.cpp), which judges    *)
(* from the number of visual tracks of successive estimator states whether *)
(* tracking is healthy.  It has no clock: time is what the states' time-   *)
(* stamps say, here whole numbers, so that sums and differences of times   *)
(* are exact.  Of the number of tracks only the comparison with the        *)
(* configured minimum is kept.                                             *)
(*                                                                         *)
(* The module has no next-state relation of its own: the estimator adapter *)
(* calls update() for every state it extracts, and so the application that *)
(* feeds the estimator extends this module.                                *)
(***************************************************************************)
EXTENDS Integers, Sequences

CONSTANTS
  MaxSampleGap,     \* maximum_sample_gap_s
  DegradeAfter,     \* degrade_after_s
  RecoverAfter,     \* recover_after_s
  WarmupTimeout     \* warmup_timeout_s

\* The constructor refuses anything else.
ASSUME GateAssumption ==
  {MaxSampleGap, DegradeAfter, RecoverAfter, WarmupTimeout} \subseteq Nat \ {0}

VARIABLES
  enabled,          \* config_.enabled
  status,           \* status_
  previous,         \* previous_timestamp_
  good, bad,        \* good_duration_s_, bad_duration_s_
  evaluation,       \* evaluation_duration_s_
  evidence          \* history: the samples update() accepted

durations == <<good, bad, evaluation>>
gate      == <<enabled, status, previous, durations, evidence>>

\* An empty std::optional<double>; smaller than every timestamp.
NoTime == -1

GateInit ==
  /\ enabled \in BOOLEAN
  /\ status = IF enabled THEN "warming_up" ELSE "disabled"
  /\ previous = NoTime
  /\ good = 0 /\ bad = 0 /\ evaluation = 0
  /\ evidence = <<>>

----------------------------------------------------------------------------
(* update.  Definitions marked "Faulty" are plausible slips in the code    *)
(* that only the mutation runs use.                                        *)

Started == enabled /\ previous # NoTime

Gap(t) == t - previous > MaxSampleGap

\* The first sample, or any sample of a gate that is switched off, is only noted.
Note ==
  /\ ~Started
  /\ UNCHANGED <<status, durations>>

\* Evidence is not carried across a gap.
StartAgain(t) ==
  /\ Started /\ Gap(t)
  /\ status' = "warming_up"
  /\ good' = 0 /\ bad' = 0 /\ evaluation' = 0

\* Warming up does not go on for ever.
TimedOut(judged, evaluated) ==
  IF judged = "warming_up" /\ evaluated >= WarmupTimeout THEN "degraded" ELSE judged

\* Faulty: weak samples interrupt the good ones without ending them.
SupportKept(elapsed) ==
  /\ good' = good + elapsed
  /\ bad' = bad
  /\ status' = TimedOut(IF good' >= RecoverAfter THEN "healthy" ELSE status, evaluation')

\* The time since the previous sample counts for what this one shows.
Support(elapsed) ==
  /\ good' = good + elapsed
  /\ bad' = 0
  /\ status' = TimedOut(IF good' >= RecoverAfter THEN "healthy" ELSE status, evaluation')

Weakness(elapsed) ==
  /\ bad' = bad + elapsed
  /\ good' = 0
  /\ status' = TimedOut(IF bad' >= DegradeAfter THEN "degraded" ELSE status, evaluation')

Judge(t, supported) ==
  /\ Started /\ ~Gap(t)
  /\ evaluation' = evaluation + (t - previous)
  /\ IF supported THEN Support(t - previous) ELSE Weakness(t - previous)

\* update() of a sample that comes after the previous one.  Any other throws.
Update(t, supported) ==
  /\ Started => t > previous
  /\ Note \/ StartAgain(t) \/ Judge(t, supported)
  /\ previous' = t
  /\ evidence' = Append(evidence, [time |-> t, supported |-> supported])
  /\ UNCHANGED enabled

----------------------------------------------------------------------------
(* What the status must be, from the evidence alone                        *)

\* The samples from s on follow each other without a gap, and none before does.
Segment(samples, s) ==
  /\ s > 1 => samples[s].time - samples[s - 1].time > MaxSampleGap
  /\ \A k \in (s + 1)..Len(samples) :
       samples[k].time - samples[k - 1].time <= MaxSampleGap

\* From sample i to sample j, for the time given, nothing but this was seen.
Lasted(samples, supported, time, i, j) ==
  /\ samples[j].time - samples[i].time >= time
  /\ \A k \in (i + 1)..j : samples[k].supported = supported

Recovered(samples, s, j) == \E i \in s..(j - 1) : Lasted(samples, TRUE, RecoverAfter, i, j)
Degraded(samples, s, j)  == \E i \in s..(j - 1) : Lasted(samples, FALSE, DegradeAfter, i, j)

\* What the newest conclusive sample of the segment says.  Without one it is
\* warming up, unless that took too long.
Deserves(samples, s, verdict) ==
  LET n == Len(samples)
  IN  CASE verdict = "healthy" ->
             \E j \in (s + 1)..n :
               Recovered(samples, s, j) /\ \A k \in (j + 1)..n : ~Degraded(samples, s, k)
        [] verdict = "degraded" ->
             \/ \E j \in (s + 1)..n :
                  Degraded(samples, s, j) /\ \A k \in (j + 1)..n : ~Recovered(samples, s, k)
             \/ /\ samples[n].time - samples[s].time >= WarmupTimeout
                /\ \A j \in (s + 1)..n : ~Recovered(samples, s, j)
        [] OTHER ->
             /\ samples[n].time - samples[s].time < WarmupTimeout
             /\ \A j \in (s + 1)..n : ~Recovered(samples, s, j) /\ ~Degraded(samples, s, j)

Statuses == {"disabled", "warming_up", "healthy", "degraded"}

GateTypeOK ==
  /\ enabled \in BOOLEAN /\ status \in Statuses
  /\ {good, bad, evaluation} \subseteq Nat
  /\ evidence \in Seq([time : Nat, supported : BOOLEAN])
  /\ previous = IF evidence = <<>> THEN NoTime ELSE evidence[Len(evidence)].time

\* config/estimator/README.md:101-105: the status is healthy after continuous support
\* and degraded after continuous weakness, each for its time, or when warming up took
\* too long.  The newest of these counts, and a gap ends them all: what update()
\* computes from three durations (lines 97-133) agrees with the samples themselves.
StatusIsDeserved ==
  /\ enabled =>
       IF evidence = <<>> THEN status = "warming_up"
       ELSE \A s \in 1..Len(evidence) : Segment(evidence, s) => Deserves(evidence, s, status)
  /\ enabled <=> status # "disabled"

=============================================================================
