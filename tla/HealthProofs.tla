---------------------------- MODULE HealthProofs ----------------------------
(***************************************************************************)
(* Proofs about Health, for any sources, keys and reports, any number of   *)
(* evaluators and workers, any policy that the schema admits, and any      *)
(* number of cycles, decisions and incidents.                              *)
(***************************************************************************)
EXTENDS Health, FiniteSetTheorems, SequenceTheorems, TLAPS

-----------------------------------------------------------------------------
(* The inductive invariant, in named parts.                                *)

\* The evidence: finitely many rows of the right type.
EvidenceOK ==
    /\ now \in 1..MaxNow
    /\ credential \in [Sources -> {"held", "issued", "none"}]
    /\ results \subseteq Result /\ IsFiniteSet(results)
    /\ consumed \subseteq results

\* The state row: a HEALTHY route is selectable, a QUARANTINED one is not.
StateOK ==
    /\ policy \in BOOLEAN
    /\ current \subseteq Evaluators
    /\ st \in State
    /\ st.status = "HEALTHY" => ~st.excluded
    /\ st.status = "QUARANTINED" => st.excluded

Cycles == {decisions[i].cycle : i \in DOMAIN decisions}

\* The decisions so far; their cycles have a greatest one, which LastCycle is.
DecisionsOK ==
    /\ decisions \in Seq(Decision)
    /\ \A i \in DOMAIN decisions : decisions[i].at <= now
    /\ \E m \in Cycles \cup {0} : \A d \in Cycles : d <= m

\* The incidents and the workers' transactions refer to decisions that exist.
ActingOK ==
    /\ incidents \in Seq(Incident)
    /\ task \in [Workers -> [decision : Nat, found : BOOLEAN]]
    /\ \A i \in DOMAIN incidents : incidents[i].decision \in DOMAIN decisions
    /\ \A w \in Workers : task[w] = Idle \/ task[w].decision \in DOMAIN decisions

\* A worker that found no incident is the only one at work on its decision, and
\* there is still none.
TaskHeld ==
    \A w \in Workers : task[w] # Idle =>
        /\ \A x \in Workers : task[x].decision = task[w].decision => x = w
        /\ ~task[w].found => \A i \in DOMAIN incidents : incidents[i].decision # task[w].decision

\* The state's cooldown covers every recovery so far.
CooldownCovers ==
    \A i \in DOMAIN decisions :
        decisions[i].reason = "RECOVERY_CONFIRMED" => st.cooldown >= decisions[i].at + Cooldown

\* The decided cycles since the last one with one of the verdicts for which a
\* quorum shows one of the outcomes.
Series(outcomes, verdicts) ==
    {c \in Cycles : /\ c # 0 /\ \E o \in outcomes : Shows(c, o)
                    /\ \A d \in DecidedBefore(Len(decisions) + 1, verdicts) : c > d}

\* What the failures and the recoveries of the state row may count.
FailedSeries == Series(Classes, {"SUCCESS"})
SuccessSeries == Series({"SUCCESS"}, Verdicts \ {"SUCCESS"})

\* The counters of the state row count different decided cycles, each backed by
\* a quorum, and the recovery window starts at one of them.
CountersBacked ==
    /\ st.failures <= Cardinality(FailedSeries)
    /\ st.recoveries <= Cardinality(SuccessSeries)
    /\ st.window # 0 => st.window \in SuccessSeries

\* The trusted cycles that back decision i.
Backing(i, outcomes, verdicts) ==
    {c \in 1..decisions[i].cycle : /\ \E o \in outcomes : Shows(c, o)
                                   /\ \A d \in DecidedBefore(i, verdicts) : c > d}

\* ExclusionIsBacked and RecoveryIsBacked in terms of Backing.
ExclusionBacked ==
    \A i \in DOMAIN decisions : decisions[i].reason = "EXCLUSION_THRESHOLD_REACHED" =>
        Cardinality(Backing(i, Classes, {"SUCCESS"})) >= ExcludeCycles

RecoveryBacked ==
    \A i \in DOMAIN decisions : decisions[i].reason = "RECOVERY_CONFIRMED" =>
        /\ Cardinality(Backing(i, {"SUCCESS"}, Verdicts \ {"SUCCESS"})) >= RecoveryCycles
        /\ \E c \in Backing(i, {"SUCCESS"}, Verdicts \ {"SUCCESS"}) :
              decisions[i].at - c >= RecoveryMinimum

\* What the decisions rest on.
Ruling == /\ EvidenceOK /\ StateOK /\ DecisionsOK
          /\ CooldownCovers /\ CooldownHolds
          /\ CountersBacked /\ ExclusionBacked /\ RecoveryBacked

\* What the decisions lead to.
Acting == ActingOK /\ TaskHeld /\ MaterializedOnce /\ ResolvedIsSettled

IndInv == Ruling /\ Acting

-----------------------------------------------------------------------------
(* What the evaluation of a cycle computes.                                *)

\* The state row of a route: the conjuncts of StateOK about it.
RowOK(s) == /\ s \in State
            /\ s.status = "HEALTHY" => ~s.excluded
            /\ s.status = "QUARANTINED" => s.excluded

\* What every evaluation guarantees about the row it was given and returns.
Sound(s, o) ==
    /\ RowOK(o.state)
    /\ o.reason \in Reasons \ {"CRITICAL_TRUST_FAILURE"}
    /\ s.status = "QUARANTINED" => o.state.status = "QUARANTINED"

\* A failed cycle counts one failure more and ends a series of recoveries.
CountsFailure(s, o) ==
    /\ o.state.failures = s.failures + 1
    /\ o.state.recoveries = 0 /\ o.state.window = 0
    /\ o.state.cooldown = s.cooldown
    /\ o.reason = "EXCLUSION_THRESHOLD_REACHED" => s.failures + 1 >= ExcludeCycles
    /\ o.reason # "RECOVERY_CONFIRMED"

\* A successful cycle ends a series of failures and counts one recovery, or is
\* the recovery and starts the cooldown.
CountsSuccess(s, c, o) ==
    /\ o.state.failures = 0
    /\ o.state.recoveries <= s.recoveries + 1
    /\ o.state.window \in {0, c, s.window}
    /\ o.reason # "EXCLUSION_THRESHOLD_REACHED"
    /\ o.reason # "RECOVERY_CONFIRMED" => o.state.cooldown = s.cooldown \/ o.state.cooldown = now + Cooldown
    /\ o.reason = "RECOVERY_CONFIRMED" =>
          /\ o.state.cooldown = now + Cooldown
          /\ s.recoveries + 1 >= RecoveryCycles
          /\ now - (IF s.window = 0 THEN c ELSE s.window) >= RecoveryMinimum

\* Any other cycle keeps the failures and ends a series of recoveries.
CountsUncertain(s, o) ==
    /\ o.state.failures = s.failures
    /\ o.state.recoveries = 0 /\ o.state.window = 0
    /\ o.state.cooldown = s.cooldown
    /\ o.reason \notin {"EXCLUSION_THRESHOLD_REACHED", "RECOVERY_CONFIRMED"}

\* A row with its fields.
LEMMA RowFields ==
  ASSUME NEW s, s \in State
  PROVE  /\ s = [status |-> s.status, excluded |-> s.excluded, failures |-> s.failures,
                 recoveries |-> s.recoveries, window |-> s.window, uncertain |-> s.uncertain,
                 cooldown |-> s.cooldown]
         /\ s.status \in Statuses /\ s.excluded \in BOOLEAN /\ s.failures \in Nat
         /\ s.recoveries \in Nat /\ s.window \in 0..MaxNow /\ s.uncertain \in Nat
         /\ s.cooldown \in Nat
  BY DEF State

\* A failed cycle.
LEMMA FailureOutcome ==
  ASSUME NEW s, RowOK(s)
  PROVE  Sound(s, AfterFailure(s)) /\ CountsFailure(s, AfterFailure(s))
<1> DEFINE n == s.failures + 1
           status == IF n >= DegradedCycles THEN AtLeastDegraded(s.status) ELSE s.status
           excluded == s.excluded \/ n >= ExcludeCycles
           o == AfterFailure(s)
<1>1. s \in State /\ (s.status = "HEALTHY" => ~s.excluded) /\ (s.status = "QUARANTINED" => s.excluded)
  BY DEF RowOK
<1>2. /\ s.status \in Statuses /\ s.excluded \in BOOLEAN /\ s.failures \in Nat
      /\ s.recoveries \in Nat /\ s.window \in 0..MaxNow /\ s.uncertain \in Nat
      /\ s.cooldown \in Nat
  BY <1>1, RowFields
<1>3. /\ DegradedCycles \in Nat /\ ExcludeCycles \in Nat /\ DegradedCycles < ExcludeCycles
      /\ MaxNow \in Nat
  BY PolicyAssumption, EvidenceAssumption
<1>4. /\ o.state.status = status /\ o.state.excluded = excluded
      /\ o.state.failures = n /\ o.state.recoveries = 0 /\ o.state.window = 0
      /\ o.state.uncertain = 0 /\ o.state.cooldown = s.cooldown
      /\ o.state \in [status : {status}, excluded : {excluded},
                      failures : {n}, recoveries : {0}, window : {0}, uncertain : {0},
                      cooldown : {s.cooldown}]
  BY <1>1 DEF AfterFailure, State
<1>5. o.reason = IF n >= ExcludeCycles THEN "EXCLUSION_THRESHOLD_REACHED"
                 ELSE IF n >= DegradedCycles THEN "FAILURE_THRESHOLD_REACHED"
                 ELSE "FAILED_CYCLE_OBSERVED"
  BY DEF AfterFailure
<1>6. status \in Statuses /\ (status = "HEALTHY" => s.status = "HEALTHY" /\ n < DegradedCycles)
      /\ (status = "QUARANTINED" <=> s.status = "QUARANTINED")
  BY <1>2, <1>3 DEF AtLeastDegraded, Statuses
<1>7. n \in Nat
  BY <1>2
<1>8. /\ excluded \in BOOLEAN
      /\ status = "HEALTHY" => ~excluded
      /\ status = "QUARANTINED" => excluded
  <2>1. excluded \in BOOLEAN
    OBVIOUS
  <2>2. status = "HEALTHY" => ~s.excluded /\ ~(n >= ExcludeCycles)
    <3> HIDE DEF n, status
    <3>1. QED
      BY <1>1, <1>3, <1>6, <1>7
  <2>3. QED
    BY <1>1, <1>6, <2>1, <2>2
<1> HIDE DEF o, n, status, excluded
<1>9. o.state \in State
  BY <1>2, <1>3, <1>4, <1>6, <1>7, <1>8 DEF State
<1>10. RowOK(o.state)
  BY <1>4, <1>8, <1>9 DEF RowOK
<1>11. Sound(s, o)
  BY <1>4, <1>5, <1>6, <1>10 DEF Sound, Reasons
<1>12. CountsFailure(s, o)
  BY <1>4, <1>5 DEF CountsFailure, n
<1>13. QED
  BY <1>11, <1>12 DEF o

\* A mixed or unknown cycle.
LEMMA UncertainOutcome ==
  ASSUME NEW s, RowOK(s), NEW verdict
  PROVE  Sound(s, AfterUncertainty(s, verdict)) /\ CountsUncertain(s, AfterUncertainty(s, verdict))
<1> DEFINE n == s.uncertain + 1
           status == IF n >= UncertainCycles THEN AtLeastDegraded(s.status) ELSE s.status
           o == AfterUncertainty(s, verdict)
<1>1. s \in State /\ (s.status = "HEALTHY" => ~s.excluded) /\ (s.status = "QUARANTINED" => s.excluded)
  BY DEF RowOK
<1>2. /\ s.status \in Statuses /\ s.excluded \in BOOLEAN /\ s.failures \in Nat
      /\ s.recoveries \in Nat /\ s.window \in 0..MaxNow /\ s.uncertain \in Nat
      /\ s.cooldown \in Nat /\ MaxNow \in Nat /\ n \in Nat
  BY <1>1, RowFields, EvidenceAssumption
<1>3. /\ o.state.status = status /\ o.state.excluded = s.excluded
      /\ o.state.failures = s.failures /\ o.state.recoveries = 0 /\ o.state.window = 0
      /\ o.state.uncertain = n /\ o.state.cooldown = s.cooldown
      /\ o.state \in [status : {status}, excluded : {s.excluded}, failures : {s.failures},
                      recoveries : {0}, window : {0}, uncertain : {n}, cooldown : {s.cooldown}]
  BY <1>1 DEF AfterUncertainty, State
<1>4. o.reason \in {"UNCERTAINTY_THRESHOLD_REACHED", "MIXED_CYCLE", "UNKNOWN_CYCLE"}
  BY DEF AfterUncertainty
<1>5. status \in Statuses /\ (status = "HEALTHY" => s.status = "HEALTHY")
      /\ (status = "QUARANTINED" <=> s.status = "QUARANTINED")
  BY <1>2 DEF AtLeastDegraded, Statuses
<1> HIDE DEF o, n, status
<1>6. o.state \in State
  BY <1>2, <1>3, <1>5 DEF State
<1>7. RowOK(o.state)
  BY <1>1, <1>3, <1>5, <1>6 DEF RowOK
<1>8. Sound(s, o)
  BY <1>3, <1>4, <1>5, <1>7 DEF Sound, Reasons
<1>9. CountsUncertain(s, o)
  BY <1>3, <1>4 DEF CountsUncertain
<1>10. QED
  BY <1>8, <1>9 DEF o

\* A successful cycle.
LEMMA SuccessOutcome ==
  ASSUME NEW s, RowOK(s), NEW c \in 1..MaxNow, now \in 1..MaxNow,
         NEW fresh \in BOOLEAN, NEW gates \in BOOLEAN
  PROVE  /\ Sound(s, AfterSuccess(s, c, fresh, gates))
         /\ CountsSuccess(s, c, AfterSuccess(s, c, fresh, gates))
<1> DEFINE clean == [s EXCEPT !.failures = 0, !.uncertain = 0]
           window == IF s.window = 0 THEN c ELSE s.window
           counted == [clean EXCEPT !.recoveries = @ + 1, !.window = IF @ = 0 THEN c ELSE @]
           o == AfterSuccess(s, c, fresh, gates)
<1>1. s \in State /\ (s.status = "HEALTHY" => ~s.excluded) /\ (s.status = "QUARANTINED" => s.excluded)
  BY DEF RowOK
<1>2. /\ s.status \in Statuses /\ s.excluded \in BOOLEAN /\ s.failures \in Nat
      /\ s.recoveries \in Nat /\ s.window \in 0..MaxNow /\ s.uncertain \in Nat
      /\ s.cooldown \in Nat /\ MaxNow \in Nat /\ window \in 1..MaxNow /\ now + Cooldown \in Nat
  BY <1>1, RowFields, EvidenceAssumption, PolicyAssumption
<1>3. /\ clean \in State /\ clean.status = s.status /\ clean.excluded = s.excluded
      /\ clean.failures = 0 /\ clean.recoveries = s.recoveries /\ clean.window = s.window
      /\ clean.cooldown = s.cooldown
  BY <1>1 DEF State
<1>4. /\ counted \in State /\ counted.status = s.status /\ counted.excluded = s.excluded
      /\ counted.failures = 0 /\ counted.recoveries = s.recoveries + 1 /\ counted.window = window
      /\ counted.cooldown = s.cooldown
  <2>1. counted = [clean EXCEPT !.recoveries = s.recoveries + 1, !.window = window]
    BY <1>1 DEF State
  <2>2. s.recoveries + 1 \in Nat /\ window \in 0..MaxNow
    BY <1>2
  <2> HIDE DEF clean, window, counted
  <2>3. QED
    BY <1>3, <2>1, <2>2 DEF State
<1>5. CASE s.status = "HEALTHY"
  <2>1. o.state = [clean EXCEPT !.recoveries = 0, !.window = 0] /\ o.reason = "SUCCESS_CONFIRMED"
    BY <1>5 DEF AfterSuccess
  <2> HIDE DEF clean, counted, o
  <2>2. /\ o.state \in State /\ o.state.status = "HEALTHY" /\ o.state.excluded = s.excluded
        /\ o.state.failures = 0 /\ o.state.recoveries = 0 /\ o.state.window = 0
        /\ o.state.cooldown = s.cooldown
    <3>0. 0 \in 0..MaxNow /\ 0 \in Nat /\ clean \in State
      BY <1>2, <1>3
    <3>1. o.state \in State
      BY <2>1, <3>0 DEF State
    <3>2. /\ o.state.status = clean.status /\ o.state.excluded = clean.excluded
          /\ o.state.failures = clean.failures /\ o.state.recoveries = 0 /\ o.state.window = 0
          /\ o.state.cooldown = clean.cooldown
      BY <1>3, <2>1 DEF State
    <3>3. QED
      BY <1>3, <1>5, <3>1, <3>2
  <2>3. Sound(s, o)
    BY <1>1, <1>5, <2>1, <2>2 DEF Sound, RowOK, Reasons
  <2>4. CountsSuccess(s, c, o)
    BY <1>2, <2>1, <2>2 DEF CountsSuccess
  <2>5. QED
    BY <2>3, <2>4 DEF o
<1>6. CASE s.status # "HEALTHY" /\ Recovers(counted, fresh, gates)
  <2>1. /\ o.state = [counted EXCEPT !.status = "HEALTHY", !.excluded = FALSE, !.recoveries = 0,
                                     !.window = 0, !.cooldown = now + Cooldown]
        /\ o.reason = "RECOVERY_CONFIRMED"
    BY <1>6 DEF AfterSuccess
  <2> HIDE DEF clean, counted, o
  <2>2. /\ o.state \in State /\ o.state.status = "HEALTHY" /\ ~o.state.excluded
        /\ o.state.failures = 0 /\ o.state.recoveries = 0 /\ o.state.window = 0
        /\ o.state.cooldown = now + Cooldown
    <3>1. /\ o.state.status = "HEALTHY" /\ o.state.excluded = FALSE
          /\ o.state.failures = counted.failures /\ o.state.recoveries = 0 /\ o.state.window = 0
          /\ o.state.cooldown = now + Cooldown
      BY <1>4, <2>1 DEF State
    <3>0. /\ 0 \in 0..MaxNow /\ 0 \in Nat /\ counted \in State /\ "HEALTHY" \in Statuses
          /\ FALSE \in BOOLEAN /\ now + Cooldown \in Nat
      BY <1>2, <1>4 DEF Statuses
    <3>2. o.state \in State
      BY <2>1, <3>0 DEF State
    <3>3. QED
      BY <1>4, <3>1, <3>2
  <2>3. /\ s.status # "QUARANTINED" /\ s.recoveries + 1 >= RecoveryCycles
        /\ now - window >= RecoveryMinimum
    BY <1>4, <1>6 DEF Recovers
  <2>4. Sound(s, o)
    BY <2>1, <2>2, <2>3 DEF Sound, RowOK, Reasons
  <2>5. CountsSuccess(s, c, o)
    BY <1>2, <2>1, <2>2, <2>3 DEF CountsSuccess
  <2>6. QED
    BY <2>4, <2>5 DEF o
<1>7. CASE s.status # "HEALTHY" /\ ~Recovers(counted, fresh, gates)
  <2>1. o.state = counted /\ o.reason = "RECOVERY_PENDING"
    BY <1>7 DEF AfterSuccess
  <2> HIDE DEF clean, counted, o
  <2>2. Sound(s, o)
    BY <1>1, <1>4, <2>1 DEF Sound, RowOK, Reasons
  <2>3. CountsSuccess(s, c, o)
    BY <1>2, <1>4, <2>1 DEF CountsSuccess
  <2>4. QED
    BY <2>2, <2>3 DEF o
<1>8. QED
  BY <1>5, <1>6, <1>7

\* A stale heartbeat degrades a healthy row and changes no counter.
LEMMA StaleOutcome ==
  ASSUME NEW s, NEW o, Sound(s, o), NEW fresh
  PROVE  /\ Sound(s, StaleCheck(o, fresh))
         /\ StaleCheck(o, fresh).state.failures = o.state.failures
         /\ StaleCheck(o, fresh).state.recoveries = o.state.recoveries
         /\ StaleCheck(o, fresh).state.window = o.state.window
         /\ StaleCheck(o, fresh).state.cooldown = o.state.cooldown
         /\ StaleCheck(o, fresh).reason \in {o.reason, "STALE_HEARTBEAT"}
<1>1. CASE ~(~fresh /\ o.state.status = "HEALTHY")
  BY <1>1 DEF StaleCheck
<1>2. CASE ~fresh /\ o.state.status = "HEALTHY"
  <2> DEFINE x == StaleCheck(o, fresh)
  <2>1. x.state = [o.state EXCEPT !.status = "DEGRADED"] /\ x.reason = "STALE_HEARTBEAT"
    BY <1>2 DEF StaleCheck
  <2>2. o.state \in State /\ "DEGRADED" \in Statuses
    BY DEF Sound, RowOK, Statuses
  <2>3. /\ x.state \in State /\ x.state.status = "DEGRADED"
        /\ x.state.failures = o.state.failures /\ x.state.recoveries = o.state.recoveries
        /\ x.state.window = o.state.window /\ x.state.cooldown = o.state.cooldown
    BY <2>1, <2>2 DEF State
  <2>4. s.status # "QUARANTINED"
    BY <1>2 DEF Sound
  <2> HIDE DEF x
  <2>5. Sound(s, x)
    BY <2>1, <2>3, <2>4 DEF Sound, RowOK, Reasons
  <2>6. QED
    BY <2>1, <2>3, <2>5 DEF x
<1>3. QED
  BY <1>1, <1>2

\* evaluateHealthCycle as a whole.
LEMMA EvaluateOutcome ==
  ASSUME NEW s, RowOK(s), NEW c \in 1..MaxNow, now \in 1..MaxNow, NEW verdict \in Verdicts,
         NEW fresh \in BOOLEAN, NEW gates \in BOOLEAN
  PROVE  /\ Sound(s, Evaluate(s, c, verdict, fresh, gates))
         /\ verdict = "FAILED" => CountsFailure(s, Evaluate(s, c, verdict, fresh, gates))
         /\ verdict = "SUCCESS" => CountsSuccess(s, c, Evaluate(s, c, verdict, fresh, gates))
         /\ verdict \notin {"FAILED", "SUCCESS"}
                => CountsUncertain(s, Evaluate(s, c, verdict, fresh, gates))
<1> DEFINE x == Evaluate(s, c, verdict, fresh, gates)
<1>1. CASE verdict = "FAILED"
  <2> DEFINE o == AfterFailure(s)
  <2>1. x = StaleCheck(o, fresh)
    BY <1>1 DEF Evaluate
  <2>2. Sound(s, o) /\ CountsFailure(s, o)
    BY FailureOutcome
  <2> HIDE DEF o, x
  <2>3. /\ Sound(s, x) /\ x.state.failures = o.state.failures /\ x.state.recoveries = o.state.recoveries
        /\ x.state.window = o.state.window /\ x.state.cooldown = o.state.cooldown
        /\ x.reason \in {o.reason, "STALE_HEARTBEAT"}
    BY <2>1, <2>2, StaleOutcome
  <2>4. CountsFailure(s, x)
    BY <2>2, <2>3 DEF CountsFailure
  <2>5. QED
    BY <1>1, <2>3, <2>4 DEF x
<1>2. CASE verdict = "SUCCESS"
  <2> DEFINE o == AfterSuccess(s, c, fresh, gates)
  <2>1. x = StaleCheck(o, fresh)
    BY <1>2 DEF Evaluate
  <2>2. Sound(s, o) /\ CountsSuccess(s, c, o)
    BY SuccessOutcome
  <2> HIDE DEF o, x
  <2>3. /\ Sound(s, x) /\ x.state.failures = o.state.failures /\ x.state.recoveries = o.state.recoveries
        /\ x.state.window = o.state.window /\ x.state.cooldown = o.state.cooldown
        /\ x.reason \in {o.reason, "STALE_HEARTBEAT"}
    BY <2>1, <2>2, StaleOutcome
  <2>4. CountsSuccess(s, c, x)
    BY <2>2, <2>3 DEF CountsSuccess
  <2>5. QED
    BY <1>2, <2>3, <2>4 DEF x
<1>3. CASE verdict \notin {"FAILED", "SUCCESS"}
  <2> DEFINE o == AfterUncertainty(s, verdict)
  <2>1. x = StaleCheck(o, fresh)
    BY <1>3 DEF Evaluate
  <2>2. Sound(s, o) /\ CountsUncertain(s, o)
    BY UncertainOutcome
  <2> HIDE DEF o, x
  <2>3. /\ Sound(s, x) /\ x.state.failures = o.state.failures /\ x.state.recoveries = o.state.recoveries
        /\ x.state.window = o.state.window /\ x.state.cooldown = o.state.cooldown
        /\ x.reason \in {o.reason, "STALE_HEARTBEAT"}
    BY <2>1, <2>2, StaleOutcome
  <2>4. CountsUncertain(s, x)
    BY <2>2, <2>3 DEF CountsUncertain
  <2>5. QED
    BY <1>3, <2>3, <2>4 DEF x
<1>4. QED
  BY <1>1, <1>2, <1>3

-----------------------------------------------------------------------------
(* What a verdict says about the evidence.                                 *)

\* A quorum among the votes of a cycle is a quorum of independent sources.
LEMMA QuorumShows ==
  ASSUME NEW c, NEW v \in {r.version : r \in Reports},
         NEW inputs \in SUBSET Eligible(c, v), NEW votes \in Votes(inputs), NEW outcome,
         Count(votes, outcome) >= Quorum
  PROVE  Shows(c, outcome)
<1> DEFINE V == {r \in votes : r.outcome = outcome}
<1>1. votes \subseteq inputs /\ \A r, a \in votes : ~Duplicates(r, a)
  BY DEF Votes
<1>2. V \in SUBSET {r \in results : Trusted(r, c, v) /\ r.outcome = outcome}
  BY <1>1 DEF Eligible
<1>3. \A r, q \in V : r # q => r.source # q.source /\ r.key # q.key
  BY <1>1 DEF Duplicates
<1>4. Cardinality(V) >= Quorum
  BY DEF Count
<1>5. QED
  BY <1>2, <1>3, <1>4 DEF Shows

\* The verdicts that count are backed by a quorum.
LEMMA VerdictShows ==
  ASSUME NEW c, NEW v \in {r.version : r \in Reports},
         NEW inputs \in SUBSET Eligible(c, v), NEW votes \in Votes(inputs)
  PROVE  /\ Verdict(votes) \in Verdicts
         /\ Verdict(votes) = "FAILED" => \E class \in Classes : Shows(c, class)
         /\ Verdict(votes) = "SUCCESS" => Shows(c, "SUCCESS")
<1>1. Verdict(votes) \in Verdicts
  BY DEF Verdict, Verdicts
<1>2. Verdict(votes) = "FAILED" => \E class \in Classes : Count(votes, class) >= Quorum
  BY DEF Verdict
<1>3. Verdict(votes) = "SUCCESS" => Count(votes, "SUCCESS") >= Quorum
  BY DEF Verdict
<1>4. QED
  BY <1>1, <1>2, <1>3, QuorumShows

\* Later results take no quorum away.
LEMMA ShowsGrows ==
  ASSUME NEW c, NEW outcome, results \subseteq results', Shows(c, outcome)
  PROVE  Shows(c, outcome)'
<1>1. PICK v \in {r.version : r \in Reports} :
        \E rows \in SUBSET {r \in results : Trusted(r, c, v) /\ r.outcome = outcome} :
            /\ \A r, q \in rows : r # q => r.source # q.source /\ r.key # q.key
            /\ Cardinality(rows) >= Quorum
  BY DEF Shows
<1>2. PICK rows \in SUBSET {r \in results : Trusted(r, c, v) /\ r.outcome = outcome} :
        /\ \A r, q \in rows : r # q => r.source # q.source /\ r.key # q.key
        /\ Cardinality(rows) >= Quorum
  BY <1>1
<1>3. rows \in SUBSET {r \in results' : Trusted(r, c, v) /\ r.outcome = outcome}
  OBVIOUS
<1>4. QED
  BY <1>2, <1>3 DEF Shows, Trusted

-----------------------------------------------------------------------------
(* The ledger of decisions.                                                *)

\* Sets of decided cycles are finite.
LEMMA CyclesFinite ==
  /\ \A ds \in Seq(Decision) : {ds[i].cycle : i \in DOMAIN ds} \subseteq 0..MaxNow
  /\ \A S \in SUBSET (0..MaxNow) : IsFiniteSet(S) /\ Cardinality(S) \in Nat
<1>1. ASSUME NEW ds \in Seq(Decision) PROVE {ds[i].cycle : i \in DOMAIN ds} \subseteq 0..MaxNow
  <2>1. \A i \in DOMAIN ds : ds[i] \in Decision
    OBVIOUS
  <2>2. \A i \in DOMAIN ds : ds[i].cycle \in 0..MaxNow
    BY <2>1 DEF Decision
  <2>3. QED
    BY <2>2
<1>2. ASSUME NEW S \in SUBSET (0..MaxNow) PROVE IsFiniteSet(S) /\ Cardinality(S) \in Nat
  <2>1. IsFiniteSet(0..MaxNow)
    BY FS_Interval, EvidenceAssumption
  <2>2. IsFiniteSet(S)
    BY <2>1, FS_Subset
  <2>3. QED
    BY <2>2, FS_CardinalityType
<1>3. QED
  BY <1>1, <1>2

\* LastCycle is the greatest decided cycle.
LEMMA LastCycleIsLast ==
  ASSUME DecisionsOK
  PROVE  /\ Cycles \subseteq 0..MaxNow /\ LastCycle \in Nat
         /\ \A d \in Cycles : d <= LastCycle
<1>1. Cycles \subseteq 0..MaxNow
  BY CyclesFinite DEF DecisionsOK, Cycles
<1>2. LastCycle = CHOOSE c \in Cycles \cup {0} : \A d \in Cycles : d <= c
  BY DEF LastCycle, Cycles
<1>3. \E m \in Cycles \cup {0} : \A d \in Cycles : d <= m
  BY DEF DecisionsOK
<1>4. LastCycle \in Cycles \cup {0} /\ \A d \in Cycles : d <= LastCycle
  BY <1>2, <1>3
<1>5. QED
  BY <1>1, <1>4, EvidenceAssumption

\* One more decision: the others stay, and the new cycle is the greatest or
\* none.
Appends(d) ==
    /\ d \in Decision /\ d.at = now
    /\ d.cycle = 0 \/ d.cycle > LastCycle
    /\ decisions' = Append(decisions, d)

LEMMA AppendDecision ==
  ASSUME DecisionsOK, NEW d, Appends(d), now' = now
  PROVE  /\ Len(decisions) \in Nat /\ Len(decisions') = Len(decisions) + 1
         /\ DOMAIN decisions = 1..Len(decisions) /\ DOMAIN decisions' = 1..(Len(decisions) + 1)
         /\ decisions'[Len(decisions) + 1] = d
         /\ \A i \in DOMAIN decisions : decisions'[i] = decisions[i]
         /\ Cycles' = Cycles \cup {d.cycle}
         /\ DecisionsOK'
<1>1. decisions \in Seq(Decision) /\ d \in Decision /\ decisions' = Append(decisions, d)
  BY DEF DecisionsOK, Appends
<1>2. /\ Len(decisions) \in Nat /\ Len(decisions') = Len(decisions) + 1
      /\ decisions' \in Seq(Decision)
  BY <1>1
<1>3. DOMAIN decisions = 1..Len(decisions) /\ DOMAIN decisions' = 1..(Len(decisions) + 1)
  BY <1>1, <1>2
<1>4. /\ decisions'[Len(decisions) + 1] = d
      /\ \A i \in DOMAIN decisions : decisions'[i] = decisions[i]
  BY <1>1, <1>2, <1>3
<1>5. \A i \in DOMAIN decisions' : i \in DOMAIN decisions \/ i = Len(decisions) + 1
  BY <1>2, <1>3
<1>6. DOMAIN decisions \subseteq DOMAIN decisions' /\ Len(decisions) + 1 \in DOMAIN decisions'
  BY <1>2, <1>3
<1>7. Cycles' = Cycles \cup {d.cycle}
  BY <1>4, <1>5, <1>6 DEF Cycles
<1>8. \A i \in DOMAIN decisions' : decisions'[i].at <= now'
  <2>1. now \in Nat
    BY <1>1 DEF Appends, Decision
  <2>2. QED
    BY <1>4, <1>5, <2>1 DEF DecisionsOK, Appends
<1>9. \E m \in Cycles' \cup {0} : \A x \in Cycles' : x <= m
  <2>1. Cycles \subseteq 0..MaxNow /\ LastCycle \in Nat /\ \A x \in Cycles : x <= LastCycle
    BY LastCycleIsLast
  <2>2. d.cycle \in Nat
    BY <1>1, EvidenceAssumption DEF Decision
  <2>3. CASE d.cycle = 0
    <3>1. PICK m \in Cycles \cup {0} : \A x \in Cycles : x <= m
      BY DEF DecisionsOK
    <3>2. m \in Cycles' \cup {0} /\ m >= 0
      BY <1>7, <2>1, <3>1
    <3>3. QED
      BY <1>7, <2>3, <3>1, <3>2
  <2>4. CASE d.cycle > LastCycle
    <3>1. \A x \in Cycles' : x <= d.cycle
      BY <1>7, <2>1, <2>2, <2>4
    <3>2. QED
      BY <1>7, <3>1
  <2>5. QED
    BY <2>3, <2>4 DEF Appends
<1>10. QED
  BY <1>2, <1>3, <1>4, <1>7, <1>8, <1>9 DEF DecisionsOK

\* The past of a decision does not change.
LEMMA PastStays ==
  ASSUME DecisionsOK, NEW d, Appends(d), now' = now, NEW i \in 1..(Len(decisions) + 1), NEW verdicts
  PROVE  DecidedBefore(i, verdicts)' = DecidedBefore(i, verdicts)
<1>1. /\ Len(decisions) \in Nat /\ DOMAIN decisions = 1..Len(decisions)
      /\ \A k \in DOMAIN decisions : decisions'[k] = decisions[k]
  BY AppendDecision
<1>2. 1..(i - 1) \subseteq DOMAIN decisions
  BY <1>1
<1>3. QED
  BY <1>1, <1>2 DEF DecidedBefore

\* The past of the next decision has the new one, if it has such a verdict.
LEMMA PastGrows ==
  ASSUME DecisionsOK, NEW d, Appends(d), now' = now, NEW verdicts, d.verdict \notin verdicts
  PROVE  DecidedBefore(Len(decisions) + 1, verdicts)' = DecidedBefore(Len(decisions) + 1, verdicts)
<1>1. /\ Len(decisions) \in Nat /\ Len(decisions') = Len(decisions) + 1
      /\ DOMAIN decisions = 1..Len(decisions)
      /\ decisions'[Len(decisions) + 1] = d
      /\ \A k \in DOMAIN decisions : decisions'[k] = decisions[k]
  BY AppendDecision
<1> DEFINE old == {k \in 1..((Len(decisions) + 1) - 1) : decisions[k].verdict \in verdicts}
           new == {k \in 1..((Len(decisions') + 1) - 1) : decisions'[k].verdict \in verdicts}
<1>2. 1..((Len(decisions) + 1) - 1) = DOMAIN decisions
      /\ 1..((Len(decisions') + 1) - 1) = DOMAIN decisions \cup {Len(decisions) + 1}
  BY <1>1
<1>3. new = old
  BY <1>1, <1>2
<1>4. \A k \in old : decisions'[k].cycle = decisions[k].cycle
  BY <1>1, <1>2
<1>5. {decisions'[k].cycle : k \in new} = {decisions[k].cycle : k \in old}
  BY <1>3, <1>4
<1>6. QED
  BY <1>5 DEF DecidedBefore

\* A series is finite, before a step and after it.
LEMMA SeriesFinite ==
  ASSUME NEW outcomes, NEW verdicts
  PROVE  /\ DecisionsOK => /\ IsFiniteSet(Series(outcomes, verdicts))
                           /\ Cardinality(Series(outcomes, verdicts)) \in Nat
         /\ DecisionsOK' => /\ IsFiniteSet(Series(outcomes, verdicts)')
                            /\ Cardinality(Series(outcomes, verdicts)') \in Nat
<1>1. DecisionsOK => Series(outcomes, verdicts) \subseteq 0..MaxNow
  BY CyclesFinite DEF DecisionsOK, Cycles, Series
<1>2. DecisionsOK' => Series(outcomes, verdicts)' \subseteq 0..MaxNow
  BY CyclesFinite DEF DecisionsOK, Cycles, Series
<1>3. QED
  BY <1>1, <1>2, CyclesFinite

\* Results may arrive and decisions with other verdicts be made: a series keeps
\* its cycles.
LEMMA SeriesKeeps ==
  ASSUME DecisionsOK, DecisionsOK', IsFiniteSet(results'), results \subseteq results',
         NEW outcomes, NEW verdicts, Cycles \subseteq Cycles',
         DecidedBefore(Len(decisions) + 1, verdicts)' = DecidedBefore(Len(decisions) + 1, verdicts)
  PROVE  /\ Series(outcomes, verdicts) \subseteq Series(outcomes, verdicts)'
         /\ Cardinality(Series(outcomes, verdicts)) <= Cardinality(Series(outcomes, verdicts)')
<1>1. Series(outcomes, verdicts) \subseteq Series(outcomes, verdicts)'
  <2> SUFFICES ASSUME NEW c \in Series(outcomes, verdicts)
               PROVE  c \in Series(outcomes, verdicts)'
    OBVIOUS
  <2>1. /\ c \in Cycles /\ c # 0
        /\ \A d \in DecidedBefore(Len(decisions) + 1, verdicts) : c > d
    BY DEF Series
  <2>2. PICK o \in outcomes : Shows(c, o)
    BY DEF Series
  <2>3. Shows(c, o)'
    BY <2>2, ShowsGrows
  <2>4. QED
    BY <2>1, <2>3 DEF Series
<1>2. IsFiniteSet(Series(outcomes, verdicts)')
  BY SeriesFinite
<1>3. QED
  BY <1>1, <1>2, FS_Subset

\* A newer cycle with evidence lengthens a series by one, and the cycles of the
\* series with it back the new decision.
LEMMA SeriesNext ==
  ASSUME DecisionsOK, EvidenceOK, UNCHANGED <<now, results>>,
         NEW d, Appends(d), d.cycle # 0,
         NEW outcomes, NEW verdicts, d.verdict \notin verdicts,
         NEW o \in outcomes, Shows(d.cycle, o),
         NEW n, n = Len(decisions) + 1
  PROVE  /\ Cardinality(Series(outcomes, verdicts)') >= Cardinality(Series(outcomes, verdicts)) + 1
         /\ Series(outcomes, verdicts) \cup {d.cycle} \subseteq Series(outcomes, verdicts)'
         /\ Series(outcomes, verdicts) \cup {d.cycle} \subseteq Backing(n, outcomes, verdicts)'
         /\ Cardinality(Backing(n, outcomes, verdicts)') >= Cardinality(Series(outcomes, verdicts)) + 1
<1> DEFINE S == Series(outcomes, verdicts)
           T == Series(outcomes, verdicts)'
           B == Backing(n, outcomes, verdicts)'
<1>1. /\ Len(decisions) \in Nat /\ Len(decisions') = Len(decisions) + 1
      /\ decisions'[n] = d
      /\ Cycles' = Cycles \cup {d.cycle}
      /\ DecisionsOK'
  BY AppendDecision
<1>2. /\ d.cycle > LastCycle /\ LastCycle \in Nat /\ d.cycle \in 0..MaxNow
      /\ Cycles \subseteq 0..MaxNow /\ \A x \in Cycles : x <= LastCycle
  <2>1. d \in Decision /\ d.cycle > LastCycle
    BY DEF Appends
  <2>2. d.cycle \in 0..MaxNow
    BY <2>1 DEF Decision
  <2>3. QED
    BY <2>1, <2>2, LastCycleIsLast
<1>3. \A x \in Cycles : x < d.cycle /\ x \in Nat
  <2> SUFFICES ASSUME NEW x \in Cycles PROVE x < d.cycle /\ x \in Nat
    OBVIOUS
  <2>1. x \in Nat /\ d.cycle \in Nat
    BY <1>2, EvidenceAssumption
  <2>2. x <= LastCycle /\ LastCycle < d.cycle /\ LastCycle \in Nat
    BY <1>2
  <2>3. QED
    BY <2>1, <2>2
<1>4. /\ DecidedBefore(Len(decisions) + 1, verdicts)' = DecidedBefore(Len(decisions) + 1, verdicts)
      /\ DecidedBefore(n, verdicts)' = DecidedBefore(Len(decisions) + 1, verdicts)
  <2>1. n \in 1..(Len(decisions) + 1)
    BY <1>1
  <2>2. DecidedBefore(n, verdicts)' = DecidedBefore(n, verdicts)
    BY <2>1, PastStays
  <2>3. DecidedBefore(n, verdicts) = DecidedBefore(Len(decisions) + 1, verdicts)
    OBVIOUS
  <2>4. QED
    BY <2>2, <2>3, PastGrows
<1>5. DecidedBefore(Len(decisions) + 1, verdicts) \subseteq Cycles
  BY <1>1 DEF DecidedBefore, Cycles, DecisionsOK
<1>6. \A x \in DecidedBefore(Len(decisions) + 1, verdicts) : d.cycle > x
  BY <1>2, <1>3, <1>5, EvidenceAssumption
<1>7. \A c : \A p \in outcomes : Shows(c, p)' <=> Shows(c, p)
  BY DEF Shows, Trusted
<1>8. S \cup {d.cycle} \subseteq T
  BY <1>1, <1>4, <1>6, <1>7 DEF Series
<1>9. S \subseteq Cycles /\ \A c \in S : c # 0
  BY DEF Series
<1>10. S \cup {d.cycle} \subseteq B
  <2>1. \A c \in S \cup {d.cycle} : c \in 1..d.cycle
    <3>1. d.cycle \in Nat /\ d.cycle # 0
      BY <1>2, EvidenceAssumption
    <3>2. \A c \in S : c \in Nat /\ c # 0 /\ c < d.cycle
      BY <1>3, <1>9
    <3> HIDE DEF S
    <3>3. QED
      BY <3>1, <3>2
  <2>2. \A c \in S \cup {d.cycle} : \E p \in outcomes : Shows(c, p)'
    BY <1>7 DEF Series
  <2>3. \A c \in S \cup {d.cycle} : \A x \in DecidedBefore(n, verdicts)' : c > x
    BY <1>4, <1>6 DEF Series
  <2>4. QED
    BY <1>1, <2>1, <2>2, <2>3 DEF Backing
<1>11. d.cycle \notin S
  BY <1>2, <1>3, <1>9, EvidenceAssumption
<1>12. IsFiniteSet(S) /\ Cardinality(S) \in Nat /\ IsFiniteSet(T) /\ Cardinality(T) \in Nat
  BY <1>1, SeriesFinite
<1>13. B \subseteq 0..MaxNow /\ IsFiniteSet(B) /\ Cardinality(B) \in Nat
  <2>1. B \subseteq 0..MaxNow
    BY <1>1, <1>2, EvidenceAssumption DEF Backing
  <2>2. QED
    BY <2>1, CyclesFinite
<1> HIDE DEF S, T, B
<1>14. Cardinality(S \cup {d.cycle}) = Cardinality(S) + 1
  BY <1>11, <1>12, FS_AddElement
<1>15. Cardinality(S \cup {d.cycle}) <= Cardinality(T) /\ Cardinality(S \cup {d.cycle}) <= Cardinality(B)
  BY <1>8, <1>10, <1>12, <1>13, FS_Subset
<1>16. Cardinality(T) >= Cardinality(S) + 1 /\ Cardinality(B) >= Cardinality(S) + 1
  BY <1>12, <1>13, <1>14, <1>15
<1>17. QED
  BY <1>8, <1>10, <1>16 DEF S, T, B

\* A decision made is still backed after any step that keeps the decisions and
\* the results.
LEMMA BackingKeeps ==
  ASSUME DecisionsOK, EvidenceOK, IsFiniteSet(results'), results \subseteq results',
         NEW i \in DOMAIN decisions, decisions'[i] = decisions[i],
         NEW outcomes, NEW verdicts,
         DecidedBefore(i, verdicts)' = DecidedBefore(i, verdicts)
  PROVE  /\ Backing(i, outcomes, verdicts) \subseteq Backing(i, outcomes, verdicts)'
         /\ \A n \in Nat : Cardinality(Backing(i, outcomes, verdicts)) >= n
                             => Cardinality(Backing(i, outcomes, verdicts)') >= n
<1> DEFINE A == Backing(i, outcomes, verdicts)
           B == Backing(i, outcomes, verdicts)'
<1>1. A \subseteq B
  BY ShowsGrows DEF Backing
<1>2. B \subseteq 0..MaxNow
  <2>1. decisions[i].cycle \in 0..MaxNow
    BY CyclesFinite DEF DecisionsOK
  <2>2. QED
    BY <2>1, EvidenceAssumption DEF Backing
<1>3. IsFiniteSet(B) /\ Cardinality(B) \in Nat /\ A \in SUBSET B
  BY <1>1, <1>2, CyclesFinite
<1>4. Cardinality(A) \in Nat /\ Cardinality(A) <= Cardinality(B)
  BY <1>1, <1>2, <1>3, CyclesFinite, FS_Subset
<1>5. QED
  BY <1>1, <1>3, <1>4

-----------------------------------------------------------------------------
(* The inductive invariant holds initially and is preserved.               *)

\* Nothing reported, decided or done.
LEMMA InvInit == Init => IndInv
<1> SUFFICES ASSUME Init PROVE IndInv
  OBVIOUS
<1>1. decisions = <<>> /\ incidents = <<>> /\ DOMAIN decisions = {} /\ DOMAIN incidents = {}
  BY DEF Init
<1>2. EvidenceOK
  BY FS_EmptySet, EvidenceAssumption DEF Init, EvidenceOK
<1>3. StateOK /\ st.failures = 0 /\ st.recoveries = 0 /\ st.window = 0
  BY EvidenceAssumption DEF Init, StateOK, InitialState, State, Statuses
<1>4. DecisionsOK
  BY <1>1 DEF DecisionsOK, Cycles
<1>5. CooldownCovers /\ CooldownHolds /\ ExclusionBacked /\ RecoveryBacked
  BY <1>1 DEF CooldownCovers, CooldownHolds, ExclusionBacked, RecoveryBacked
<1>6. CountersBacked
  BY <1>3, <1>4, SeriesFinite DEF CountersBacked, FailedSeries, SuccessSeries
<1>7. Acting
  <2>1. ActingOK
    BY <1>1 DEF ActingOK, Init, Idle
  <2>2. TaskHeld /\ MaterializedOnce /\ ResolvedIsSettled
    BY <1>1 DEF TaskHeld, MaterializedOnce, ResolvedIsSettled, Init
  <2>3. QED
    BY <2>1, <2>2 DEF Acting
<1>8. QED
  BY <1>2, <1>3, <1>4, <1>5, <1>6, <1>7 DEF IndInv, Ruling

\* The actions are about decisions, which stay as they are.
LEMMA ActingKeeps ==
  ASSUME Acting, UNCHANGED <<incidents, task>>, DOMAIN decisions \subseteq DOMAIN decisions',
         \A i \in DOMAIN decisions : decisions'[i] = decisions[i]
  PROVE  Acting'
<1>1. ActingOK' /\ TaskHeld' /\ ResolvedIsSettled'
  BY DEF Acting, ActingOK, TaskHeld, ResolvedIsSettled
<1>2. MaterializedOnce'
  BY DEF Acting, ActingOK, MaterializedOnce, OperationExpected
<1>3. QED
  BY <1>1, <1>2 DEF Acting

\* The decisions made stay sound when time passes and results arrive.
LEMMA RulingKeeps ==
  ASSUME Ruling, EvidenceOK', UNCHANGED <<st, decisions>>, results \subseteq results', now <= now',
         policy' \in BOOLEAN, current' \subseteq Evaluators
  PROVE  Ruling'
<1>1. EvidenceOK /\ StateOK /\ DecisionsOK /\ CooldownCovers /\ CooldownHolds
      /\ CountersBacked /\ ExclusionBacked /\ RecoveryBacked
  BY DEF Ruling
<1>2. IsFiniteSet(results')
  BY DEF EvidenceOK
<1>3. Cycles' = Cycles /\ \A i, verdicts : DecidedBefore(i, verdicts)' = DecidedBefore(i, verdicts)
  BY DEF Cycles, DecidedBefore
<1>4. DecisionsOK'
  <2>1. \A i \in DOMAIN decisions : decisions[i].at <= now'
    <3> SUFFICES ASSUME NEW i \in DOMAIN decisions PROVE decisions[i].at <= now'
      OBVIOUS
    <3>1. decisions[i] \in Decision
      BY <1>1 DEF DecisionsOK
    <3>2. decisions[i].at \in Nat /\ now \in Nat /\ now' \in Nat /\ decisions[i].at <= now
      BY <1>1, <3>1, EvidenceAssumption DEF DecisionsOK, Decision, EvidenceOK
    <3>3. QED
      BY <3>2
  <2>2. QED
    BY <1>1, <1>3, <2>1 DEF DecisionsOK
<1>5. StateOK' /\ CooldownCovers' /\ CooldownHolds'
  BY <1>1 DEF StateOK, CooldownCovers, CooldownHolds
<1>6. CountersBacked'
  <2>1. /\ FailedSeries \subseteq FailedSeries' /\ SuccessSeries \subseteq SuccessSeries'
        /\ Cardinality(FailedSeries) <= Cardinality(FailedSeries')
        /\ Cardinality(SuccessSeries) <= Cardinality(SuccessSeries')
    <3>1. \A verdicts : DecidedBefore(Len(decisions) + 1, verdicts)'
                            = DecidedBefore(Len(decisions) + 1, verdicts)
      BY <1>3
    <3>2. QED
      BY <1>1, <1>2, <1>3, <1>4, <3>1, SeriesKeeps DEF FailedSeries, SuccessSeries
  <2>2. /\ Cardinality(FailedSeries) \in Nat /\ Cardinality(FailedSeries') \in Nat
        /\ Cardinality(SuccessSeries) \in Nat /\ Cardinality(SuccessSeries') \in Nat
    BY <1>1, <1>4, SeriesFinite DEF FailedSeries, SuccessSeries
  <2>3. st.failures \in Nat /\ st.recoveries \in Nat
    BY <1>1, RowFields DEF StateOK
  <2>4. QED
    BY <1>1, <2>1, <2>2, <2>3 DEF CountersBacked
<1>7. ASSUME NEW i \in DOMAIN decisions, NEW outcomes, NEW verdicts
      PROVE  /\ Backing(i, outcomes, verdicts) \subseteq Backing(i, outcomes, verdicts)'
             /\ \A n \in Nat : Cardinality(Backing(i, outcomes, verdicts)) >= n
                                 => Cardinality(Backing(i, outcomes, verdicts)') >= n
  BY <1>1, <1>2, <1>3, BackingKeeps
<1>8. ExclusionBacked' /\ RecoveryBacked'
  BY <1>1, <1>7, PolicyAssumption DEF ExclusionBacked, RecoveryBacked
<1>9. QED
  BY <1>4, <1>5, <1>6, <1>8 DEF Ruling

\* What a decision d has to bring: a sound row, a cooldown that covers it, and
\* counters and a reason that the evidence backs.
Brings(d, n) ==
    /\ RowOK(st')
    /\ st'.cooldown \in {st.cooldown, now + Cooldown}
    /\ d.reason = "RECOVERY_CONFIRMED" => st'.cooldown = now + Cooldown
    /\ d.replacement /\ d.reason # "CRITICAL_TRUST_FAILURE" => st.cooldown <= now
    /\ CountersBacked'
    /\ d.reason = "EXCLUSION_THRESHOLD_REACHED" =>
          Cardinality(Backing(n, Classes, {"SUCCESS"})') >= ExcludeCycles
    /\ d.reason = "RECOVERY_CONFIRMED" =>
          /\ Cardinality(Backing(n, {"SUCCESS"}, Verdicts \ {"SUCCESS"})') >= RecoveryCycles
          /\ \E c \in Backing(n, {"SUCCESS"}, Verdicts \ {"SUCCESS"})' : now - c >= RecoveryMinimum

\* Such a decision keeps the ledger sound.
LEMMA DecideKeeps ==
  ASSUME Ruling, EvidenceOK', NEW d, Appends(d), UNCHANGED <<now, results, policy>>,
         current' = {}, NEW n, n = Len(decisions) + 1, Brings(d, n)
  PROVE  Ruling'
<1>1. EvidenceOK /\ StateOK /\ DecisionsOK /\ CooldownCovers /\ CooldownHolds
      /\ CountersBacked /\ ExclusionBacked /\ RecoveryBacked
  BY DEF Ruling
<1>2. /\ Len(decisions) \in Nat
      /\ DOMAIN decisions = 1..Len(decisions) /\ DOMAIN decisions' = 1..(Len(decisions) + 1)
      /\ decisions'[n] = d
      /\ \A i \in DOMAIN decisions : decisions'[i] = decisions[i]
      /\ DecisionsOK'
  BY <1>1, AppendDecision
<1>3. \A i \in DOMAIN decisions' : \/ i \in DOMAIN decisions /\ i < n /\ decisions'[i] = decisions[i]
                                   \/ i = n /\ decisions'[i] = d
  <2> SUFFICES ASSUME NEW i \in DOMAIN decisions'
               PROVE  \/ i \in DOMAIN decisions /\ i < n /\ decisions'[i] = decisions[i]
                      \/ i = n /\ decisions'[i] = d
    OBVIOUS
  <2>1. CASE i = n
    BY <1>2, <2>1
  <2>2. CASE i # n
    <3>1. i \in 1..Len(decisions) /\ i < n
      BY <1>2, <2>2
    <3>2. QED
      BY <1>2, <3>1
  <2>3. QED
    BY <2>1, <2>2
<1>4. StateOK'
  <2>1. RowOK(st') /\ policy' \in BOOLEAN /\ current' \subseteq Evaluators
    BY <1>1 DEF StateOK, Brings
  <2>2. QED
    BY <2>1 DEF StateOK, RowOK
<1>5. /\ now \in Nat /\ Cooldown \in Nat /\ st.cooldown \in Nat /\ d.at = now
      /\ \A i \in DOMAIN decisions : decisions[i].at \in Nat /\ decisions[i].at <= now
  <2>1. \A i \in DOMAIN decisions : decisions[i] \in Decision
    BY <1>1 DEF DecisionsOK
  <2>2. \A i \in DOMAIN decisions : decisions[i].at \in Nat
    BY <2>1, EvidenceAssumption DEF Decision
  <2>3. st.cooldown \in Nat
    BY <1>1, RowFields DEF StateOK
  <2>4. now \in Nat /\ Cooldown \in Nat
    BY <1>1, PolicyAssumption, EvidenceAssumption DEF EvidenceOK
  <2>5. QED
    BY <1>1, <2>2, <2>3, <2>4 DEF DecisionsOK, Appends
<1>6. CooldownCovers'
  <2> SUFFICES ASSUME NEW i \in DOMAIN decisions', decisions'[i].reason = "RECOVERY_CONFIRMED"
               PROVE  st'.cooldown >= decisions'[i].at + Cooldown
    BY DEF CooldownCovers
  <2>1. CASE i = n
    BY <1>2, <1>5, <2>1 DEF Brings
  <2>2. CASE i # n
    <3>1. i \in DOMAIN decisions /\ decisions'[i] = decisions[i]
      BY <1>3, <2>2
    <3>2. st.cooldown >= decisions[i].at + Cooldown
      BY <1>1, <3>1 DEF CooldownCovers
    <3>3. QED
      BY <1>5, <3>1, <3>2 DEF Brings
  <2>3. QED
    BY <2>1, <2>2
<1>7. CooldownHolds'
  <2> SUFFICES ASSUME NEW i \in DOMAIN decisions', NEW j \in DOMAIN decisions', i < j,
                      decisions'[i].reason = "RECOVERY_CONFIRMED", decisions'[j].replacement,
                      decisions'[j].reason # "CRITICAL_TRUST_FAILURE"
               PROVE  decisions'[j].at >= decisions'[i].at + Cooldown
    BY DEF CooldownHolds
  <2>1. i \in DOMAIN decisions /\ decisions'[i] = decisions[i]
    BY <1>2
  <2>2. CASE j = n
    <3>1. st.cooldown >= decisions[i].at + Cooldown
      BY <1>1, <2>1 DEF CooldownCovers
    <3>2. st.cooldown <= now
      BY <1>2, <2>2 DEF Brings
    <3>3. QED
      BY <1>2, <1>5, <2>1, <2>2, <3>1, <3>2
  <2>3. CASE j # n
    BY <1>1, <1>3, <2>1, <2>3 DEF CooldownHolds
  <2>4. QED
    BY <2>2, <2>3
<1>8. ASSUME NEW i \in DOMAIN decisions, NEW outcomes, NEW verdicts
      PROVE  /\ Backing(i, outcomes, verdicts) \subseteq Backing(i, outcomes, verdicts)'
             /\ \A m \in Nat : Cardinality(Backing(i, outcomes, verdicts)) >= m
                                 => Cardinality(Backing(i, outcomes, verdicts)') >= m
  <2>1. i \in 1..(Len(decisions) + 1) /\ decisions'[i] = decisions[i]
    BY <1>2
  <2>2. DecidedBefore(i, verdicts)' = DecidedBefore(i, verdicts)
    BY <1>1, <2>1, PastStays
  <2>3. IsFiniteSet(results') /\ results \subseteq results'
    BY <1>1 DEF EvidenceOK
  <2>4. QED
    BY <1>1, <2>1, <2>2, <2>3, BackingKeeps
<1>9. ExclusionBacked'
  BY <1>1, <1>3, <1>8, PolicyAssumption DEF ExclusionBacked, Brings
<1>10. RecoveryBacked'
  <2> SUFFICES ASSUME NEW i \in DOMAIN decisions', decisions'[i].reason = "RECOVERY_CONFIRMED"
               PROVE  /\ Cardinality(Backing(i, {"SUCCESS"}, Verdicts \ {"SUCCESS"})') >= RecoveryCycles
                      /\ \E c \in Backing(i, {"SUCCESS"}, Verdicts \ {"SUCCESS"})' :
                            decisions'[i].at - c >= RecoveryMinimum
    BY DEF RecoveryBacked
  <2>1. CASE i = n
    BY <1>2, <1>5, <2>1 DEF Brings
  <2>2. CASE i # n
    <3>1. i \in DOMAIN decisions /\ decisions'[i] = decisions[i]
      BY <1>3, <2>2
    <3>2. QED
      BY <1>1, <1>8, <3>1, PolicyAssumption DEF RecoveryBacked
  <2>3. QED
    BY <2>1, <2>2
<1>11. QED
  BY <1>2, <1>4, <1>6, <1>7, <1>9, <1>10 DEF Ruling, Brings

\* A series that is not ended keeps its cycles when a decision is added.
LEMMA SeriesContinues ==
  ASSUME Ruling, NEW d, Appends(d), UNCHANGED <<now, results>>,
         NEW outcomes, NEW verdicts, d.verdict \notin verdicts
  PROVE  /\ Series(outcomes, verdicts) \subseteq Series(outcomes, verdicts)'
         /\ Cardinality(Series(outcomes, verdicts)) <= Cardinality(Series(outcomes, verdicts)')
<1>1. DecisionsOK /\ IsFiniteSet(results') /\ results \subseteq results'
  BY DEF Ruling, EvidenceOK
<1>2. Cycles' = Cycles \cup {d.cycle} /\ DecisionsOK'
  BY <1>1, AppendDecision
<1>3. DecidedBefore(Len(decisions) + 1, verdicts)' = DecidedBefore(Len(decisions) + 1, verdicts)
  BY <1>1, PastGrows
<1>4. QED
  BY <1>1, <1>2, <1>3, SeriesKeeps

\* One decision more leaves the actions alone.
LEMMA DecideKeepsActing ==
  ASSUME Ruling, Acting, UNCHANGED <<now, incidents, task>>, NEW d, Appends(d)
  PROVE  Acting'
<1>1. /\ Len(decisions) \in Nat
      /\ DOMAIN decisions = 1..Len(decisions) /\ DOMAIN decisions' = 1..(Len(decisions) + 1)
      /\ \A i \in DOMAIN decisions : decisions'[i] = decisions[i]
  BY AppendDecision DEF Ruling
<1>2. DOMAIN decisions \subseteq DOMAIN decisions'
  BY <1>1
<1>3. QED
  BY <1>1, <1>2, ActingKeeps

\* A decided cycle.
LEMMA DecideCycleKeeps ==
  ASSUME IndInv, NEW e, DecideCycle(e)
  PROVE  IndInv' /\ (st.status = "QUARANTINED" => st'.status = "QUARANTINED" /\ st'.excluded)
<1>1. PICK c \in Started, v \in {r.version : r \in Reports}, fresh \in BOOLEAN, gates \in BOOLEAN :
        /\ Newer(c)
        /\ \E inputs \in SUBSET Eligible(c, v) : \E votes \in Votes(inputs) :
            /\ consumed' = consumed \cup votes
            /\ Decide(Evaluate(st, c, Verdict(votes), fresh, gates).state,
                      Finish(Evaluate(st, c, Verdict(votes), fresh, gates).state,
                             Evaluate(st, c, Verdict(votes), fresh, gates).reason,
                             c, Verdict(votes), TRUE))
  BY DEF DecideCycle
<1>2. PICK inputs \in SUBSET Eligible(c, v) : \E votes \in Votes(inputs) :
            /\ consumed' = consumed \cup votes
            /\ Decide(Evaluate(st, c, Verdict(votes), fresh, gates).state,
                      Finish(Evaluate(st, c, Verdict(votes), fresh, gates).state,
                             Evaluate(st, c, Verdict(votes), fresh, gates).reason,
                             c, Verdict(votes), TRUE))
  BY <1>1
<1>3. PICK votes \in Votes(inputs) :
            /\ consumed' = consumed \cup votes
            /\ Decide(Evaluate(st, c, Verdict(votes), fresh, gates).state,
                      Finish(Evaluate(st, c, Verdict(votes), fresh, gates).state,
                             Evaluate(st, c, Verdict(votes), fresh, gates).reason,
                             c, Verdict(votes), TRUE))
  BY <1>2
<1>4. PICK verdict : verdict = Verdict(votes)
  OBVIOUS
<1>5. PICK o : o = Evaluate(st, c, verdict, fresh, gates)
  OBVIOUS
<1>6. PICK d : d = Finish(o.state, o.reason, c, verdict, TRUE)
  OBVIOUS
<1>7. PICK n : n = Len(decisions) + 1
  OBVIOUS
<1>8. /\ st' = o.state /\ decisions' = Append(decisions, d) /\ current' = {}
      /\ UNCHANGED <<now, credential, results, policy, incidents, task>>
      /\ consumed' = consumed \cup votes
  BY <1>3, <1>4, <1>5, <1>6 DEF Decide, evidence, acting
<1>9. Ruling /\ EvidenceOK /\ StateOK /\ DecisionsOK /\ CountersBacked /\ Acting
  BY DEF IndInv, Ruling
<1>10. now \in 1..MaxNow /\ MaxNow \in Nat /\ c \in 1..MaxNow /\ c > LastCycle
  BY <1>1, <1>9, EvidenceAssumption DEF EvidenceOK, Started, Newer
<1>11. /\ verdict \in Verdicts
       /\ verdict = "FAILED" => \E class \in Classes : Shows(c, class)
       /\ verdict = "SUCCESS" => Shows(c, "SUCCESS")
  BY <1>4, <1>9, VerdictShows
<1>12. /\ Sound(st, o)
       /\ verdict = "FAILED" => CountsFailure(st, o)
       /\ verdict = "SUCCESS" => CountsSuccess(st, c, o)
       /\ verdict \notin {"FAILED", "SUCCESS"} => CountsUncertain(st, o)
  <2>1. RowOK(st)
    BY <1>9 DEF StateOK, RowOK
  <2>2. QED
    BY <1>5, <1>10, <1>11, <2>1, EvaluateOutcome
<1>13. /\ d.cycle = c /\ d.verdict = verdict /\ d.reason = o.reason /\ d.at = now
       /\ d.replacement => \/ o.reason = "CRITICAL_TRUST_FAILURE"
                           \/ o.reason = "EXCLUSION_THRESHOLD_REACHED" /\ ~CooldownActive(o.state)
  BY <1>6 DEF Finish
<1>14. d \in Decision
  <2>1. o.reason \in Reasons /\ c \in 0..MaxNow /\ verdict \in Verdicts \cup {"none"}
    BY <1>10, <1>11, <1>12 DEF Sound
  <2>2. QED
    BY <1>6, <1>10, <2>1 DEF Finish, Decision
<1>15. Appends(d)
  BY <1>8, <1>10, <1>13, <1>14 DEF Appends
<1>16. EvidenceOK'
  <2>1. votes \subseteq results
    BY <1>3 DEF Votes, Eligible
  <2>2. QED
    BY <1>8, <1>9, <2>1 DEF EvidenceOK
<1>17. /\ st.failures \in Nat /\ st.recoveries \in Nat /\ st.window \in 0..MaxNow /\ st.cooldown \in Nat
       /\ now \in Nat /\ Cooldown \in Nat
       /\ st.failures <= Cardinality(FailedSeries)
       /\ st.recoveries <= Cardinality(SuccessSeries)
       /\ st.window # 0 => st.window \in SuccessSeries
  BY <1>9, <1>10, RowFields, PolicyAssumption DEF StateOK, CountersBacked
<1>18. DecisionsOK'
  BY <1>8, <1>9, <1>15, AppendDecision
<1>19. /\ Cardinality(FailedSeries) \in Nat /\ Cardinality(FailedSeries') \in Nat
       /\ Cardinality(SuccessSeries) \in Nat /\ Cardinality(SuccessSeries') \in Nat
  BY <1>9, <1>18, SeriesFinite DEF FailedSeries, SuccessSeries
<1>20. RowOK(st') /\ d.reason # "CRITICAL_TRUST_FAILURE"
  BY <1>8, <1>12, <1>13 DEF Sound
<1>21. ExcludeCycles \in Nat /\ RecoveryCycles \in Nat /\ RecoveryMinimum \in Nat /\ c # 0
  BY <1>10, PolicyAssumption
<1>22. ASSUME verdict = "FAILED" PROVE Brings(d, n)
  <2>1. /\ st'.failures = st.failures + 1 /\ st'.recoveries = 0 /\ st'.window = 0
        /\ st'.cooldown = st.cooldown
        /\ d.reason = "EXCLUSION_THRESHOLD_REACHED" => st.failures + 1 >= ExcludeCycles
        /\ d.reason # "RECOVERY_CONFIRMED"
    BY <1>8, <1>12, <1>13, <1>22 DEF CountsFailure
  <2>2. PICK class \in Classes : Shows(d.cycle, class)
    BY <1>11, <1>13, <1>22
  <2>3. d.verdict \notin {"SUCCESS"} /\ d.cycle # 0
    BY <1>13, <1>21, <1>22
  <2>4. /\ Cardinality(FailedSeries') >= Cardinality(FailedSeries) + 1
        /\ Cardinality(Backing(n, Classes, {"SUCCESS"})') >= Cardinality(FailedSeries) + 1
    BY <1>7, <1>8, <1>9, <1>15, <2>2, <2>3, SeriesNext DEF FailedSeries
  <2>5. CountersBacked'
    BY <1>17, <1>19, <2>1, <2>4 DEF CountersBacked
  <2>6. d.reason = "EXCLUSION_THRESHOLD_REACHED"
            => Cardinality(Backing(n, Classes, {"SUCCESS"})') >= ExcludeCycles
    <3>1. Backing(n, Classes, {"SUCCESS"})' \subseteq 0..MaxNow
      <4>1. decisions'[n].cycle = c
        BY <1>7, <1>8, <1>9, <1>13, <1>15, AppendDecision
      <4>2. QED
        BY <1>10, <4>1 DEF Backing
    <3>2. Cardinality(Backing(n, Classes, {"SUCCESS"})') \in Nat
      BY <3>1, CyclesFinite
    <3>3. QED
      BY <1>17, <1>19, <1>21, <2>1, <2>4, <3>2
  <2>7. d.replacement => st.cooldown <= now
    BY <1>8, <1>13, <1>17, <1>20, <2>1 DEF CooldownActive
  <2>8. QED
    BY <1>20, <2>1, <2>5, <2>6, <2>7 DEF Brings
<1>23. ASSUME verdict = "SUCCESS" PROVE Brings(d, n)
  <2>1. CountsSuccess(st, c, o)
    BY <1>12, <1>23
  <2>2. d.verdict \notin Verdicts \ {"SUCCESS"} /\ d.cycle # 0 /\ Shows(d.cycle, "SUCCESS")
    BY <1>11, <1>13, <1>21, <1>23
  <2>3. /\ Cardinality(SuccessSeries') >= Cardinality(SuccessSeries) + 1
        /\ SuccessSeries \cup {c} \subseteq SuccessSeries'
        /\ SuccessSeries \cup {c} \subseteq Backing(n, {"SUCCESS"}, Verdicts \ {"SUCCESS"})'
        /\ Cardinality(Backing(n, {"SUCCESS"}, Verdicts \ {"SUCCESS"})') >= Cardinality(SuccessSeries) + 1
    BY <1>7, <1>8, <1>9, <1>13, <1>15, <2>2, SeriesNext DEF SuccessSeries
  <2>4. CountersBacked'
    <3>1. st'.failures = 0 /\ st'.recoveries <= st.recoveries + 1 /\ st'.window \in {0, c, st.window}
      BY <1>8, <2>1 DEF CountsSuccess
    <3>2. st'.recoveries \in Nat
      BY <1>20, RowFields DEF RowOK
    <3>3. st'.recoveries <= Cardinality(SuccessSeries')
      BY <1>17, <1>19, <2>3, <3>1, <3>2
    <3>4. st'.window # 0 => st'.window \in SuccessSeries'
      BY <1>17, <2>3, <3>1
    <3>5. QED
      BY <1>19, <3>1, <3>3, <3>4 DEF CountersBacked
  <2>5. d.reason = "RECOVERY_CONFIRMED" =>
          /\ Cardinality(Backing(n, {"SUCCESS"}, Verdicts \ {"SUCCESS"})') >= RecoveryCycles
          /\ \E x \in Backing(n, {"SUCCESS"}, Verdicts \ {"SUCCESS"})' : now - x >= RecoveryMinimum
    <3> DEFINE B == Backing(n, {"SUCCESS"}, Verdicts \ {"SUCCESS"})'
    <3> SUFFICES ASSUME d.reason = "RECOVERY_CONFIRMED"
                 PROVE  Cardinality(B) >= RecoveryCycles /\ \E x \in B : now - x >= RecoveryMinimum
      OBVIOUS
    <3>1. /\ st.recoveries + 1 >= RecoveryCycles
          /\ now - (IF st.window = 0 THEN c ELSE st.window) >= RecoveryMinimum
      BY <1>13, <2>1 DEF CountsSuccess
    <3>2. B \subseteq 0..MaxNow
      <4>1. decisions'[n].cycle = c
        BY <1>7, <1>8, <1>9, <1>13, <1>15, AppendDecision
      <4>2. QED
        BY <1>10, <4>1 DEF Backing
    <3>3. Cardinality(B) \in Nat
      BY <3>2, CyclesFinite
    <3>4. Cardinality(B) >= RecoveryCycles
      BY <1>17, <1>19, <1>21, <2>3, <3>1, <3>3
    <3>5. (IF st.window = 0 THEN c ELSE st.window) \in B
      BY <1>17, <2>3
    <3>6. QED
      BY <3>1, <3>4, <3>5
  <2>6. d.reason # "EXCLUSION_THRESHOLD_REACHED" /\ ~d.replacement
    BY <1>13, <1>20, <2>1 DEF CountsSuccess
  <2>7. /\ st'.cooldown \in {st.cooldown, now + Cooldown}
        /\ d.reason = "RECOVERY_CONFIRMED" => st'.cooldown = now + Cooldown
    BY <1>8, <1>13, <2>1 DEF CountsSuccess
  <2>8. QED
    BY <1>20, <2>4, <2>5, <2>6, <2>7 DEF Brings
<1>24. ASSUME verdict \notin {"FAILED", "SUCCESS"} PROVE Brings(d, n)
  <2>1. /\ st'.failures = st.failures /\ st'.recoveries = 0 /\ st'.window = 0
        /\ st'.cooldown = st.cooldown
        /\ d.reason \notin {"EXCLUSION_THRESHOLD_REACHED", "RECOVERY_CONFIRMED"}
    BY <1>8, <1>12, <1>13, <1>24 DEF CountsUncertain
  <2>2. Cardinality(FailedSeries) <= Cardinality(FailedSeries')
    BY <1>8, <1>9, <1>13, <1>15, <1>24, SeriesContinues DEF FailedSeries
  <2>3. CountersBacked'
    BY <1>17, <1>19, <2>1, <2>2 DEF CountersBacked
  <2>4. ~d.replacement
    BY <1>13, <1>20, <2>1
  <2>5. QED
    BY <1>20, <2>1, <2>3, <2>4 DEF Brings
<1>25. Brings(d, n)
  BY <1>22, <1>23, <1>24
<1>26. Ruling'
  BY <1>7, <1>8, <1>9, <1>15, <1>16, <1>25, DecideKeeps
<1>27. Acting'
  BY <1>8, <1>9, <1>15, DecideKeepsActing
<1>28. st.status = "QUARANTINED" => st'.status = "QUARANTINED" /\ st'.excluded
  BY <1>8, <1>12, <1>20 DEF Sound, RowOK
<1>29. QED
  BY <1>26, <1>27, <1>28 DEF IndInv

\* A decision without a cycle, which keeps the counters it does not reset.
LEMMA OtherDecisionKeeps ==
  ASSUME IndInv, NEW s, NEW reason \in {"POLICY_UNAVAILABLE", "CRITICAL_TRUST_FAILURE"},
         NEW valid \in BOOLEAN, RowOK(s),
         s.failures = st.failures, s.cooldown = st.cooldown,
         s.recoveries \in {0, st.recoveries}, s.window \in {0, st.window},
         Decide(s, Finish(s, reason, 0, "none", valid)), consumed' = consumed
  PROVE  IndInv'
<1>1. PICK d : d = Finish(s, reason, 0, "none", valid)
  OBVIOUS
<1>2. PICK n : n = Len(decisions) + 1
  OBVIOUS
<1>3. /\ st' = s /\ decisions' = Append(decisions, d) /\ current' = {}
      /\ UNCHANGED <<now, credential, results, policy, incidents, task, consumed>>
  BY <1>1 DEF Decide, evidence, acting
<1>4. Ruling /\ EvidenceOK /\ StateOK /\ DecisionsOK /\ CountersBacked /\ Acting
  BY DEF IndInv, Ruling
<1>5. /\ d.cycle = 0 /\ d.verdict = "none" /\ d.reason = reason /\ d.at = now
      /\ d.replacement => reason = "CRITICAL_TRUST_FAILURE"
  BY <1>1 DEF Finish
<1>6. d \in Decision
  <2>1. reason \in Reasons /\ 0 \in 0..MaxNow /\ now \in 1..MaxNow
    BY <1>4, EvidenceAssumption DEF Reasons, EvidenceOK
  <2>2. QED
    BY <1>1, <2>1 DEF Finish, Decision
<1>7. Appends(d)
  BY <1>3, <1>5, <1>6 DEF Appends
<1>8. EvidenceOK'
  BY <1>3, <1>4 DEF EvidenceOK
<1>9. DecisionsOK'
  BY <1>3, <1>4, <1>7, AppendDecision
<1>10. /\ Cardinality(FailedSeries) \in Nat /\ Cardinality(FailedSeries') \in Nat
       /\ Cardinality(SuccessSeries) \in Nat /\ Cardinality(SuccessSeries') \in Nat
  BY <1>4, <1>9, SeriesFinite DEF FailedSeries, SuccessSeries
<1>11. /\ Cardinality(FailedSeries) <= Cardinality(FailedSeries')
       /\ Cardinality(SuccessSeries) <= Cardinality(SuccessSeries')
       /\ SuccessSeries \subseteq SuccessSeries'
  <2>1. d.verdict \notin {"SUCCESS"} /\ d.verdict \notin Verdicts \ {"SUCCESS"}
    BY <1>5 DEF Verdicts
  <2>2. QED
    BY <1>3, <1>4, <1>7, <2>1, SeriesContinues DEF FailedSeries, SuccessSeries
<1>12. st.failures \in Nat /\ st.recoveries \in Nat
  BY <1>4, RowFields DEF StateOK
<1>13. CountersBacked'
  BY <1>3, <1>4, <1>10, <1>11, <1>12 DEF CountersBacked
<1>14. Brings(d, n)
  BY <1>3, <1>5, <1>13 DEF Brings
<1>15. Ruling'
  BY <1>2, <1>3, <1>4, <1>7, <1>8, <1>14, DecideKeeps
<1>16. Acting'
  BY <1>3, <1>4, <1>7, DecideKeepsActing
<1>17. QED
  BY <1>15, <1>16 DEF IndInv

\* A decision while there is no valid policy.
LEMMA DecideWithoutPolicyKeeps ==
  ASSUME IndInv, NEW e, DecideWithoutPolicy(e)
  PROVE  IndInv' /\ (st.status = "QUARANTINED" => st'.status = "QUARANTINED" /\ st'.excluded)
<1>1. PICK s : s = [st EXCEPT !.status = AtLeastDegraded(st.status)]
  OBVIOUS
<1>2. Decide(s, Finish(s, "POLICY_UNAVAILABLE", 0, "none", FALSE)) /\ consumed' = consumed
  BY <1>1 DEF DecideWithoutPolicy
<1>3. RowOK(st)
  BY DEF IndInv, Ruling, StateOK, RowOK
<1>4. AtLeastDegraded(st.status) \in Statuses
  BY <1>3, RowFields DEF RowOK, AtLeastDegraded, Statuses
<1>5. s \in State
  BY <1>1, <1>3, <1>4 DEF RowOK, State
<1>6. /\ s.status = AtLeastDegraded(st.status) /\ s.excluded = st.excluded
      /\ s.failures = st.failures /\ s.recoveries = st.recoveries
      /\ s.window = st.window /\ s.cooldown = st.cooldown
  BY <1>1, <1>3 DEF RowOK, State
<1>7. RowOK(s) /\ (st.status = "QUARANTINED" => s.status = "QUARANTINED" /\ s.excluded)
  BY <1>3, <1>5, <1>6 DEF RowOK, AtLeastDegraded
<1>8. st' = s
  BY <1>2 DEF Decide
<1>9. QED
  BY <1>2, <1>6, <1>7, <1>8, OtherDecisionKeeps

\* A critical trust failure quarantines the route.
LEMMA DecideCriticalTrustFailureKeeps ==
  ASSUME IndInv, NEW e, DecideCriticalTrustFailure(e)
  PROVE  IndInv' /\ st'.status = "QUARANTINED" /\ st'.excluded
<1>1. PICK s : s = [st EXCEPT !.status = "QUARANTINED", !.excluded = TRUE,
                              !.recoveries = 0, !.window = 0]
  OBVIOUS
<1>2. Decide(s, Finish(s, "CRITICAL_TRUST_FAILURE", 0, "none", policy)) /\ consumed' = consumed
  BY <1>1 DEF DecideCriticalTrustFailure
<1>3. RowOK(st) /\ policy \in BOOLEAN
  BY DEF IndInv, Ruling, StateOK, RowOK
<1>4. "QUARANTINED" \in Statuses /\ TRUE \in BOOLEAN /\ 0 \in Nat /\ 0 \in 0..MaxNow
  BY EvidenceAssumption DEF Statuses
<1>5. s \in State
  BY <1>1, <1>3, <1>4 DEF RowOK, State
<1>6. /\ s.status = "QUARANTINED" /\ s.excluded = TRUE
      /\ s.failures = st.failures /\ s.recoveries = 0
      /\ s.window = 0 /\ s.cooldown = st.cooldown
  BY <1>1, <1>3 DEF RowOK, State
<1>7. RowOK(s)
  BY <1>5, <1>6 DEF RowOK
<1>8. st' = s
  BY <1>2 DEF Decide
<1>9. PICK valid \in BOOLEAN : valid = policy
  BY <1>3
<1>10. QED
  BY <1>2, <1>6, <1>7, <1>8, <1>9, OtherDecisionKeeps

\* Steps of the evidence, the policy and the clock: nothing is decided or done.
LEMMA QuietKeeps ==
  ASSUME IndInv, EvidenceOK', UNCHANGED <<st, decisions, incidents, task>>,
         results \subseteq results', now <= now', policy' \in BOOLEAN, current' \subseteq Evaluators
  PROVE  IndInv'
<1>1. Ruling'
  BY RulingKeeps DEF IndInv
<1>2. Acting'
  BY ActingKeeps DEF IndInv
<1>3. QED
  BY <1>1, <1>2 DEF IndInv

\* A result arrives.
LEMMA IngestKeeps ==
  ASSUME IndInv, NEW r \in Reports, NEW c \in Started, Ingest(r, c)
  PROVE  IndInv'
<1>1. EvidenceOK /\ StateOK
  BY DEF IndInv, Ruling
<1>2. PICK row : row = [source |-> r.source, key |-> r.key, outcome |-> r.outcome, control |-> r.control,
                       version |-> r.version, cycle |-> c, received |-> now]
  OBVIOUS
<1>3. /\ results' = results \cup {row}
      /\ UNCHANGED <<now, credential, policy, st, decisions, consumed, current, incidents, task>>
  BY <1>2 DEF Ingest, RecordProbeResult, ruling, acting
<1>4. r \in [source : Sources, key : Keys, outcome : Outcomes, control : BOOLEAN, version : Nat]
  BY EvidenceAssumption
<1>5. c \in 1..MaxCycle /\ now \in 1..MaxNow
  BY <1>1 DEF Started, EvidenceOK
<1>6. row \in Result
  BY <1>2, <1>4, <1>5 DEF Result
<1>7. IsFiniteSet(results')
  BY <1>1, <1>3, FS_AddElement DEF EvidenceOK
<1>8. EvidenceOK'
  BY <1>1, <1>3, <1>6, <1>7 DEF EvidenceOK
<1>9. now <= now'
  BY <1>3, <1>5, EvidenceAssumption
<1>10. QED
  BY <1>1, <1>3, <1>8, <1>9, QuietKeeps DEF StateOK

\* The other steps that decide and do nothing.
LEMMA QuietStepsKeep ==
  ASSUME IndInv,
         \/ \E s \in Sources : RotateCredential(s) \/ RevokeCredential(s) \/ InstallCredential(s)
         \/ \E e \in Evaluators : LoadState(e)
         \/ ChangePolicy
         \/ Tick
         \/ UNCHANGED vars
  PROVE  IndInv' /\ st' = st
<1>1. EvidenceOK /\ StateOK
  BY DEF IndInv, Ruling
<1>2. now \in Nat /\ MaxNow \in Nat
  BY <1>1, EvidenceAssumption DEF EvidenceOK
<1>3. CASE \E s \in Sources : RotateCredential(s) \/ RevokeCredential(s) \/ InstallCredential(s)
  <2>1. UNCHANGED <<now, results, policy, st, decisions, consumed, current, incidents, task>>
    BY <1>3 DEF RotateCredential, RevokeCredential, InstallCredential, ruling, acting
  <2>2. credential' \in [Sources -> {"held", "issued", "none"}]
    BY <1>1, <1>3 DEF RotateCredential, RevokeCredential, InstallCredential, EvidenceOK
  <2>3. EvidenceOK'
    BY <1>1, <2>1, <2>2 DEF EvidenceOK
  <2>4. QED
    BY <1>1, <1>2, <2>1, <2>3, QuietKeeps DEF StateOK
<1>4. CASE \E e \in Evaluators : LoadState(e)
  <2>1. UNCHANGED <<now, credential, results, policy, st, decisions, consumed, incidents, task>>
    BY <1>4 DEF LoadState, evidence, acting
  <2>2. current' \subseteq Evaluators
    BY <1>1, <1>4 DEF LoadState, StateOK
  <2>3. EvidenceOK'
    BY <1>1, <2>1 DEF EvidenceOK
  <2>4. QED
    BY <1>1, <1>2, <2>1, <2>2, <2>3, QuietKeeps DEF StateOK
<1>5. CASE ChangePolicy
  <2>1. UNCHANGED <<now, credential, results, st, decisions, consumed, current, incidents, task>>
    BY <1>5 DEF ChangePolicy, evidence, acting
  <2>2. policy' \in BOOLEAN
    BY <1>5 DEF ChangePolicy
  <2>3. EvidenceOK'
    BY <1>1, <2>1 DEF EvidenceOK
  <2>4. QED
    BY <1>1, <1>2, <2>1, <2>2, <2>3, QuietKeeps DEF StateOK
<1>6. CASE Tick
  <2>1. UNCHANGED <<credential, results, policy, st, decisions, consumed, current, incidents, task>>
    BY <1>6 DEF Tick, evidence, ruling, acting
  <2>2. now' \in 1..MaxNow /\ now <= now'
    BY <1>1, <1>2, <1>6 DEF Tick, EvidenceOK
  <2>3. EvidenceOK'
    BY <1>1, <2>1, <2>2 DEF EvidenceOK
  <2>4. QED
    BY <1>1, <2>1, <2>2, <2>3, QuietKeeps DEF StateOK
<1>7. CASE UNCHANGED vars
  <2>1. UNCHANGED <<now, credential, results, policy, st, decisions, consumed, current, incidents, task>>
    BY <1>7 DEF vars
  <2>2. EvidenceOK'
    BY <1>1, <2>1 DEF EvidenceOK
  <2>3. QED
    BY <1>1, <1>2, <2>1, <2>2, QuietKeeps DEF StateOK
<1>8. QED
  BY <1>3, <1>4, <1>5, <1>6, <1>7

\* The steps of the workers leave the decisions alone.
LEMMA RulingUntouched ==
  ASSUME IndInv, UNCHANGED <<now, evidence, ruling>>
  PROVE  Ruling'
<1>1. UNCHANGED <<now, credential, results, policy, st, decisions, consumed, current>>
  BY DEF evidence, ruling
<1>2. EvidenceOK /\ StateOK /\ Ruling
  BY DEF IndInv, Ruling
<1>3. EvidenceOK' /\ now <= now'
  BY <1>1, <1>2, EvidenceAssumption DEF EvidenceOK
<1>4. QED
  BY <1>1, <1>2, <1>3, RulingKeeps DEF StateOK

\* A worker takes the lock of a decision.
LEMMA BeginMaterializeKeeps ==
  ASSUME IndInv, NEW w \in Workers, NEW d \in DOMAIN decisions, BeginMaterialize(w, d)
  PROVE  IndInv'
<1>1. ActingOK /\ TaskHeld /\ MaterializedOnce /\ ResolvedIsSettled /\ DecisionsOK
  BY DEF IndInv, Acting, Ruling
<1>2. PICK found \in BOOLEAN : found <=> \E i \in DOMAIN incidents : incidents[i].decision = d
  OBVIOUS
<1>3. /\ UNCHANGED <<now, evidence, ruling, incidents, decisions>>
      /\ Unlocked(d)
      /\ task' = [task EXCEPT ![w] = [decision |-> d, found |-> found]]
  BY <1>2 DEF BeginMaterialize, ruling
<1>4. d \in Nat /\ d # 0
  BY <1>1 DEF DecisionsOK
<1>5. /\ task'[w] = [decision |-> d, found |-> found]
      /\ \A x \in Workers \ {w} : task'[x] = task[x]
      /\ task' \in [Workers -> [decision : Nat, found : BOOLEAN]]
  BY <1>1, <1>3, <1>4 DEF ActingOK
<1>6. ActingOK'
  BY <1>1, <1>3, <1>5 DEF ActingOK
<1>7. TaskHeld'
  <2> SUFFICES ASSUME NEW v \in Workers, task'[v] # Idle
               PROVE  /\ \A x \in Workers : task'[x].decision = task'[v].decision => x = v
                      /\ ~task'[v].found => \A i \in DOMAIN incidents : incidents[i].decision # task'[v].decision
    BY <1>3 DEF TaskHeld
  <2>1. \A x \in Workers : task[x].decision # d
    BY <1>3 DEF Unlocked
  <2>2. CASE v = w
    BY <1>2, <1>5, <2>1, <2>2
  <2>3. CASE v # w
    BY <1>1, <1>5, <2>1, <2>3 DEF TaskHeld
  <2>4. QED
    BY <2>2, <2>3
<1>8. MaterializedOnce' /\ ResolvedIsSettled'
  BY <1>1, <1>3 DEF MaterializedOnce, ResolvedIsSettled, OperationExpected
<1>9. QED
  BY <1>3, <1>6, <1>7, <1>8, RulingUntouched DEF IndInv, Acting

\* The transaction is rolled back.
LEMMA AbortMaterializeKeeps ==
  ASSUME IndInv, NEW w \in Workers, AbortMaterialize(w)
  PROVE  IndInv'
<1>1. ActingOK /\ TaskHeld /\ MaterializedOnce /\ ResolvedIsSettled /\ DecisionsOK
  BY DEF IndInv, Acting, Ruling
<1>2. UNCHANGED <<now, evidence, ruling, incidents, decisions>> /\ task' = [task EXCEPT ![w] = Idle]
  BY DEF AbortMaterialize, ruling
<1>3. Idle \in [decision : Nat, found : BOOLEAN] /\ Idle.decision = 0
  BY DEF Idle
<1>4. /\ task'[w] = Idle /\ \A x \in Workers \ {w} : task'[x] = task[x]
      /\ task' \in [Workers -> [decision : Nat, found : BOOLEAN]]
  BY <1>1, <1>2, <1>3 DEF ActingOK
<1>5. ActingOK'
  BY <1>1, <1>2, <1>4 DEF ActingOK
<1>6. \A v \in Workers : task[v] # Idle => task[v].decision # 0
  BY <1>1 DEF ActingOK, DecisionsOK
<1>7. TaskHeld'
  BY <1>1, <1>2, <1>3, <1>4, <1>6 DEF TaskHeld
<1>8. MaterializedOnce' /\ ResolvedIsSettled'
  BY <1>1, <1>2 DEF MaterializedOnce, ResolvedIsSettled, OperationExpected
<1>9. QED
  BY <1>2, <1>5, <1>7, <1>8, RulingUntouched DEF IndInv, Acting

\* The incident and its operation appear, once.
LEMMA CommitMaterializeKeeps ==
  ASSUME IndInv, NEW w \in Workers, CommitMaterialize(w)
  PROVE  IndInv'
<1>1. ActingOK /\ TaskHeld /\ MaterializedOnce /\ ResolvedIsSettled /\ DecisionsOK
  BY DEF IndInv, Acting, Ruling
<1>2. PICK d : d = task[w].decision
  OBVIOUS
<1>3. PICK operation : operation = IF OperationExpected(d) THEN "PENDING" ELSE "none"
  OBVIOUS
<1>4. PICK row : row = [decision |-> d, status |-> "OPEN", operation |-> operation]
  OBVIOUS
<1>5. /\ UNCHANGED <<now, evidence, ruling, decisions>> /\ task' = [task EXCEPT ![w] = Idle]
      /\ task[w] # Idle
      /\ incidents' = IF task[w].found THEN incidents ELSE Append(incidents, row)
  BY <1>2, <1>3, <1>4 DEF CommitMaterialize, ruling
<1>6. Idle \in [decision : Nat, found : BOOLEAN] /\ Idle.decision = 0
  BY DEF Idle
<1>7. /\ task'[w] = Idle /\ \A x \in Workers \ {w} : task'[x] = task[x]
      /\ task' \in [Workers -> [decision : Nat, found : BOOLEAN]]
  BY <1>1, <1>5, <1>6 DEF ActingOK
<1>8. d \in DOMAIN decisions /\ d \in Nat
  BY <1>1, <1>2, <1>5 DEF ActingOK, DecisionsOK
<1>9. \A v \in Workers : task[v] # Idle => task[v].decision # 0
  BY <1>1 DEF ActingOK, DecisionsOK
<1>10. \A v \in Workers \ {w} : task[v].decision # d
  BY <1>1, <1>2, <1>5 DEF TaskHeld
<1>11. CASE task[w].found
  <2>1. incidents' = incidents
    BY <1>5, <1>11
  <2>2. ActingOK'
    BY <1>1, <1>5, <1>7, <2>1 DEF ActingOK
  <2>3. TaskHeld'
    BY <1>1, <1>6, <1>7, <1>9, <2>1 DEF TaskHeld
  <2>4. MaterializedOnce' /\ ResolvedIsSettled'
    BY <1>1, <1>5, <2>1 DEF MaterializedOnce, ResolvedIsSettled, OperationExpected
  <2>5. QED
    BY <1>5, <2>2, <2>3, <2>4, RulingUntouched DEF IndInv, Acting
<1>12. CASE ~task[w].found
  <2>1. row \in Incident /\ row.decision = d /\ row.status = "OPEN" /\ row.operation = operation
    <3>1. operation \in OperationStatus
      BY <1>3 DEF OperationStatus
    <3>2. QED
      BY <1>4, <1>8, <3>1 DEF Incident
  <2>2. PICK n : n = Len(incidents) + 1
    OBVIOUS
  <2>3. /\ incidents \in Seq(Incident) /\ incidents' = Append(incidents, row)
        /\ Len(incidents) \in Nat
    BY <1>1, <1>5, <1>12 DEF ActingOK
  <2>4. /\ DOMAIN incidents = 1..Len(incidents) /\ DOMAIN incidents' = 1..(Len(incidents) + 1)
        /\ incidents' \in Seq(Incident)
    BY <2>1, <2>3
  <2>5. incidents'[n] = row /\ \A i \in DOMAIN incidents : incidents'[i] = incidents[i]
    BY <2>2, <2>3, <2>4
  <2>6. \A i \in DOMAIN incidents' : i = n \/ i \in DOMAIN incidents
    BY <2>2, <2>3, <2>4
  <2>7. ActingOK'
    <3>1. \A i \in DOMAIN incidents' : incidents'[i].decision \in DOMAIN decisions
      BY <1>1, <1>8, <2>1, <2>5, <2>6 DEF ActingOK
    <3>2. QED
      BY <1>1, <1>5, <1>7, <2>4, <3>1 DEF ActingOK
  <2>8. TaskHeld'
    <3> SUFFICES ASSUME NEW v \in Workers, task'[v] # Idle
                 PROVE  /\ \A x \in Workers : task'[x].decision = task'[v].decision => x = v
                        /\ ~task'[v].found =>
                              \A i \in DOMAIN incidents' : incidents'[i].decision # task'[v].decision
      BY DEF TaskHeld
    <3>1. v # w /\ task'[v] = task[v] /\ task[v].decision # d
      BY <1>7, <1>10
    <3>2. \A x \in Workers : task'[x].decision = task'[v].decision => x = v
      BY <1>1, <1>6, <1>7, <1>9, <3>1 DEF TaskHeld
    <3>3. ~task'[v].found => \A i \in DOMAIN incidents' : incidents'[i].decision # task'[v].decision
      BY <1>1, <2>1, <2>5, <2>6, <3>1 DEF TaskHeld
    <3>4. QED
      BY <3>2, <3>3
  <2>9. MaterializedOnce'
    <3>1. \A i \in DOMAIN incidents : incidents[i].decision # d
      BY <1>1, <1>2, <1>5, <1>12 DEF TaskHeld
    <3>2. \A i, j \in DOMAIN incidents' : incidents'[i].decision = incidents'[j].decision => i = j
      BY <1>1, <2>1, <2>5, <2>6, <3>1 DEF MaterializedOnce
    <3>3. OperationExpected(d) \in BOOLEAN
      BY DEF OperationExpected
    <3>4. (operation # "none") = OperationExpected(d)
      BY <1>3, <3>3
    <3>5. \A i \in DOMAIN incidents' :
             (incidents'[i].operation # "none") = OperationExpected(incidents'[i].decision)
      BY <1>1, <2>1, <2>5, <2>6, <3>4 DEF MaterializedOnce
    <3>6. QED
      BY <1>5, <3>2, <3>5 DEF MaterializedOnce, OperationExpected
  <2>10. ResolvedIsSettled'
    BY <1>1, <2>1, <2>5, <2>6 DEF ResolvedIsSettled
  <2>11. QED
    BY <1>5, <2>7, <2>8, <2>9, <2>10, RulingUntouched DEF IndInv, Acting
<1>13. QED
  BY <1>11, <1>12

\* An operation moves on, or an incident is resolved.
LEMMA IncidentStepsKeep ==
  ASSUME IndInv, NEW i \in DOMAIN incidents, ExecuteOperation(i) \/ ResolveIncident(i)
  PROVE  IndInv'
<1>1. ActingOK /\ TaskHeld /\ MaterializedOnce /\ ResolvedIsSettled /\ DecisionsOK
  BY DEF IndInv, Acting, Ruling
<1>2. UNCHANGED <<now, evidence, ruling, task, decisions>>
  BY DEF ExecuteOperation, ResolveIncident, ruling
<1>3. incidents \in Seq(Incident) /\ incidents[i] \in Incident
  BY <1>1 DEF ActingOK
<1>4. /\ DOMAIN incidents' = DOMAIN incidents /\ incidents' \in Seq(Incident)
      /\ \A j \in DOMAIN incidents \ {i} : incidents'[j] = incidents[j]
      /\ incidents'[i].decision = incidents[i].decision
      /\ incidents'[i].operation = "none" <=> incidents[i].operation = "none"
      /\ incidents'[i].status = "RESOLVED" => incidents'[i].operation \in {"none", "SUCCEEDED", "FAILED"}
  <2>1. CASE ExecuteOperation(i)
    <3>1. PICK status \in OperationStep(incidents[i].operation) :
            incidents' = [incidents EXCEPT ![i].operation = status]
      BY <2>1 DEF ExecuteOperation
    <3>2. /\ incidents[i].operation \in {"PENDING", "RUNNING"}
          /\ status \in {"RUNNING", "SUCCEEDED", "FAILED"}
      BY <3>1 DEF OperationStep
    <3>3. incidents[i].status # "RESOLVED"
      BY <1>1, <3>2 DEF ResolvedIsSettled
    <3>4. PICK row : row = [incidents[i] EXCEPT !.operation = status]
      OBVIOUS
    <3>5. /\ row \in Incident /\ row.decision = incidents[i].decision
          /\ row.status = incidents[i].status /\ row.operation = status
      BY <1>3, <3>2, <3>4 DEF Incident, OperationStatus
    <3>6. incidents' = [incidents EXCEPT ![i] = row]
      BY <3>1, <3>4
    <3>7. QED
      BY <1>3, <3>2, <3>3, <3>5, <3>6
  <2>2. CASE ResolveIncident(i)
    <3>1. PICK row : row = [incidents[i] EXCEPT !.status = "RESOLVED"]
      OBVIOUS
    <3>2. /\ row \in Incident /\ row.decision = incidents[i].decision
          /\ row.operation = incidents[i].operation
      BY <1>3, <3>1 DEF Incident
    <3>3. incidents' = [incidents EXCEPT ![i] = row] /\ row.operation \in {"none", "SUCCEEDED", "FAILED"}
      BY <2>2, <3>1, <3>2 DEF ResolveIncident, Resolvable
    <3>4. QED
      BY <1>3, <3>2, <3>3
  <2>3. QED
    BY <2>1, <2>2
<1>5. \A j \in DOMAIN incidents : incidents'[j].decision = incidents[j].decision
  BY <1>4
<1>6. ActingOK'
  BY <1>1, <1>2, <1>4, <1>5 DEF ActingOK
<1>7. TaskHeld'
  BY <1>1, <1>2, <1>4, <1>5 DEF TaskHeld
<1>8. MaterializedOnce'
  <2>1. \A x : OperationExpected(x)' = OperationExpected(x)
    BY <1>2 DEF OperationExpected
  <2>2. \A j \in DOMAIN incidents : (incidents'[j].operation # "none") = (incidents[j].operation # "none")
    BY <1>4
  <2>3. QED
    BY <1>1, <1>4, <1>5, <2>1, <2>2 DEF MaterializedOnce
<1>9. ResolvedIsSettled'
  BY <1>1, <1>4 DEF ResolvedIsSettled
<1>10. QED
  BY <1>2, <1>6, <1>7, <1>8, <1>9, RulingUntouched DEF IndInv, Acting

\* No evidence brings a quarantined row back.
Quarantined == st.status = "QUARANTINED" => st'.status = "QUARANTINED" /\ st'.excluded

\* Every step keeps the invariant, and a quarantined row quarantined.
LEMMA InvNext == IndInv /\ [Next]_vars => IndInv' /\ Quarantined
<1> SUFFICES ASSUME IndInv, [Next]_vars PROVE IndInv' /\ Quarantined
  OBVIOUS
<1>1. st.status = "QUARANTINED" => st.excluded
  BY DEF IndInv, Ruling, StateOK
<1>2. CASE \E s \in Sources : RotateCredential(s) \/ RevokeCredential(s) \/ InstallCredential(s)
  BY <1>1, <1>2, QuietStepsKeep DEF Quarantined
<1>3. CASE \E r \in Reports, c \in Started : Ingest(r, c)
  <2>1. st' = st
    BY <1>3 DEF Ingest, ruling
  <2>2. QED
    BY <1>1, <1>3, <2>1, IngestKeeps DEF Quarantined
<1>4. CASE \E e \in Evaluators : LoadState(e)
  BY <1>1, <1>4, QuietStepsKeep DEF Quarantined
<1>5. CASE \E e \in Evaluators : DecideCycle(e)
  BY <1>5, DecideCycleKeeps DEF Quarantined
<1>6. CASE \E e \in Evaluators : DecideWithoutPolicy(e)
  BY <1>6, DecideWithoutPolicyKeeps DEF Quarantined
<1>7. CASE \E e \in Evaluators : DecideCriticalTrustFailure(e)
  BY <1>7, DecideCriticalTrustFailureKeeps DEF Quarantined
<1>8. CASE ChangePolicy \/ Tick \/ UNCHANGED vars
  BY <1>1, <1>8, QuietStepsKeep DEF Quarantined
<1>9. CASE \E w \in Workers : \E d \in DOMAIN decisions : BeginMaterialize(w, d)
  <2>1. st' = st
    BY <1>9 DEF BeginMaterialize, ruling
  <2>2. QED
    BY <1>1, <1>9, <2>1, BeginMaterializeKeeps DEF Quarantined
<1>10. CASE \E w \in Workers : CommitMaterialize(w)
  <2>1. st' = st
    BY <1>10 DEF CommitMaterialize, ruling
  <2>2. QED
    BY <1>1, <1>10, <2>1, CommitMaterializeKeeps DEF Quarantined
<1>11. CASE \E w \in Workers : AbortMaterialize(w)
  <2>1. st' = st
    BY <1>11 DEF AbortMaterialize, ruling
  <2>2. QED
    BY <1>1, <1>11, <2>1, AbortMaterializeKeeps DEF Quarantined
<1>12. CASE \E i \in DOMAIN incidents : ExecuteOperation(i) \/ ResolveIncident(i)
  <2>1. st' = st
    BY <1>12 DEF ExecuteOperation, ResolveIncident, ruling
  <2>2. QED
    BY <1>1, <1>12, <2>1, IncidentStepsKeep DEF Quarantined
<1>13. QED
  BY <1>2, <1>3, <1>4, <1>5, <1>6, <1>7, <1>8, <1>9, <1>10, <1>11, <1>12 DEF Next

-----------------------------------------------------------------------------
(* The theorems.                                                           *)

\* The inductive invariant holds in every reachable state.
THEOREM Invariance == Spec => []IndInv
<1>1. IndInv /\ [Next]_vars => IndInv'
  BY InvNext
<1>2. QED
  BY InvInit, <1>1, PTL DEF Spec

\* Every row keeps its type; above all no decision writes a HEALTHY row that is
\* excluded, which the table's check would refuse.
THEOREM TypeCorrect == Spec => []TypeOK
<1>1. IndInv => TypeOK
  BY DEF IndInv, Ruling, Acting, EvidenceOK, StateOK, DecisionsOK, ActingOK, TypeOK
<1>2. QED
  BY <1>1, Invariance, PTL

\* Every exclusion (health-decision.ts, EXCLUSION_THRESHOLD_REACHED) rests on as
\* many different failed cycles as the policy asks for, each failed for a quorum
\* of independent sources, since the last successful cycle.
THEOREM ExclusionIsBackedHolds == Spec => []ExclusionIsBacked
<1>1. IndInv => ExclusionIsBacked
  <2> SUFFICES ASSUME IndInv, NEW i \in DOMAIN decisions,
                      decisions[i].reason = "EXCLUSION_THRESHOLD_REACHED"
               PROVE  Cardinality({c \in 1..decisions[i].cycle :
                            /\ \E class \in Classes : Shows(c, class)
                            /\ \A d \in DecidedBefore(i, {"SUCCESS"}) : c > d}) >= ExcludeCycles
    BY DEF ExclusionIsBacked
  <2>1. Cardinality(Backing(i, Classes, {"SUCCESS"})) >= ExcludeCycles
    BY DEF IndInv, Ruling, ExclusionBacked
  <2>2. QED
    BY <2>1 DEF Backing
<1>2. QED
  BY <1>1, Invariance, PTL

\* Every recovery (RECOVERY_CONFIRMED) rests on as many different cycles as the
\* policy asks for, each successful for a quorum of independent sources and none
\* failed or uncertain between them, the first of them old enough.
THEOREM RecoveryIsBackedHolds == Spec => []RecoveryIsBacked
<1>1. IndInv => RecoveryIsBacked
  <2> SUFFICES ASSUME IndInv, NEW i \in DOMAIN decisions,
                      decisions[i].reason = "RECOVERY_CONFIRMED"
               PROVE  LET series == {c \in 1..decisions[i].cycle :
                              /\ Shows(c, "SUCCESS")
                              /\ \A d \in DecidedBefore(i, Verdicts \ {"SUCCESS"}) : c > d}
                      IN  /\ Cardinality(series) >= RecoveryCycles
                          /\ \E c \in series : decisions[i].at - c >= RecoveryMinimum
    BY DEF RecoveryIsBacked
  <2> DEFINE B == Backing(i, {"SUCCESS"}, Verdicts \ {"SUCCESS"})
             series == {c \in 1..decisions[i].cycle :
                              /\ Shows(c, "SUCCESS")
                              /\ \A d \in DecidedBefore(i, Verdicts \ {"SUCCESS"}) : c > d}
  <2>1. /\ Cardinality(B) >= RecoveryCycles
        /\ \E c \in B : decisions[i].at - c >= RecoveryMinimum
    BY DEF IndInv, Ruling, RecoveryBacked
  <2>2. B = series
    BY DEF Backing
  <2> HIDE DEF B, series
  <2>3. Cardinality(series) >= RecoveryCycles /\ \E c \in series : decisions[i].at - c >= RecoveryMinimum
    BY <2>1, <2>2
  <2>4. QED
    BY <2>3 DEF series
<1>2. QED
  BY <1>1, Invariance, PTL

\* After a recovery no failed cycle asks for a replacement before the cooldown
\* of the policy is over.
THEOREM CooldownHoldsAlways == Spec => []CooldownHolds
<1>1. IndInv => CooldownHolds
  BY DEF IndInv, Ruling
<1>2. QED
  BY <1>1, Invariance, PTL

\* materializeDecisionActions: a decision leads to one incident, with an
\* operation exactly when it asks for one, whichever workers race or die.
THEOREM MaterializedOnceHolds == Spec => []MaterializedOnce
<1>1. IndInv => MaterializedOnce
  BY DEF IndInv, Acting
<1>2. QED
  BY <1>1, Invariance, PTL

\* resolveIncident: a resolved incident has no operation under way.
THEOREM ResolvedIsSettledHolds == Spec => []ResolvedIsSettled
<1>1. IndInv => ResolvedIsSettled
  BY DEF IndInv, Acting
<1>2. QED
  BY <1>1, Invariance, PTL

\* No evidence brings a quarantined route back, and it stays excluded.
THEOREM QuarantineHoldsAlways == Spec => QuarantineHolds
<1>1. IndInv /\ [Next]_vars => [Quarantined]_vars
  BY InvNext
<1>2. Spec => [][Quarantined]_vars
  BY <1>1, Invariance, PTL DEF Spec
<1>3. QED
  BY <1>2 DEF QuarantineHolds, Quarantined

=============================================================================
