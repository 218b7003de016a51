------------------------------ MODULE Health ------------------------------
(***************************************************************************)
(* Probe evidence, health decisions and the actions they trigger, for one   *)
(* scope (packages/orchestration-store: health-evidence-store.ts,           *)
(* health-decision.ts, health-action-store.ts; apps/api/src/probe-agent).   *)
(*                                                                          *)
(* Probe sources report on the route; evaluators, each with the state       *)
(* version it loaded, turn the reports of a cycle into a numbered decision; *)
(* workers turn a decision that calls for it into an incident and a         *)
(* replacement operation.  A cycle is named by its start, a moment of       *)
(* 1..MaxNow; 0 stands for an absent date.  The processes that call the     *)
(* stores are not in the repository, so what they pass (the results they    *)
(* select, the heartbeat, the recovery gates) is any value the schemas      *)
(* admit.  Every transaction is one step: it runs under an advisory lock.   *)
(***************************************************************************)
EXTENDS Integers, Sequences, FiniteSets

CONSTANTS
    Sources, Keys,          \* probe sources and independence keys
    Reports,                \* what a source may report, with the key its ProbeSource row has then
    Managed,                \* the sources whose credential is rotated and revoked
    Evaluators, Workers,
    Quorum, DegradedCycles, ExcludeCycles, UncertainCycles,
    RecoveryCycles, RecoveryMinimum, Cooldown, Freshness,
    MaxNow, MaxCycle, MaxPerCycle, MaxLate, MaxDecisions, MaxIncidents, MaxFaults    \* bounds

Classes == {"DNS", "TCP_TLS", "VPN_HANDSHAKE", "TEST_TRAFFIC"}
Outcomes == Classes \cup {"SUCCESS", "PROBE_SOURCE_FAILURE"}
Statuses == {"UNKNOWN", "HEALTHY", "DEGRADED", "QUARANTINED"}
Verdicts == {"SUCCESS", "FAILED", "MIXED", "UNKNOWN"}
Reasons == {"POLICY_UNAVAILABLE", "CRITICAL_TRUST_FAILURE", "STALE_HEARTBEAT",
            "FAILED_CYCLE_OBSERVED", "FAILURE_THRESHOLD_REACHED", "EXCLUSION_THRESHOLD_REACHED",
            "SUCCESS_CONFIRMED", "RECOVERY_PENDING", "RECOVERY_CONFIRMED",
            "MIXED_CYCLE", "UNKNOWN_CYCLE", "UNCERTAINTY_THRESHOLD_REACHED"}

\* healthPolicyConfigSchema: the thresholds of a valid policy.
ASSUME PolicyAssumption ==
    /\ {Quorum, DegradedCycles, ExcludeCycles, UncertainCycles, RecoveryCycles,
        RecoveryMinimum, Cooldown, Freshness} \subseteq Nat \ {0}
    /\ DegradedCycles < ExcludeCycles

ASSUME EvidenceAssumption ==
    /\ Reports \subseteq [source : Sources, key : Keys, outcome : Outcomes, control : BOOLEAN,
                          version : Nat]
    /\ Managed \subseteq Sources
    /\ MaxNow # 0
    /\ {MaxNow, MaxCycle, MaxPerCycle, MaxLate, MaxDecisions, MaxIncidents, MaxFaults} \subseteq Nat

VARIABLES
    now,
    credential,     \* per source: "held" by its agent, "issued" and not yet installed, or "none"
    results,        \* ProbeResult rows
    policy,         \* whether the last activated policy exists and parses
    st,             \* the AvailabilityState row
    decisions,      \* AvailabilityDecision rows in stateVersion order
    consumed,       \* results some decision accepted
    current,        \* the evaluators that have loaded the state's current version
    incidents,      \* Incident rows, each with its PROMOTE_STANDBY operation
    task,           \* per worker: the decision it has locked and whether it has an incident
    faults          \* counts what is bounded by MaxFaults

vars == <<now, credential, results, policy, st, decisions, consumed, current, incidents, task, faults>>
evidence == <<credential, results>>
ruling == <<policy, st, decisions, consumed, current>>
acting == <<incidents, task>>

Result == [source : Sources, key : Keys, outcome : Outcomes, control : BOOLEAN, version : Nat,
           cycle : 1..MaxCycle, received : 1..MaxNow]
State == [status : Statuses, excluded : BOOLEAN, failures : Nat, recoveries : Nat,
          window : 0..MaxNow, uncertain : Nat, cooldown : Nat]
Decision == [cycle : 0..MaxNow, verdict : Verdicts \cup {"none"}, reason : Reasons, at : 1..MaxNow,
             incident : BOOLEAN, replacement : BOOLEAN, policy : BOOLEAN]
OperationStatus == {"none", "PENDING", "RUNNING", "SUCCEEDED", "FAILED"}
Incident == [decision : Nat, status : {"OPEN", "RESOLVED"}, operation : OperationStatus]
Idle == [decision |-> 0, found |-> FALSE]

\* No row yet: loadState and the row the first decision inserts agree.
InitialState == [status |-> "UNKNOWN", excluded |-> TRUE, failures |-> 0, recoveries |-> 0,
                 window |-> 0, uncertain |-> 0, cooldown |-> 0]

Init ==
    /\ now = 1
    /\ credential = [s \in Sources |-> "held"]
    /\ results = {}
    /\ policy = TRUE
    /\ st = InitialState
    /\ decisions = <<>>
    /\ consumed = {}
    /\ current = {}
    /\ incidents = <<>>
    /\ task = [w \in Workers |-> Idle]
    /\ faults = 0

\* The cycles that have started.
Started == {c \in 1..MaxCycle : c <= now}

\* One more of the events bounded by MaxFaults.
Fault == faults < MaxFaults /\ faults' = faults + 1

----------------------------------------------------------------------------
\* Probe ingestion.

RotateCredential(s) ==
    /\ s \in Managed
    /\ Fault
    /\ credential' = [credential EXCEPT ![s] = "issued"]
    /\ UNCHANGED <<now, results, ruling, acting>>

RevokeCredential(s) ==
    /\ s \in Managed /\ credential[s] # "none"
    /\ Fault
    /\ credential' = [credential EXCEPT ![s] = "none"]
    /\ UNCHANGED <<now, results, ruling, acting>>

\* The operator hands the new secret to the source's agent.
InstallCredential(s) ==
    /\ credential[s] = "issued"
    /\ credential' = [credential EXCEPT ![s] = "held"]
    /\ UNCHANGED <<now, faults, results, ruling, acting>>

\* The credential's row is locked for the whole transaction of an ingestion.
Authenticated(s) == credential[s] = "held"

\* A report sent again under its sourceResultId is answered from the stored row;
\* rows that agree in every field modelled here count as one.
RecordProbeResult(row) ==
    /\ row \notin results
    /\ results' = results \cup {row}

\* The row keeps the independence key its source has now.  The database refuses
\* a cycle that starts after the receipt of its result.
Ingest(r, c) ==
    /\ Authenticated(r.source)
    /\ Cardinality({row \in results : row.cycle = c}) < MaxPerCycle
    /\ c < now => Cardinality({row \in results : row.cycle < row.received}) < MaxLate
    /\ RecordProbeResult([source |-> r.source, key |-> r.key, outcome |-> r.outcome,
                          control |-> r.control, version |-> r.version,
                          cycle |-> c, received |-> now])
    /\ UNCHANGED <<now, faults, credential, ruling, acting>>

----------------------------------------------------------------------------
\* The decision: aggregateHealthProbeCycle and evaluateHealthCycle.

Trusted(r, c, v) ==
    /\ r.control
    /\ r.version = v
    /\ r.cycle = c
    /\ r.received \in c..(c + Freshness)

\* Any other result among the evaluator's inputs is rejected and changes nothing.
Eligible(c, v) == {r \in results \ consumed : Trusted(r, c, v)}

\* Mutant: a source counts once for each key it has had.
VotesPerKey(eligible) ==
    {A \in SUBSET eligible :
        \A r \in eligible :
            \E a \in A : {b \in A : b.key = r.key} = {a} /\ a.received <= r.received}

\* DUPLICATE_SOURCE and DUPLICATE_INDEPENDENCE_KEY.
Duplicates(r, a) == r # a /\ (r.source = a.source \/ r.key = a.key)

\* Results are taken in the order of their receipt, and ids, which are random,
\* order equal moments: one is a vote unless it duplicates an earlier vote.
Votes(eligible) ==
    {A \in SUBSET eligible :
        /\ \A r, a \in A : ~Duplicates(r, a)
        /\ \A r \in eligible \ A : \E a \in A : Duplicates(r, a) /\ a.received <= r.received}

Count(votes, outcome) == Cardinality({r \in votes : r.outcome = outcome})

Verdict(votes) ==
    LET succeeded == \E r \in votes : r.outcome = "SUCCESS"
        failed == \E r \in votes : r.outcome \in Classes
    IN  IF succeeded /\ failed THEN "MIXED"
        ELSE IF \E class \in Classes : Count(votes, class) >= Quorum THEN "FAILED"
        ELSE IF Count(votes, "SUCCESS") >= Quorum THEN "SUCCESS"
        ELSE "UNKNOWN"

\* Mutant: a HEALTHY route keeps its status.
AtLeastDegradedIfUnknown(status) == IF status = "UNKNOWN" THEN "DEGRADED" ELSE status

AtLeastDegraded(status) == IF status \in {"HEALTHY", "UNKNOWN"} THEN "DEGRADED" ELSE status

AfterFailure(s) ==
    LET n == s.failures + 1 IN
    [state |-> [s EXCEPT !.failures = n, !.recoveries = 0, !.window = 0, !.uncertain = 0,
                         !.status = IF n >= DegradedCycles THEN AtLeastDegraded(@) ELSE @,
                         !.excluded = @ \/ n >= ExcludeCycles],
     reason |-> IF n >= ExcludeCycles THEN "EXCLUSION_THRESHOLD_REACHED"
                ELSE IF n >= DegradedCycles THEN "FAILURE_THRESHOLD_REACHED"
                ELSE "FAILED_CYCLE_OBSERVED"]

\* Mutant: the status is not asked.
RecoversFromQuarantine(s, fresh, gates) ==
    /\ s.recoveries >= RecoveryCycles
    /\ now - s.window >= RecoveryMinimum
    /\ fresh /\ gates

\* Mutant: the first success may be too recent.
RecoversAtOnce(s, fresh, gates) ==
    /\ s.status \notin {"QUARANTINED", "DISABLED"}
    /\ s.recoveries >= RecoveryCycles
    /\ fresh /\ gates

\* fresh: the last heartbeat is at most staleHeartbeatSeconds old; gates: the clock is
\* trusted, the serving check passed and the desired version is applied.
Recovers(s, fresh, gates) ==
    /\ s.status \notin {"QUARANTINED", "DISABLED"}
    /\ s.recoveries >= RecoveryCycles
    /\ now - s.window >= RecoveryMinimum
    /\ fresh /\ gates

AfterSuccess(s, c, fresh, gates) ==
    LET clean == [s EXCEPT !.failures = 0, !.uncertain = 0]
        counted == [clean EXCEPT !.recoveries = @ + 1, !.window = IF @ = 0 THEN c ELSE @]
    IN  IF s.status = "HEALTHY"
        THEN [state |-> [clean EXCEPT !.recoveries = 0, !.window = 0], reason |-> "SUCCESS_CONFIRMED"]
        ELSE IF Recovers(counted, fresh, gates)
        THEN [state |-> [counted EXCEPT !.status = "HEALTHY", !.excluded = FALSE, !.recoveries = 0,
                                        !.window = 0, !.cooldown = now + Cooldown],
              reason |-> "RECOVERY_CONFIRMED"]
        ELSE [state |-> counted, reason |-> "RECOVERY_PENDING"]

\* A mixed or unknown cycle does not interrupt a series of failures.
AfterUncertainty(s, verdict) ==
    LET n == s.uncertain + 1 IN
    [state |-> [s EXCEPT !.uncertain = n, !.recoveries = 0, !.window = 0,
                         !.status = IF n >= UncertainCycles THEN AtLeastDegraded(@) ELSE @],
     reason |-> IF n >= UncertainCycles THEN "UNCERTAINTY_THRESHOLD_REACHED"
                ELSE IF verdict = "MIXED" THEN "MIXED_CYCLE" ELSE "UNKNOWN_CYCLE"]

StaleCheck(outcome, fresh) ==
    IF ~fresh /\ outcome.state.status = "HEALTHY"
    THEN [state |-> [outcome.state EXCEPT !.status = "DEGRADED"], reason |-> "STALE_HEARTBEAT"]
    ELSE outcome

Evaluate(s, c, verdict, fresh, gates) ==
    StaleCheck(CASE verdict = "FAILED" -> AfterFailure(s)
                 [] verdict = "SUCCESS" -> AfterSuccess(s, c, fresh, gates)
                 [] OTHER -> AfterUncertainty(s, verdict),
               fresh)

\* Mutant: the last moment of the cooldown is left out.
CooldownActiveLate(s) == s.cooldown > now + 1

CooldownActive(s) == s.cooldown > now

\* finishDecision: what the decision triggers.
Finish(state, reason, c, verdict, valid) ==
    [cycle |-> c, verdict |-> verdict, reason |-> reason, at |-> now,
     incident |-> reason \in {"EXCLUSION_THRESHOLD_REACHED", "CRITICAL_TRUST_FAILURE"},
     replacement |-> \/ reason = "CRITICAL_TRUST_FAILURE"
                     \/ reason = "EXCLUSION_THRESHOLD_REACHED" /\ ~CooldownActive(state),
     policy |-> valid]

----------------------------------------------------------------------------
\* evaluateAndApplyDecision.

LoadState(e) ==
    /\ e \notin current
    /\ current' = current \cup {e}
    /\ UNCHANGED <<now, faults, evidence, policy, st, decisions, consumed, acting>>

\* The version check, and the bound.  A call sent again after its answer was lost finds
\* its decision by the idempotency key, and one of an evaluator that lost the race finds
\* a newer version: neither changes anything.
MayDecide(e) == e \in current /\ Len(decisions) < MaxDecisions

\* The cycle of the last decision that had one.
LastCycle == LET cycles == {decisions[i].cycle : i \in DOMAIN decisions}
             IN  CHOOSE c \in cycles \cup {0} : \A d \in cycles : d <= c

Newer(c) == c > LastCycle

Decide(state, decision) ==
    /\ st' = state
    /\ decisions' = Append(decisions, decision)
    /\ current' = {}
    /\ UNCHANGED <<now, evidence, policy, acting>>

\* A cycle under a valid policy.
DecideCycle(e) ==
    /\ MayDecide(e)
    /\ policy
    /\ \E c \in Started, v \in {r.version : r \in Reports}, fresh, gates \in BOOLEAN :
        /\ Newer(c)
        /\ \E inputs \in SUBSET Eligible(c, v) : \E votes \in Votes(inputs) :
            LET outcome == Evaluate(st, c, Verdict(votes), fresh, gates) IN
            /\ consumed' = consumed \cup votes
            /\ Decide(outcome.state, Finish(outcome.state, outcome.reason, c, Verdict(votes), TRUE))
    /\ UNCHANGED faults

\* Without a policy the results are rejected, not consumed, and the cycle stays undecided.
DecideWithoutPolicy(e) ==
    /\ MayDecide(e)
    /\ ~policy
    /\ \E c \in Started : Newer(c)
    /\ LET state == [st EXCEPT !.status = AtLeastDegraded(@)] IN
       Decide(state, Finish(state, "POLICY_UNAVAILABLE", 0, "none", FALSE))
    /\ UNCHANGED <<consumed, faults>>

DecideCriticalTrustFailure(e) ==
    /\ MayDecide(e)
    /\ Fault
    /\ LET state == [st EXCEPT !.status = "QUARANTINED", !.excluded = TRUE,
                               !.recoveries = 0, !.window = 0]
       IN  Decide(state, Finish(state, "CRITICAL_TRUST_FAILURE", 0, "none", policy))
    /\ UNCHANGED consumed

\* An activation, or a release whose schema accepts or refuses the active configuration.
ChangePolicy ==
    /\ Fault
    /\ policy' = ~policy
    /\ UNCHANGED <<now, evidence, st, decisions, consumed, current, acting>>

----------------------------------------------------------------------------
\* materializeDecisionActions, resolveIncident and the operation's executor.

\* Mutant: the decision is not locked.
AlwaysUnlocked(d) == TRUE

Unlocked(d) == \A w \in Workers : task[w].decision # d

\* The advisory lock of the decision, its row, and the search for its incident.
BeginMaterialize(w, d) ==
    /\ task[w] = Idle
    /\ decisions[d].incident
    /\ Unlocked(d)
    /\ task' = [task EXCEPT ![w] = [decision |-> d,
                                    found |-> \E i \in DOMAIN incidents : incidents[i].decision = d]]
    /\ UNCHANGED <<now, faults, evidence, ruling, incidents>>

OperationExpected(d) == decisions[d].replacement /\ decisions[d].policy

\* The incident and its operation are created in one transaction, or found.
CommitMaterialize(w) ==
    /\ task[w] # Idle
    /\ ~task[w].found => Len(incidents) < MaxIncidents
    /\ LET d == task[w].decision IN
       incidents' = IF task[w].found THEN incidents
                    ELSE Append(incidents, [decision |-> d, status |-> "OPEN",
                                            operation |-> IF OperationExpected(d) THEN "PENDING" ELSE "none"])
    /\ task' = [task EXCEPT ![w] = Idle]
    /\ UNCHANGED <<now, faults, evidence, ruling>>

\* The worker dies or its connection is lost: the transaction is rolled back.
AbortMaterialize(w) ==
    /\ task[w] # Idle
    /\ task' = [task EXCEPT ![w] = Idle]
    /\ UNCHANGED <<now, faults, evidence, ruling, incidents>>

\* protect_node_operation_lifecycle: the transitions the database admits.
OperationStep(from) == CASE from = "PENDING" -> {"RUNNING", "FAILED"}
                         [] from = "RUNNING" -> {"SUCCEEDED", "FAILED"}
                         [] OTHER -> {}

ExecuteOperation(i) ==
    /\ \E status \in OperationStep(incidents[i].operation) :
        incidents' = [incidents EXCEPT ![i].operation = status]
    /\ UNCHANGED <<now, faults, evidence, ruling, task>>

\* Mutant: an operation that has not started yet is forgotten.
ResolvableUnlessRunning(incident) == incident.operation # "RUNNING"

Resolvable(incident) == incident.operation \in {"none", "SUCCEEDED", "FAILED"}

ResolveIncident(i) ==
    /\ incidents[i].status = "OPEN"
    /\ Resolvable(incidents[i])
    /\ incidents' = [incidents EXCEPT ![i].status = "RESOLVED"]
    /\ UNCHANGED <<now, faults, evidence, ruling, task>>

Tick ==
    /\ now < MaxNow
    /\ now' = now + 1
    /\ UNCHANGED <<faults, evidence, ruling, acting>>

Next ==
    \/ \E s \in Sources : RotateCredential(s) \/ RevokeCredential(s) \/ InstallCredential(s)
    \/ \E r \in Reports, c \in Started : Ingest(r, c)
    \/ \E e \in Evaluators :
        LoadState(e) \/ DecideCycle(e) \/ DecideWithoutPolicy(e) \/ DecideCriticalTrustFailure(e)
    \/ ChangePolicy
    \/ \E w \in Workers :
        \/ \E d \in DOMAIN decisions : BeginMaterialize(w, d)
        \/ CommitMaterialize(w) \/ AbortMaterialize(w)
    \/ \E i \in DOMAIN incidents : ExecuteOperation(i) \/ ResolveIncident(i)
    \/ Tick

Spec == Init /\ [][Next]_vars

----------------------------------------------------------------------------
\* Every variable keeps its type; above all a HEALTHY row is never excluded, which
\* the table's check would refuse after the decision was computed.
TypeOK ==
    /\ now \in 1..MaxNow
    /\ credential \in [Sources -> {"held", "issued", "none"}]
    /\ results \subseteq Result
    /\ policy \in BOOLEAN
    /\ st \in State /\ (st.status = "HEALTHY" => ~st.excluded)
    /\ decisions \in Seq(Decision)
    /\ consumed \subseteq results
    /\ current \subseteq Evaluators
    /\ incidents \in Seq(Incident)
    /\ task \in [Workers -> [decision : Nat, found : BOOLEAN]]

\* The trusted results of the cycle show this outcome from a quorum of sources that
\* are different and independent of each other.
Shows(c, outcome) ==
    \E v \in {r.version : r \in Reports} :
        \E rows \in SUBSET {r \in results : Trusted(r, c, v) /\ r.outcome = outcome} :
            /\ \A r, q \in rows : r # q => r.source # q.source /\ r.key # q.key
            /\ Cardinality(rows) >= Quorum

\* The cycles decided with one of these verdicts before decision i.
DecidedBefore(i, verdicts) ==
    {decisions[j].cycle : j \in {k \in 1..(i - 1) : decisions[k].verdict \in verdicts}}

\* A route is excluded, and a replacement asked for, only when that many different
\* cycles since its last successful one each failed in the same way for a quorum of
\* independent sources: no lost answer, late result or second evaluator counts a
\* cycle or a source twice.
ExclusionIsBacked ==
    \A i \in DOMAIN decisions :
        decisions[i].reason = "EXCLUSION_THRESHOLD_REACHED" =>
            Cardinality({c \in 1..decisions[i].cycle :
                            /\ \E class \in Classes : Shows(c, class)
                            /\ \A d \in DecidedBefore(i, {"SUCCESS"}) : c > d}) >= ExcludeCycles

\* A route becomes healthy only after that many different cycles, none of them failed or
\* uncertain and the first of them long enough ago, succeeded for a quorum of independent
\* sources.
RecoveryIsBacked ==
    \A i \in DOMAIN decisions :
        decisions[i].reason = "RECOVERY_CONFIRMED" =>
            LET series == {c \in 1..decisions[i].cycle :
                              /\ Shows(c, "SUCCESS")
                              /\ \A d \in DecidedBefore(i, Verdicts \ {"SUCCESS"}) : c > d}
            IN  /\ Cardinality(series) >= RecoveryCycles
                /\ \E c \in series : decisions[i].at - c >= RecoveryMinimum

\* After a recovery no failed cycle asks for a replacement before the cooldown is over,
\* whatever is decided in between.
CooldownHolds ==
    \A i, j \in DOMAIN decisions :
        (/\ i < j
         /\ decisions[i].reason = "RECOVERY_CONFIRMED"
         /\ decisions[j].replacement
         /\ decisions[j].reason # "CRITICAL_TRUST_FAILURE")
            => decisions[j].at >= decisions[i].at + Cooldown

\* A decision leads to one incident however many workers materialize it, die on the
\* way or start again, and the incident has its operation exactly when the decision
\* asks for a replacement under a policy.
MaterializedOnce ==
    \A i \in DOMAIN incidents :
        /\ (incidents[i].operation # "none") = OperationExpected(incidents[i].decision)
        /\ \A j \in DOMAIN incidents : incidents[i].decision = incidents[j].decision => i = j

\* A resolved incident has no operation that still runs or will run.
ResolvedIsSettled ==
    \A i \in DOMAIN incidents :
        incidents[i].status = "RESOLVED" => incidents[i].operation \in {"none", "SUCCEEDED", "FAILED"}

\* No evidence brings a quarantined route back: it stays excluded until an explicit
\* recovery operation, which this code does not have.
QuarantineHolds ==
    [][st.status = "QUARANTINED" => st'.status = "QUARANTINED" /\ st'.excluded]_vars
=============================================================================
