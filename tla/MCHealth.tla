------------------------------ MODULE MCHealth ------------------------------
EXTENDS Health

CONSTANTS s1, s2

Report(s, k, outcome) ==
    [source |-> s, key |-> k, outcome |-> outcome, control |-> TRUE, version |-> 1]

\* Two independent sources, the second of which has had the key of the first; reports that
\* do not count: of a source that cannot reach anything, of a failed probe, of another route.
EvidenceReports ==
    {Report(s1, "k1", outcome) : outcome \in {"SUCCESS", "DNS"}}
        \cup {Report(s2, "k2", outcome) : outcome \in {"SUCCESS", "DNS", "PROBE_SOURCE_FAILURE"}}
        \cup {Report(s2, "k1", "DNS"),
              [Report(s2, "k2", "DNS") EXCEPT !.control = FALSE],
              [Report(s2, "k2", "SUCCESS") EXCEPT !.version = 2]}

\* One source that is enough for a verdict.
SeriesReports == {Report(s1, "k1", outcome) : outcome \in {"SUCCESS", "DNS"}}
=============================================================================
