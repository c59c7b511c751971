---------------------------- MODULE MCNlpPipeline ----------------------------
(* Instances of NlpPipeline for TLC. *)
EXTENDS NlpPipeline, TLC

CONSTANTS p1, p2, w1, w2, k1, k2, a, b

Alike == Permutations({p1, p2}) \cup Permutations({w1, w2}) \cup Permutations({k1, k2})
           \cup Permutations({a, b})

\* What a step can still read of a job.  One that has ended is never claimed again,
\* so that its counter is not read; the input of the newest job is the state's, and
\* that of an older one is not read.
LiveRow(row) ==
  IF row.status \in ActiveStatuses THEN row ELSE [row EXCEPT !.attempts = 0, !.due = TRUE]

Seen == <<document, extraction, state, current, enriched, holder, worker,
          [p \in Processors |-> [g \in DOMAIN job[p] |-> LiveRow(job[p][g].row)]]>>
=============================================================================
