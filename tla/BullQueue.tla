----------------------------- MODULE BullQueue -----------------------------
(* The Bull queue behind moleculer-bull, as the services of src/services use *)
(* it.  The library is not part of the repository, so these definitions are  *)
(* taken from the calls the code makes:                                      *)
(*   - createJob appends a job to the wait list of a queue;                  *)
(*   - `process` takes the oldest waiting job;                               *)
(*   - a job whose process rejects is moved to the failed set and, with the  *)
(*     default of one attempt, never run again;                              *)
(*   - a job whose worker died is put back in front of the wait list, once:  *)
(*     the second time (maxStalledCount, 1 by default) it is failed.         *)
EXTENDS Naturals, Sequences

\* A job is the datum it was created with and whether it has stalled before.
NewJob(d) == [data |-> d, stalled |-> FALSE]

JobOf(D) == [data : D, stalled : BOOLEAN]

Add(wait, d) == Append(wait, NewJob(d))

\* The wait list when a stalled job is put back in front of it.
Requeue(wait, job) == <<[job EXCEPT !.stalled = TRUE]>> \o wait

\* Data of the waiting jobs.
Waiting(wait) == {wait[i].data : i \in DOMAIN wait}

\* Elements of a list of createJob calls that have not reached Redis yet.
InFlight(sends) == {sends[i] : i \in DOMAIN sends}
=============================================================================
