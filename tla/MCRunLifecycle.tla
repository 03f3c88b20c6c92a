-------------------------- MODULE MCRunLifecycle --------------------------
(* One session, its runs, and the callers that race over them.             *)
EXTENDS RunLifecycle, TLC
CONSTANTS r1, r2, u1, p1, p2, q1, q2

NoneSet == {}
OneRun == {r1}
OneUser == {u1}
OneReader == {p1}
TwoReaders == {p1, p2}
MCProcesses == {q1, q2}
OneProcess == [p \in Readers |-> q1]
OwnProcesses == p1 :> q1 @@ p2 :> q2

=============================================================================
