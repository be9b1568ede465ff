----------------------------- MODULE MCJobQueue -----------------------------
(* Instances of JobQueue for TLC.                                          *)
EXTENDS JobQueue

Env(processes, enqueued, c, e) ==
  [processes |-> processes, jobs |-> enqueued, crashes |-> c, errors |-> e]

\* One process over two jobs; two processes over one job, with as much trouble;
\* two processes over two jobs, with a crash.
Deployments == {Env({"i1"}, {"j1", "j2"}, 2, 2),
                Env({"i1", "i2"}, {"j1"}, 2, 2),
                Env({"i1", "i2"}, {"j1", "j2"}, 1, 0)}

\* Two processes, nothing fails.
Pair == {Env({"i1", "i2"}, {"j1"}, 0, 0)}
=============================================================================
