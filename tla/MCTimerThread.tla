---------------------------- MODULE MCTimerThread ----------------------------
(* A small instance of TimerThread for TLC: two clients, a job that uses the  *)
(* timer while it runs, an ordinary and a persistent job.                     *)
EXTENDS TimerThread

CONSTANTS c1, c2, j1, j2, p1, worker
=============================================================================
