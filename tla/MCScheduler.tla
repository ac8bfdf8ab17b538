----------------------------- MODULE MCScheduler -----------------------------
\* Three threads: one that runs the isolate, one that posts, one that disposes.
EXTENDS Scheduler
=============================================================================
