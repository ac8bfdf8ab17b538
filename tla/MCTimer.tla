------------------------------ MODULE MCTimer ------------------------------
\* Two timers of one isolate, nested or one of them detached.
EXTENDS Timer, TLC

CONSTANTS a, t1, t2, h1, h2, h3

MCMs == t1 :> 1 @@ t2 :> 1
=============================================================================
