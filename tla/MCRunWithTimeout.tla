-------------------------- MODULE MCRunWithTimeout --------------------------
\* Up to three levels of calls, on the threads of the isolate and of the loop.
EXTENDS RunWithTimeout, TLC
=============================================================================
