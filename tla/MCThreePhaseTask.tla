-------------------------- MODULE MCThreePhaseTask --------------------------
\* Three isolates and the calls between them: nodejs calls `a` twice, the second
\* time without a promise, and a task of `a` calls `b`.
EXTENDS ThreePhaseTask, TLC

CONSTANTS node, a, b, c1, c2, c3

MCFirst == c1 :> node @@ c2 :> node @@ c3 :> a
MCSecond == c1 :> a @@ c2 :> a @@ c3 :> b
=============================================================================
