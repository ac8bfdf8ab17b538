----------------------------- MODULE MCInspector -----------------------------
EXTENDS Inspector, TLC

CONSTANTS s1, s2, m1, m2, m3

\* Two messages by the first session, the second of which resumes, and one by
\* the other.
MCFrom == m1 :> s1 @@ m2 :> s1 @@ m3 :> s2
==============================================================================
