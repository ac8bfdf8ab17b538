------------------------------- MODULE MCUvRef -------------------------------
\* nodejs, two isolates, and up to three closures in the pool at a time.
EXTENDS UvRef

CONSTANTS node, a, b, s1, s2, s3
=============================================================================
