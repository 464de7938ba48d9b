------------------------------ MODULE MCClient ------------------------------
(* Two calls and two closes at once.  Sessions: one per call and closer that *)
(* may still hold an old one, so that a new one can always be opened.        *)
EXTENDS GC3Client

CONSTANTS c1, c2, k1, k2, s1, s2, s3

MCCalls == {c1, c2}
MCClosers == {k1, k2}
MCSessions == {s1, s2, s3}
=============================================================================
