---------------------------- MODULE MCPathFilter -----------------------------
(* Three keys over a filter of four bits, two bits per key.  MCHashA and       *)
(* MCHashB are chosen so that k3 collides with k1 and k2 taken together (the   *)
(* false positive) and the sum wraps at HashMod for k2.                        *)
EXTENDS PathFilter

CONSTANTS k1, k2, k3

MCHashA(k) == CASE k = k1 -> 0 [] k = k2 -> 7 [] k = k3 -> 1
MCHashB(k) == CASE k = k1 -> 1 [] k = k2 -> 3 [] k = k3 -> 1
==============================================================================
