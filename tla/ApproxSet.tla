------------------------------ MODULE ApproxSet ------------------------------
(****************************************************************************)
(* What the path filter promises its callers: a set of keys that only grows *)
(* and whose queries are answered atomically.  A query for a key that was   *)
(* added is answered "hit"; a query for any other key is answered "hit"     *)
(* only when the added keys together cover every position of its print.    *)
(* Nothing of bits set one at a time, of locks or of waiting is visible.    *)
(****************************************************************************)

CONSTANTS
  Keys,        \* the strings that are added and queried
  Readers,     \* the threads that query
  BitsOf(_)     \* the positions a key occupies

VARIABLES
  keys,        \* the keys whose insertion has completed
  asked,       \* asked[r]: the key reader r is waiting for an answer to
  answer       \* answer[r]: the last answer reader r was given

absVars == <<keys, asked, answer>>

None == "none"

Covered(k) == BitsOf(k) \subseteq UNION {BitsOf(j) : j \in keys}

Init ==
  /\ keys = {}
  /\ asked = [r \in Readers |-> None]
  /\ answer = [r \in Readers |-> None]

Add ==
  /\ \E k \in Keys : keys' = keys \cup {k}
  /\ UNCHANGED <<asked, answer>>

Ask(r) ==
  /\ asked[r] = None
  /\ \E k \in Keys : asked' = [asked EXCEPT ![r] = k]
  /\ answer' = [answer EXCEPT ![r] = None]
  /\ UNCHANGED keys

Answer(r) ==
  /\ asked[r] # None
  /\ answer' = [answer EXCEPT ![r] = IF Covered(asked[r]) THEN "hit" ELSE "miss"]
  /\ asked' = [asked EXCEPT ![r] = None]
  /\ UNCHANGED keys

Next == Add \/ \E r \in Readers : Ask(r) \/ Answer(r)

Spec == Init /\ [][Next]_absVars
==============================================================================
