----------------------------- MODULE PathFilter ------------------------------
(****************************************************************************)
(* gPathFilter and gFilterLock of program/loader.cpp, with the Bloom filter *)
(* of program/bloomfilter.hpp under them.                                    *)
(*                                                                          *)
(* One thread at a time indexes (the main thread during start-up, then the  *)
(* indexer thread): it takes gFilterLock exclusively and sets the bits of a *)
(* key one at a time.  The game's threads query through InFilter: they take *)
(* the lock shared and test the bits in the same order, stopping at the     *)
(* first that is clear.  Murmur3 is a pair of functions HashA, HashB that   *)
(* may be anything at all.                                                  *)
(****************************************************************************)
EXTENDS Naturals

CONSTANTS
  Keys,                 \* relative paths, as the filter sees them
  Readers,              \* game threads
  FILTER_SIZE,          \* bits in the filter
  HASH_FUNCTION_COUNT,  \* bits per key
  HashMod,              \* 2^64 in the code: the width of the hash words
  HashA(_), HashB(_)    \* the two words of the 128-bit murmur3 hash

ASSUME FilterAssumption ==
  /\ FILTER_SIZE \in Nat \ {0}
  /\ HASH_FUNCTION_COUNT \in Nat \ {0}
  /\ HashMod \in Nat \ {0}
  /\ \A k \in Keys : HashA(k) \in Nat /\ HashB(k) \in Nat
  /\ "none" \notin Keys

VARIABLES
  mFilter,      \* the positions of the bits that are set
  writeLocked,  \* gFilterLock is held exclusively
  readLocks,    \* the readers that hold gFilterLock shared
  adding,       \* the key being added, or None
  wn,           \* add's loop counter
  asked,        \* asked[r]: the key r is looking up, or None
  rn,           \* rn[r]: contains' loop counter
  answer,       \* answer[r]: what the last lookup of r returned
  keys          \* history: the keys whose add has returned

vars == <<mFilter, writeLocked, readLocks, adding, wn, asked, rn, answer, keys>>
writerVars == <<mFilter, writeLocked, adding, wn, keys>>

None == "none"

\* A probe that is not reduced to the size of the filter.
BitIndexUnreduced(n, hashA, hashB) == (hashA + n * hashB) % HashMod

BitIndex(n, hashA, hashB) == ((hashA + n * hashB) % HashMod) % FILTER_SIZE

Bit(k, n) == BitIndex(n, HashA(k), HashB(k))

Probes == 0 .. HASH_FUNCTION_COUNT - 1

\* The bits the first n rounds of add or contains touch.
BitsTo(k, n) == {Bit(k, i) : i \in {i \in Probes : i < n}}

BitsOf(k) == {Bit(k, i) : i \in Probes}

Init ==
  /\ mFilter = {}
  /\ writeLocked = FALSE
  /\ readLocks = {}
  /\ adding = None
  /\ wn = 0
  /\ asked = [r \in Readers |-> None]
  /\ rn = [r \in Readers |-> 0]
  /\ answer = [r \in Readers |-> None]
  /\ keys = {}

-----------------------------------------------------------------------------
(* The indexing thread. *)

\* ProcessDirectoryRecursive reaches gPathFilter.add and waits for the lock.
BeginAdd(k) ==
  /\ adding = None
  /\ adding' = k
  /\ wn' = 0
  /\ UNCHANGED <<mFilter, writeLocked, readLocks, asked, rn, answer, keys>>

AcquireExclusive ==
  /\ adding # None
  /\ ~writeLocked
  /\ readLocks = {}
  /\ writeLocked' = TRUE
  /\ UNCHANGED <<mFilter, readLocks, adding, wn, asked, rn, answer, keys>>

\* One round of add's loop.
SetBit ==
  /\ adding # None
  /\ writeLocked
  /\ wn < HASH_FUNCTION_COUNT
  /\ mFilter' = mFilter \cup {Bit(adding, wn)}
  /\ wn' = wn + 1
  /\ UNCHANGED <<writeLocked, readLocks, adding, asked, rn, answer, keys>>

\* An add that stops one round early.
EndAddEarly ==
  /\ adding # None
  /\ writeLocked
  /\ wn = HASH_FUNCTION_COUNT - 1
  /\ keys' = keys \cup {adding}
  /\ adding' = None
  /\ wn' = 0
  /\ writeLocked' = FALSE
  /\ UNCHANGED <<mFilter, readLocks, asked, rn, answer>>

\* add returns and the scoped_lock goes out of scope.
EndAdd ==
  /\ adding # None
  /\ writeLocked
  /\ wn = HASH_FUNCTION_COUNT
  /\ keys' = keys \cup {adding}
  /\ adding' = None
  /\ wn' = 0
  /\ writeLocked' = FALSE
  /\ UNCHANGED <<mFilter, readLocks, asked, rn, answer>>

-----------------------------------------------------------------------------
(* A game thread in InFilter. *)

BeginLookup(r, k) ==
  /\ asked[r] = None
  /\ asked' = [asked EXCEPT ![r] = k]
  /\ answer' = [answer EXCEPT ![r] = None]
  /\ rn' = [rn EXCEPT ![r] = 0]
  /\ UNCHANGED <<writerVars, readLocks>>

\* A lookup that does not wait for the writer.
AcquireNothing(r) ==
  /\ asked[r] # None
  /\ r \notin readLocks
  /\ readLocks' = readLocks \cup {r}
  /\ UNCHANGED <<writerVars, asked, rn, answer>>

AcquireShared(r) ==
  /\ asked[r] # None
  /\ r \notin readLocks
  /\ ~writeLocked
  /\ readLocks' = readLocks \cup {r}
  /\ UNCHANGED <<writerVars, asked, rn, answer>>

\* One round of contains' loop whose bit is set.
TestBit(r) ==
  /\ r \in readLocks
  /\ rn[r] < HASH_FUNCTION_COUNT
  /\ Bit(asked[r], rn[r]) \in mFilter
  /\ rn' = [rn EXCEPT ![r] = @ + 1]
  /\ UNCHANGED <<writerVars, readLocks, asked, answer>>

\* contains returns res; the shared_lock goes out of scope with it.
ReturnLookup(r, res) ==
  /\ r \in readLocks
  /\ \/ /\ res = "miss"
        /\ rn[r] < HASH_FUNCTION_COUNT
        /\ Bit(asked[r], rn[r]) \notin mFilter
     \/ /\ res = "hit"
        /\ rn[r] = HASH_FUNCTION_COUNT
  /\ answer' = [answer EXCEPT ![r] = res]
  /\ asked' = [asked EXCEPT ![r] = None]
  /\ rn' = [rn EXCEPT ![r] = 0]
  /\ readLocks' = readLocks \ {r}
  /\ UNCHANGED writerVars

-----------------------------------------------------------------------------
Next ==
  \/ \E k \in Keys : BeginAdd(k)
  \/ AcquireExclusive
  \/ SetBit
  \/ EndAdd
  \/ \E r \in Readers :
       \/ \E k \in Keys : BeginLookup(r, k)
       \/ AcquireShared(r)
       \/ TestBit(r)
       \/ \E res \in {"hit", "miss"} : ReturnLookup(r, res)

Spec == Init /\ [][Next]_vars

-----------------------------------------------------------------------------
(* Properties. *)

\* Every variable keeps its type; in particular no probe of add lies outside
\* the bitset (BitIndex of bloomfilter.hpp).
TypeOK ==
  /\ mFilter \subseteq 0 .. FILTER_SIZE - 1
  /\ writeLocked \in BOOLEAN
  /\ readLocks \subseteq Readers
  /\ adding \in Keys \cup {None}
  /\ wn \in 0 .. HASH_FUNCTION_COUNT
  /\ asked \in [Readers -> Keys \cup {None}]
  /\ rn \in [Readers -> 0 .. HASH_FUNCTION_COUNT]
  /\ answer \in [Readers -> {None, "hit", "miss"}]
  /\ keys \subseteq Keys

\* The lock: no thread is between the rounds of contains while one adds.
LockExcludes ==
  writeLocked => readLocks = {}

\* A key whose add has returned has all its bits set for good, whatever is
\* being added or looked up meanwhile: the filter has no false negatives.
NoFalseNegative ==
  \A k \in keys : BitsOf(k) \subseteq mFilter

\* The filter is, at every moment, the union of the prints of the keys added
\* and of the rounds done of the key being added: nothing else sets a bit and
\* nothing clears one.
FilterExact ==
  mFilter = (UNION {BitsOf(k) : k \in keys})
              \cup (IF adding = None THEN {} ELSE BitsTo(adding, wn))

\* A key is partly in the filter only while the lock is held exclusively.
PartialOnlyLocked ==
  wn > 0 => writeLocked

\* The bits a reader has passed are in the filter while it holds the lock, so
\* its answer is the one an atomic test at the moment of return would give.
PassedBitsSet ==
  \A r \in Readers :
    IF r \in readLocks
    THEN asked[r] # None /\ BitsTo(asked[r], rn[r]) \subseteq mFilter
    ELSE rn[r] = 0

\* The conjunction that is inductive.
IInv ==
  /\ TypeOK
  /\ LockExcludes
  /\ FilterExact
  /\ PartialOnlyLocked
  /\ PassedBitsSet

\* The lock makes insertion and lookup atomic: the filter implements ApproxSet.
Abs == INSTANCE ApproxSet
AbsSpec == Abs!Spec
==============================================================================
