-------------------------- MODULE PathFilterProofs ---------------------------
(* Proofs about PathFilter, for every hash function, filter size, number of  *)
(* probes and set of reading threads.                                        *)
EXTENDS PathFilter, TLAPS

(* The position a probe falls on is a position of the bitset: BitIndex of      *)
(* bloomfilter.hpp never indexes past mFilter.                                 *)
LEMMA BitInFilter ==
  ASSUME NEW k \in Keys, NEW n \in Probes
  PROVE  Bit(k, n) \in 0 .. FILTER_SIZE - 1
<1> DEFINE s == HashA(k) + n * HashB(k)
<1>1. n \in Nat
  BY FilterAssumption DEF Probes
<1>2. n * HashB(k) \in Nat
  BY <1>1, FilterAssumption
<1>3. s \in Nat
  BY <1>2, FilterAssumption
<1>4. s % HashMod \in Nat
  BY <1>3, FilterAssumption
<1>5. (s % HashMod) % FILTER_SIZE \in 0 .. FILTER_SIZE - 1
  BY <1>4, FilterAssumption
<1>6. QED
  BY <1>5 DEF Bit, BitIndex

(* One more round touches one more bit, no round touches none, and all rounds   *)
(* touch the whole print (the loops of add and contains).                       *)
LEMMA BitsToStep ==
  ASSUME NEW k \in Keys
  PROVE  /\ BitsTo(k, 0) = {}
         /\ BitsTo(k, HASH_FUNCTION_COUNT) = BitsOf(k)
         /\ \A n \in Probes : BitsTo(k, n + 1) = BitsTo(k, n) \cup {Bit(k, n)}
<1>1. BitsTo(k, 0) = {}
  BY FilterAssumption DEF BitsTo, Probes
<1>2. BitsTo(k, HASH_FUNCTION_COUNT) = BitsOf(k)
  <2>1. {i \in Probes : i < HASH_FUNCTION_COUNT} = Probes
    BY FilterAssumption DEF Probes
  <2>2. QED
    BY <2>1 DEF BitsTo, BitsOf
<1>3. ASSUME NEW n \in Probes
      PROVE  BitsTo(k, n + 1) = BitsTo(k, n) \cup {Bit(k, n)}
  <2>1. {i \in Probes : i < n + 1} = {i \in Probes : i < n} \cup {n}
    BY FilterAssumption DEF Probes
  <2>2. QED
    BY <2>1 DEF BitsTo
<1>4. QED
  BY <1>1, <1>2, <1>3

LEMMA InitIInv == Init => IInv
<1> SUFFICES ASSUME Init PROVE IInv
  OBVIOUS
<1> USE DEF Init
<1>1. TypeOK
  <2>1. 0 \in 0 .. HASH_FUNCTION_COUNT
    BY FilterAssumption
  <2>2. wn \in 0 .. HASH_FUNCTION_COUNT /\ rn \in [Readers -> 0 .. HASH_FUNCTION_COUNT]
    BY <2>1
  <2>3. QED
    BY <2>2 DEF TypeOK
<1>2. FilterExact
  BY DEF FilterExact
<1>3. LockExcludes /\ PartialOnlyLocked /\ PassedBitsSet
  BY DEF LockExcludes, PartialOnlyLocked, PassedBitsSet
<1>4. QED
  BY <1>1, <1>2, <1>3 DEF IInv

(* Types are kept by every step.                                              *)
LEMMA NextTypeOK == TypeOK /\ [Next]_vars => TypeOK'
<1> SUFFICES ASSUME TypeOK, [Next]_vars PROVE TypeOK'
  OBVIOUS
<1> USE DEF TypeOK
<1>1. ASSUME NEW k \in Keys, BeginAdd(k) PROVE TypeOK'
  BY <1>1, FilterAssumption DEF BeginAdd
<1>2. CASE AcquireExclusive
  BY <1>2 DEF AcquireExclusive
<1>3. CASE SetBit
  <2>1. wn \in Probes /\ adding \in Keys
    BY <1>3, FilterAssumption DEF SetBit, Probes
  <2>2. Bit(adding, wn) \in 0 .. FILTER_SIZE - 1
    BY <2>1, BitInFilter
  <2>3. wn' \in 0 .. HASH_FUNCTION_COUNT
    BY <1>3, FilterAssumption DEF SetBit
  <2>4. QED
    BY <1>3, <2>2, <2>3 DEF SetBit
<1>4. CASE EndAdd
  <2>1. wn' \in 0 .. HASH_FUNCTION_COUNT
    BY <1>4, FilterAssumption DEF EndAdd
  <2>2. keys' \subseteq Keys /\ adding' \in Keys \cup {None}
    BY <1>4 DEF EndAdd
  <2>3. QED
    BY <1>4, <2>1, <2>2 DEF EndAdd
<1>5. ASSUME NEW r \in Readers, NEW k \in Keys, BeginLookup(r, k) PROVE TypeOK'
  BY <1>5, FilterAssumption DEF BeginLookup, writerVars
<1>6. ASSUME NEW r \in Readers, AcquireShared(r) PROVE TypeOK'
  BY <1>6 DEF AcquireShared, writerVars
<1>7. ASSUME NEW r \in Readers, TestBit(r) PROVE TypeOK'
  <2>1. rn[r] + 1 \in 0 .. HASH_FUNCTION_COUNT
    BY <1>7, FilterAssumption DEF TestBit
  <2>2. rn' = [rn EXCEPT ![r] = rn[r] + 1]
    BY <1>7 DEF TestBit
  <2>3. rn' \in [Readers -> 0 .. HASH_FUNCTION_COUNT]
    BY <2>1, <2>2
  <2>4. QED
    BY <1>7, <2>3 DEF TestBit, writerVars
<1>8. ASSUME NEW r \in Readers, NEW res \in {"hit", "miss"}, ReturnLookup(r, res)
      PROVE TypeOK'
  BY <1>8, FilterAssumption DEF ReturnLookup, writerVars
<1>9. CASE UNCHANGED vars
  BY <1>9 DEF vars
<1>10. QED
  BY <1>1, <1>2, <1>3, <1>4, <1>5, <1>6, <1>7, <1>8, <1>9 DEF Next

(* The lock excludes readers from the writer, so nothing a reader has tested     *)
(* changes before it answers.                                                   *)
LEMMA NextIInv == IInv /\ [Next]_vars => IInv'
<1> SUFFICES ASSUME IInv, [Next]_vars PROVE IInv'
  OBVIOUS
<1>0. TypeOK /\ TypeOK'
  BY NextTypeOK DEF IInv
<1> USE <1>0
<1> USE DEF LockExcludes, FilterExact, PartialOnlyLocked, PassedBitsSet
<1>1. ASSUME NEW k \in Keys, BeginAdd(k) PROVE IInv'
  <2>1. wn = 0 \/ writeLocked
    BY DEF IInv, TypeOK
  <2>2. BitsTo(k, 0) = {}
    BY BitsToStep
  <2>3. k # None
    BY FilterAssumption DEF None
  <2>4. QED
    BY <1>1, <2>2, <2>3 DEF IInv, BeginAdd
<1>2. CASE AcquireExclusive
  BY <1>2 DEF IInv, AcquireExclusive
<1>3. CASE SetBit
  <2>1. wn \in Probes /\ adding \in Keys
    BY <1>3, FilterAssumption DEF SetBit, Probes, TypeOK
  <2>2. BitsTo(adding, wn + 1) = BitsTo(adding, wn) \cup {Bit(adding, wn)}
    BY <2>1, BitsToStep
  <2>3. FilterExact'
    BY <1>3, <2>2 DEF IInv, SetBit
  <2>4. QED
    BY <1>3, <2>3 DEF IInv, SetBit
<1>4. CASE EndAdd
  <2>1. adding \in Keys
    BY <1>4 DEF EndAdd, TypeOK
  <2>2. BitsTo(adding, wn) = BitsOf(adding)
    BY <1>4, <2>1, BitsToStep DEF EndAdd
  <2>3. FilterExact'
    BY <1>4, <2>2 DEF IInv, EndAdd
  <2>4. QED
    BY <1>4, <2>3 DEF IInv, EndAdd
<1>5. ASSUME NEW r \in Readers, NEW k \in Keys, BeginLookup(r, k) PROVE IInv'
  BY <1>5 DEF IInv, BeginLookup, writerVars, TypeOK
<1>6. ASSUME NEW r \in Readers, AcquireShared(r) PROVE IInv'
  <2>1. asked[r] \in Keys /\ rn[r] = 0
    BY <1>6 DEF IInv, AcquireShared, TypeOK
  <2>2. BitsTo(asked[r], 0) = {}
    BY <2>1, BitsToStep
  <2>3. QED
    BY <1>6, <2>1, <2>2 DEF IInv, AcquireShared, writerVars, TypeOK
<1>7. ASSUME NEW r \in Readers, TestBit(r) PROVE IInv'
  <2>1. asked[r] \in Keys /\ rn[r] \in Probes
    BY <1>7, FilterAssumption DEF IInv, TestBit, TypeOK, Probes
  <2>2. BitsTo(asked[r], rn[r] + 1) = BitsTo(asked[r], rn[r]) \cup {Bit(asked[r], rn[r])}
    BY <2>1, BitsToStep
  <2>3. PassedBitsSet'
    BY <1>7, <2>2 DEF IInv, TestBit, writerVars, TypeOK
  <2>4. QED
    BY <1>7, <2>3 DEF IInv, TestBit, writerVars
<1>8. ASSUME NEW r \in Readers, NEW res \in {"hit", "miss"}, ReturnLookup(r, res)
      PROVE IInv'
  BY <1>8 DEF IInv, ReturnLookup, writerVars, TypeOK
<1>9. CASE UNCHANGED vars
  BY <1>9 DEF IInv, vars
<1>10. QED
  BY <1>1, <1>2, <1>3, <1>4, <1>5, <1>6, <1>7, <1>8, <1>9 DEF Next

LEMMA Inductive == Spec => []IInv
  BY InitIInv, NextIInv, PTL DEF Spec

(* The variables of the filter keep their types; no probe leaves the bitset.     *)
THEOREM TypeCorrect == Spec => []TypeOK
<1>1. IInv => TypeOK
  BY DEF IInv
<1>2. QED
  BY <1>1, Inductive, PTL

(* A path whose add has returned is found by every later lookup, for every hash    *)
(* function and every filter size.                                                *)
THEOREM NoFalseNegatives == Spec => []NoFalseNegative
<1>1. IInv => NoFalseNegative
  BY DEF IInv, FilterExact, NoFalseNegative
<1>2. QED
  BY <1>1, Inductive, PTL

(* The answer given by contains while the shared lock is held is the one the        *)
(* completed adds determine.                                                        *)
LEMMA AnswerExact ==
  ASSUME IInv, NEW r \in Readers, NEW res \in {"hit", "miss"}, ReturnLookup(r, res)
  PROVE  asked[r] \in Keys /\ (res = "hit" <=> Abs!Covered(asked[r]))
<1>1. asked[r] \in Keys /\ rn[r] \in 0 .. HASH_FUNCTION_COUNT
  BY DEF IInv, TypeOK, PassedBitsSet, ReturnLookup
<1>2. ~writeLocked /\ wn = 0
  BY DEF IInv, TypeOK, LockExcludes, PartialOnlyLocked, ReturnLookup
<1>3. mFilter = UNION {BitsOf(k) : k \in keys}
  <2>1. CASE adding = None
    BY <2>1 DEF IInv, FilterExact
  <2>2. CASE adding # None
    <3>1. adding \in Keys
      BY <2>2 DEF IInv, TypeOK
    <3>2. BitsTo(adding, wn) = {}
      BY <1>2, <3>1, BitsToStep
    <3>3. QED
      BY <2>2, <3>2 DEF IInv, FilterExact
  <2>3. QED
    BY <2>1, <2>2
<1>4. CASE res = "hit"
  <2>1. BitsTo(asked[r], rn[r]) = BitsOf(asked[r])
    BY <1>1, <1>4, BitsToStep DEF ReturnLookup
  <2>2. QED
    BY <1>1, <1>3, <1>4, <2>1 DEF IInv, PassedBitsSet, ReturnLookup, Abs!Covered
<1>5. CASE res = "miss"
  <2>1. rn[r] \in Probes /\ Bit(asked[r], rn[r]) \notin mFilter
    BY <1>1, <1>5, FilterAssumption DEF ReturnLookup, Probes
  <2>2. Bit(asked[r], rn[r]) \in BitsOf(asked[r])
    BY <2>1 DEF BitsOf
  <2>3. QED
    BY <1>1, <1>3, <1>5, <2>1, <2>2 DEF Abs!Covered
<1>6. QED
  BY <1>4, <1>5

(* Insertion and lookup are atomic: setting and testing bits one at a time under    *)
(* gFilterLock implements a set of keys whose queries are answered in one step, and  *)
(* a hit on a key never added is explained by the prints of keys that were.          *)
THEOREM ImplementsApproxSet == Spec => AbsSpec
<1>1. Init => Abs!Init
  BY DEF Init, Abs!Init, None, Abs!None
<1>2. IInv /\ [Next]_vars => [Abs!Next]_(Abs!absVars)
  <2> SUFFICES ASSUME IInv, [Next]_vars PROVE [Abs!Next]_(Abs!absVars)
    OBVIOUS
  <2> USE DEF Abs!absVars, Abs!None, None
  <2>1. ASSUME NEW k \in Keys, BeginAdd(k) PROVE UNCHANGED Abs!absVars
    BY <2>1 DEF BeginAdd
  <2>2. CASE AcquireExclusive
    BY <2>2 DEF AcquireExclusive
  <2>3. CASE SetBit
    BY <2>3 DEF SetBit
  <2>4. CASE EndAdd
    <3>1. adding \in Keys
      BY <2>4 DEF EndAdd, IInv, TypeOK
    <3>2. Abs!Add
      BY <2>4, <3>1 DEF EndAdd, Abs!Add
    <3>3. QED
      BY <3>2 DEF Abs!Next
  <2>5. ASSUME NEW r \in Readers, NEW k \in Keys, BeginLookup(r, k) PROVE Abs!Next
    <3>1. Abs!Ask(r)
      BY <2>5 DEF BeginLookup, writerVars, Abs!Ask
    <3>2. QED
      BY <3>1 DEF Abs!Next
  <2>6. ASSUME NEW r \in Readers, AcquireShared(r) PROVE UNCHANGED Abs!absVars
    BY <2>6 DEF AcquireShared, writerVars
  <2>7. ASSUME NEW r \in Readers, TestBit(r) PROVE UNCHANGED Abs!absVars
    BY <2>7 DEF TestBit, writerVars
  <2>8. ASSUME NEW r \in Readers, NEW res \in {"hit", "miss"}, ReturnLookup(r, res)
        PROVE  Abs!Next
    <3>1. asked[r] \in Keys /\ (res = "hit" <=> Abs!Covered(asked[r]))
      BY <2>8, AnswerExact
    <3>2. res = IF Abs!Covered(asked[r]) THEN "hit" ELSE "miss"
      BY <2>8, <3>1
    <3>3. asked[r] # "none"
      BY <3>1, FilterAssumption
    <3>4. Abs!Answer(r)
      BY <2>8, <3>2, <3>3 DEF ReturnLookup, writerVars, Abs!Answer
    <3>5. QED
      BY <3>4 DEF Abs!Next
  <2>9. CASE UNCHANGED vars
    BY <2>9 DEF vars
  <2>10. QED
    BY <2>1, <2>2, <2>3, <2>4, <2>5, <2>6, <2>7, <2>8, <2>9 DEF Next
<1>3. QED
  BY <1>1, <1>2, Inductive, PTL DEF Spec, AbsSpec, Abs!Spec
==============================================================================
