--------------------------- MODULE FileAccessProofs ---------------------------
(* Proofs about what a game reads and names: the merged directory, for every        *)
(* number of entries and buffer size, and the paths, for every root, names and       *)
(* size of the buffers.                                                              *)
EXTENDS MergedDirectory, PathOps, SequenceTheorems, TLAPS

-----------------------------------------------------------------------------
(* The merged directory. *)

IInv == TypeOK /\ ModFirst /\ LossOnlyByError

(* What DoRead's arithmetic amounts to: it gives out the next entries of the       *)
(* merged directory, as many as there are and fit, and leaves the positions at     *)
(* the place after them.                                                           *)
LEMMA DoReadAdvances ==
  ASSUME IInv, NEW max \in 1 .. MaxRead, DoRead(max)
  PROVE  LET got == Abs!AtMost(max, Total - (pos1 + pos2))
         IN /\ given' = [i \in 1 .. got |-> pos1 + pos2 + i]
            /\ pos1' + pos2' = pos1 + pos2 + got
            /\ got \in 0 .. max
            /\ pos1' \in 0 .. ModCount /\ pos2' \in 0 .. RomfsCount
            /\ pos2' > 0 => pos1' = ModCount
<1> DEFINE count1 == ReadDirectory(ModCount - pos1, max)
           remaining == Rest(count1, max)
           count2 == IF remaining <= 0 THEN 0 ELSE ReadDirectory(RomfsCount - pos2, remaining)
           out == IF remaining <= 0 THEN max ELSE max - Rest(count2, remaining)
           got == Abs!AtMost(max, Total - (pos1 + pos2))
<1>1. /\ pos1 \in 0 .. ModCount /\ pos2 \in 0 .. RomfsCount
      /\ ModCount \in Nat /\ RomfsCount \in Nat /\ max \in Nat \ {0}
      /\ pos2 > 0 => pos1 = ModCount
  BY CountAssumption DEF IInv, TypeOK, ModFirst
<1>2. /\ given' = [i \in 1 .. out |-> Slot(i, count1)]
      /\ pos1' = pos1 + count1 /\ pos2' = pos2 + count2
  BY DEF DoRead, Give
<1>3. /\ count1 \in 0 .. max
      /\ count1 <= ModCount - pos1
      /\ count1 = max \/ count1 = ModCount - pos1
      /\ remaining = max - count1
  BY <1>1 DEF ReadDirectory, Rest
<1>4. /\ count2 \in 0 .. remaining
      /\ count2 <= RomfsCount - pos2
      /\ count2 = remaining \/ count2 = RomfsCount - pos2
      /\ out = count1 + count2
  <2>1. CASE remaining <= 0
    BY <1>1, <1>3, <2>1
  <2>2. CASE ~(remaining <= 0)
    BY <1>1, <1>3, <2>2 DEF ReadDirectory, Rest
  <2>3. QED
    BY <2>1, <2>2
<1>5. got = out
  BY <1>1, <1>3, <1>4 DEF Abs!AtMost, Total
<1>6. \A i \in 1 .. out : Slot(i, count1) = pos1 + pos2 + i
  BY <1>1, <1>3, <1>4 DEF Slot
<1>7. given' = [i \in 1 .. got |-> pos1 + pos2 + i]
  BY <1>2, <1>5, <1>6
<1>8. /\ pos1' + pos2' = pos1 + pos2 + got /\ got \in 0 .. max
      /\ pos1' \in 0 .. ModCount /\ pos2' \in 0 .. RomfsCount
      /\ pos2' > 0 => pos1' = ModCount
  <2> HIDE DEF count1, remaining, count2, out, got
  <2>1. QED
    BY <1>1, <1>2, <1>3, <1>4, <1>5
<1>9. QED
  BY <1>7, <1>8

(* What is lost when the second handle fails: entries of the mod only.             *)
LEMMA SecondFailure ==
  ASSUME IInv, NEW max \in 1 .. MaxRead, DoReadFails2(max)
  PROVE  /\ pos1' \in 0 .. ModCount /\ pos1' >= pos1 /\ pos2' = pos2
         /\ pos1' = ModCount
<1>1. /\ pos1 \in 0 .. ModCount /\ ModCount \in Nat /\ max \in Nat \ {0}
  BY CountAssumption DEF IInv, TypeOK
<1>2. QED
  BY <1>1 DEF DoReadFails2, ReadDirectory, Rest

LEMMA InitIInv == Init => IInv
<1> SUFFICES ASSUME Init PROVE IInv
  OBVIOUS
<1>1. pos1 \in 0 .. ModCount /\ pos2 \in 0 .. RomfsCount
  BY CountAssumption DEF Init
<1>2. DOMAIN given \subseteq 1 .. MaxRead
  BY DEF Init, None
<1>3. delivered = 1 .. pos1 + pos2
  BY DEF Init
<1>4. open1 \in BOOLEAN /\ open2 \in BOOLEAN /\ failed \in BOOLEAN
  BY DEF Init
<1>5. TypeOK
  BY <1>1, <1>2, <1>4 DEF Init, TypeOK
<1>6. QED
  BY <1>3, <1>5 DEF Init, IInv, ModFirst, LossOnlyByError

LEMMA NextIInv == IInv /\ [Next]_vars => IInv'
<1> SUFFICES ASSUME IInv, [Next]_vars PROVE IInv'
  OBVIOUS
<1> USE DEF handleVars
<1>1. ASSUME NEW r \in {"nullptr", "ok", "invalid"}, ReadRefused(r) PROVE IInv'
  BY <1>1 DEF ReadRefused, IInv, TypeOK, ModFirst, LossOnlyByError, None
<1>2. ASSUME NEW max \in 1 .. MaxRead, DoRead(max) PROVE IInv'
  <2> DEFINE got == Abs!AtMost(max, Total - (pos1 + pos2))
  <2>1. /\ given' = [i \in 1 .. got |-> pos1 + pos2 + i]
        /\ pos1' + pos2' = pos1 + pos2 + got
        /\ got \in 0 .. max
        /\ pos1' \in 0 .. ModCount /\ pos2' \in 0 .. RomfsCount
        /\ pos2' > 0 => pos1' = ModCount
    BY <1>2, DoReadAdvances
  <2>2. /\ delivered' = delivered \cup {given'[i] : i \in DOMAIN given'}
        /\ UNCHANGED <<open1, open2, count, failed>> /\ res' = "ok"
    BY <1>2 DEF DoRead, Give
  <2> HIDE DEF got
  <2>3. {given'[i] : i \in DOMAIN given'} = {pos1 + pos2 + i : i \in 1 .. got}
    BY <2>1
  <2>4. pos1 + pos2 \in Nat /\ got \in Nat
    BY <2>1, CountAssumption DEF IInv, TypeOK
  <2>5. {pos1 + pos2 + i : i \in 1 .. got} = (pos1 + pos2 + 1) .. (pos1 + pos2 + got)
    <3>1. ASSUME NEW k \in (pos1 + pos2 + 1) .. (pos1 + pos2 + got)
          PROVE  k \in {pos1 + pos2 + i : i \in 1 .. got}
      <4>1. k - (pos1 + pos2) \in 1 .. got /\ k = pos1 + pos2 + (k - (pos1 + pos2))
        BY <2>4
      <4>2. QED
        BY <4>1
    <3>2. ASSUME NEW i \in 1 .. got
          PROVE  pos1 + pos2 + i \in (pos1 + pos2 + 1) .. (pos1 + pos2 + got)
      BY <2>4
    <3>3. QED
      BY <3>1, <3>2
  <2>6. delivered' \subseteq 1 .. Total
    <3>1. pos1 + pos2 + got <= Total /\ Total \in Nat
      BY <2>1, <2>4, CountAssumption DEF Total
    <3>2. (pos1 + pos2 + 1) .. (pos1 + pos2 + got) \subseteq 1 .. Total
      BY <2>4, <3>1
    <3>3. delivered \subseteq 1 .. Total
      BY DEF IInv, TypeOK
    <3>4. QED
      BY <2>2, <2>3, <2>5, <3>2, <3>3
  <2>7. LossOnlyByError'
    <3> SUFFICES ASSUME ~failed PROVE delivered' = 1 .. pos1' + pos2'
      BY <2>2 DEF LossOnlyByError
    <3>1. delivered = 1 .. pos1 + pos2
      BY DEF IInv, LossOnlyByError
    <3>2. delivered' = (1 .. pos1 + pos2) \cup ((pos1 + pos2 + 1) .. (pos1 + pos2 + got))
      BY <2>2, <2>3, <2>5, <3>1
    <3>3. pos1' + pos2' = pos1 + pos2 + got
      BY <2>1
    <3>4. (1 .. pos1 + pos2) \cup ((pos1 + pos2 + 1) .. (pos1 + pos2 + got))
            = 1 .. pos1 + pos2 + got
      BY <2>4
    <3>5. QED
      BY <3>2, <3>3, <3>4
  <2>8. DOMAIN given' \subseteq 1 .. MaxRead
    BY <2>1, CountAssumption
  <2>9. TypeOK'
    BY <2>1, <2>2, <2>6, <2>8 DEF IInv, TypeOK
  <2>10. QED
    BY <2>1, <2>7, <2>9 DEF IInv, ModFirst
<1>3. ASSUME NEW max \in 1 .. MaxRead, DoReadFails2(max) PROVE IInv'
  <2>1. pos1' \in 0 .. ModCount /\ pos2' = pos2 /\ pos1' = ModCount
    BY <1>3, SecondFailure
  <2>2. QED
    BY <1>3, <2>1 DEF DoReadFails2, IInv, TypeOK, ModFirst, LossOnlyByError, None
<1>4. CASE DoReadFails1
  BY <1>4 DEF DoReadFails1, IInv, TypeOK, ModFirst, LossOnlyByError, None
<1>5. CASE DoGetEntryCount
  BY <1>5 DEF DoGetEntryCount, IInv, TypeOK, ModFirst, LossOnlyByError, Total
<1>6. CASE GetEntryCountFails
  BY <1>6 DEF GetEntryCountFails, IInv, TypeOK, ModFirst, LossOnlyByError
<1>7. CASE Destroy
  BY <1>7 DEF Destroy, IInv, TypeOK, ModFirst, LossOnlyByError
<1>8. CASE UNCHANGED vars
  BY <1>8 DEF vars, IInv, TypeOK, ModFirst, LossOnlyByError
<1>9. QED
  BY <1>1, <1>2, <1>3, <1>4, <1>5, <1>6, <1>7, <1>8 DEF Next

LEMMA Inductive == Spec => []IInv
  BY InitIInv, NextIInv, PTL DEF Spec

(* Neither handle is read past its end and no buffer slot beyond max_entries is       *)
(* counted, for every split of the buffer.                                            *)
THEOREM TypeCorrect == Spec => []TypeOK
<1>1. IInv => TypeOK
  BY DEF IInv
<1>2. QED
  BY <1>1, Inductive, PTL

(* Until a handle fails, every entry up to the position was given to the caller.       *)
THEOREM NothingLost == Spec => []LossOnlyByError
<1>1. IInv => LossOnlyByError
  BY DEF IInv
<1>2. QED
  BY <1>1, Inductive, PTL

(* The two handles behave as one: the merged object implements a single stream of       *)
(* entries in which an error skips entries of the mod at most.                          *)
THEOREM ImplementsDirStream == Spec => AbsSpec
<1>1. Init => Abs!Init
  BY DEF Init, Abs!Init, None
<1>2. IInv /\ [Next]_vars => [Abs!Next]_(Abs!streamVars)
  <2> SUFFICES ASSUME IInv, [Next]_vars PROVE [Abs!Next]_(Abs!streamVars)
    OBVIOUS
  <2> USE DEF Abs!streamVars, handleVars, None
  <2>1. pos1 \in Int /\ pos2 \in Int
    BY CountAssumption DEF IInv, TypeOK
  <2>2. ASSUME UNCHANGED <<pos1, pos2, count>>, given' = <<>> PROVE Abs!Next
    <3>1. Abs!ReadFails
      BY <2>1, <2>2 DEF Abs!ReadFails
    <3>2. QED
      BY <3>1 DEF Abs!Next
  <2>3. ASSUME NEW r \in {"nullptr", "ok", "invalid"}, ReadRefused(r) PROVE Abs!Next
    BY <2>2, <2>3 DEF ReadRefused
  <2>4. ASSUME NEW max \in 1 .. MaxRead, DoRead(max) PROVE Abs!Next
    <3>1. Abs!Read(max)
      BY <2>4, DoReadAdvances DEF DoRead, Abs!Read
    <3>2. max \in 0 .. MaxRead
      BY CountAssumption
    <3>3. QED
      BY <3>1, <3>2 DEF Abs!Next
  <2>5. ASSUME NEW max \in 1 .. MaxRead, DoReadFails2(max) PROVE Abs!Next
    <3>1. pos1' = ModCount /\ pos1' >= pos1 /\ pos2' = pos2
      BY <2>5, SecondFailure
    <3>2. pos2 = 0 \/ pos1 = ModCount
      BY CountAssumption DEF IInv, ModFirst, TypeOK
    <3>3. pos1' + pos2' >= pos1 + pos2 /\ (pos1' + pos2' # pos1 + pos2 => pos1' + pos2' <= ModCount)
      BY <2>1, <3>1, <3>2, CountAssumption
    <3>4. Abs!ReadFails
      BY <2>5, <3>3 DEF DoReadFails2, Abs!ReadFails
    <3>5. QED
      BY <3>4 DEF Abs!Next
  <2>6. CASE DoReadFails1
    BY <2>2, <2>6 DEF DoReadFails1
  <2>7. CASE DoGetEntryCount
    BY <2>7 DEF DoGetEntryCount, Abs!Next, Abs!Count, Total
  <2>8. CASE GetEntryCountFails
    BY <2>8 DEF GetEntryCountFails
  <2>9. CASE Destroy
    BY <2>9 DEF Destroy
  <2>10. CASE UNCHANGED vars
    BY <2>10 DEF vars
  <2>11. QED
    BY <2>3, <2>4, <2>5, <2>6, <2>7, <2>8, <2>9, <2>10 DEF Next
<1>3. QED
  BY <1>1, <1>2, Inductive, PTL DEF Spec, AbsSpec, Abs!Spec

-----------------------------------------------------------------------------
(* The paths. *)

(* A path below the root: it begins with the root and a slash and fits the buffer. *)
OnCard(p) ==
  /\ p \in Seq(Chars)
  /\ Len(p) \in Len(Root) .. (OutSize - 1)
  /\ \A i \in 1 .. Len(Root) : p[i] = Root[i]
  /\ Len(p) > Len(Root) => p[Len(Root) + 1] = "/"

(* The walk never leaves the card, and what was added names what was opened.        *)
PInv ==
  /\ OnCard(path)
  /\ subpath \in Seq(Chars)
  /\ BufferHolds
  /\ FittingIsIndexed
  /\ key # NoKey =>
       OnCard(subpath) /\ Len(subpath) >= Len(Root) + 2 /\ key = KeyOf(subpath)

(* The sizes every lemma below reckons with.                                        *)
LEMMA Sizes ==
  /\ Root \in Seq(Chars) /\ Len(Root) \in Nat \ {0} /\ OutSize \in Nat
  /\ Len(Root) + 2 < OutSize
  /\ \A name \in Names : name \in Seq(Chars) /\ Len(name) \in Nat \ {0}
  /\ \A name \in Names : \A i \in 1 .. Len(name) : name[i] # "/"
<1>1. ASSUME NEW s \in Seq(Chars), s # <<>> PROVE Len(s) \in Nat \ {0}
  BY <1>1, EmptySeq, LenProperties
<1>2. QED
  BY <1>1, PathAssumption

(* What the first n characters of a sequence are.                                   *)
LEMMA Front ==
  ASSUME NEW s \in Seq(Chars), NEW n \in 0 .. Len(s)
  PROVE  /\ SubSeq(s, 1, n) \in Seq(Chars)
         /\ Len(SubSeq(s, 1, n)) = n
         /\ \A i \in 1 .. n : SubSeq(s, 1, n)[i] = s[i]
<1>1. Len(s) \in Nat
  BY LenProperties
<1>2. n \in Int /\ 1 \in Int
  BY <1>1
<1> DEFINE t == SubSeq(s, 1, n)
<1>3. \A i \in 1 .. n : i \in 1 .. Len(s)
  BY <1>1
<1>4. t = [i \in 1 .. n |-> s[i]]
  BY <1>1, <1>2
<1>5. t \in Seq(Chars) /\ Len(t) = n
  BY <1>1, <1>3, <1>4
<1>6. QED
  BY <1>4, <1>5

(* A slash is put behind the first part unless it has one.                           *)
LEMMA SlashedIs ==
  ASSUME NEW p \in Seq(Chars), Len(p) > 0
  PROVE  /\ Slashed(p) \in Seq(Chars)
         /\ Len(Slashed(p)) = IF p[Len(p)] = "/" THEN Len(p) ELSE Len(p) + 1
         /\ \A i \in 1 .. Len(p) : Slashed(p)[i] = p[i]
         /\ Slashed(p)[Len(Slashed(p))] = "/"
<1>1. Len(p) \in Nat /\ "/" \in Chars
  BY LenProperties, PathAssumption
<1>2. CASE p[Len(p)] = "/"
  BY <1>1, <1>2 DEF Slashed
<1>3. CASE p[Len(p)] # "/"
  <2>1. Slashed(p) = p \o <<"/">>
    BY <1>3 DEF Slashed
  <2>2. <<"/">> \in Seq(Chars) /\ Len(<<"/">>) = 1 /\ <<"/">>[1] = "/"
    BY <1>1
  <2>3. QED
    BY <1>1, <1>3, <2>1, <2>2
<1>4. QED
  BY <1>2, <1>3

(* JoinPath gives the two parts with one slash between them, cut off at the end of     *)
(* the buffer, whichever of its branches it takes, and never writes beyond it.         *)
LEMMA JoinIsCut ==
  ASSUME NEW p \in Seq(Chars), NEW name \in Seq(Chars), Len(p) \in 1 .. (OutSize - 1)
  PROVE  LET full == Slashed(p) \o name
             text == JoinPath(p, name).text
         IN /\ full \in Seq(Chars)
            /\ text \in Seq(Chars)
            /\ Len(full) = Len(Slashed(p)) + Len(name)
            /\ Len(text) = Clamp(Len(full))
            /\ \A i \in 1 .. Len(text) : text[i] = full[i]
            /\ JoinPath(p, name).written <= OutSize
<1> DEFINE first == Slashed(p)
           full == first \o name
           remaining == IF Len(first) >= OutSize THEN 0 ELSE OutSize - Len(first)
           part == SubSeq(name, 1, Least(Len(name), remaining))
           copied == first \o part
           size == Clamp(Len(first) + Len(name))
           text == JoinPath(p, name).text
<1>1. Len(p) \in Nat /\ Len(name) \in Nat /\ OutSize \in Nat /\ Len(p) > 0
  BY LenProperties, Sizes
<1>2. /\ first \in Seq(Chars)
      /\ Len(first) = IF p[Len(p)] = "/" THEN Len(p) ELSE Len(p) + 1
      /\ \A i \in 1 .. Len(p) : first[i] = p[i]
  BY <1>1, SlashedIs
<1>3. Least(Len(p), OutSize) = Len(p)
  BY <1>1 DEF Least
<1> HIDE DEF first
<1>4. /\ full \in Seq(Chars)
      /\ Len(full) = Len(first) + Len(name)
      /\ \A i \in 1 .. Len(first) : full[i] = first[i]
      /\ \A i \in 1 .. Len(name) : full[Len(first) + i] = name[i]
  BY <1>1, <1>2
<1>5. Len(first) \in Nat /\ size \in Nat
  BY <1>1, <1>2 DEF Clamp, Least
<1>6. CASE Full(Len(p))
  <2>1. Len(p) = OutSize - 1
    BY <1>1, <1>6 DEF Full
  <2>2. JoinPath(p, name) = [text |-> SubSeq(p, 1, OutSize - 1), written |-> OutSize]
    BY <1>3, <1>6 DEF JoinPath
  <2>3. /\ text \in Seq(Chars) /\ Len(text) = OutSize - 1
        /\ \A i \in 1 .. (OutSize - 1) : text[i] = p[i]
    BY <1>1, <2>1, <2>2, Front
  <2> HIDE DEF text, full
  <2>4. Clamp(Len(full)) = OutSize - 1
    BY <1>1, <1>2, <1>4, <1>5, <2>1 DEF Clamp, Least
  <2>5. \A i \in 1 .. (OutSize - 1) : i \in 1 .. Len(first) /\ i \in 1 .. Len(p)
    BY <1>1, <1>2, <2>1
  <2>6. \A i \in 1 .. Len(text) : text[i] = full[i]
    BY <1>2, <1>4, <2>3, <2>5
  <2>7. JoinPath(p, name).written <= OutSize
    BY <1>1, <2>2
  <2>8. QED
    BY <1>4, <2>3, <2>4, <2>6, <2>7 DEF text, full, first
<1>7. CASE ~Full(Len(p))
  <2>1. Len(p) < OutSize - 1
    BY <1>1, <1>7 DEF Full
  <2>2. Len(first) < OutSize
    BY <1>1, <1>2, <2>1
  <2>3. JoinPath(p, name)
          = [text |-> SubSeq(copied, 1, size),
             written |-> IF Len(copied) > size THEN Len(copied) ELSE size + 1]
    BY <1>3, <1>7 DEF JoinPath, first
  <2>4. remaining = OutSize - Len(first)
    BY <1>1, <1>5, <2>2
  <2>5. Least(Len(name), remaining) \in 0 .. Len(name)
    BY <1>1, <1>5, <2>2, <2>4 DEF Least
  <2>6. /\ part \in Seq(Chars) /\ Len(part) = Least(Len(name), remaining)
        /\ \A i \in 1 .. Len(part) : part[i] = name[i]
    BY <2>5, Front
  <2> HIDE DEF part
  <2>7. /\ copied \in Seq(Chars) /\ Len(copied) = Len(first) + Len(part)
        /\ \A i \in 1 .. Len(first) : copied[i] = first[i]
        /\ \A i \in 1 .. Len(part) : copied[Len(first) + i] = part[i]
    <3>1. Len(first) \in Nat /\ Len(part) \in Nat
      BY <1>2, <2>6, LenProperties
    <3>2. /\ copied \in Seq(Chars) /\ Len(copied) = Len(first) + Len(part)
          /\ \A i \in 1 .. Len(first) + Len(part) :
               copied[i] = IF i <= Len(first) THEN first[i] ELSE part[i - Len(first)]
      BY <1>2, <2>6, ConcatProperties
    <3> HIDE DEF copied
    <3>3. \A i \in 1 .. Len(first) : copied[i] = first[i]
      BY <3>1, <3>2
    <3>4. ASSUME NEW i \in 1 .. Len(part) PROVE copied[Len(first) + i] = part[i]
      BY <3>1, <3>2, Z3
    <3>5. QED
      BY <3>2, <3>3, <3>4
  <2> HIDE DEF copied
  <2>8. /\ size <= Len(copied) /\ Len(copied) <= OutSize /\ size <= OutSize - 1
        /\ Len(copied) <= Len(full) /\ size = Clamp(Len(full))
        /\ Len(copied) \in Nat
    BY <1>1, <1>4, <1>5, <2>2, <2>4, <2>6, <2>7 DEF Clamp, Least
  <2>9. /\ text \in Seq(Chars) /\ Len(text) = size
        /\ \A i \in 1 .. size : text[i] = copied[i]
    BY <1>5, <2>3, <2>7, <2>8, Front
  <2>10. ASSUME NEW i \in 1 .. Len(copied) PROVE copied[i] = full[i]
    <3>1. CASE i <= Len(first)
      BY <1>4, <1>5, <2>7, <3>1
    <3>2. CASE i > Len(first)
      <4>1. i - Len(first) \in 1 .. Len(part) /\ i - Len(first) \in 1 .. Len(name)
        BY <1>1, <1>5, <2>5, <2>6, <2>7, <3>2
      <4>2. i = Len(first) + (i - Len(first))
        BY <1>5
      <4>3. copied[i] = part[i - Len(first)] /\ full[i] = name[i - Len(first)]
        BY <1>4, <2>7, <4>1, <4>2
      <4>4. QED
        BY <2>6, <4>1, <4>3
    <3>3. QED
      BY <1>5, <2>8, <3>1, <3>2
  <2>11. JoinPath(p, name).written <= OutSize
    BY <1>1, <1>5, <2>3, <2>8
  <2> HIDE DEF text, full, size
  <2>12. \A i \in 1 .. Len(text) : text[i] = full[i]
    BY <1>5, <2>8, <2>9, <2>10
  <2>13. QED
    BY <1>4, <2>8, <2>9, <2>11, <2>12 DEF text, full, first
<1>8. QED
  BY <1>6, <1>7

(* JoinPath leads from a path of the card to a path of the card.                       *)
LEMMA JoinStaysOnCard ==
  ASSUME NEW p, OnCard(p), NEW name \in Seq(Chars)
  PROVE  OnCard(JoinPath(p, name).text) /\ JoinPath(p, name).written <= OutSize
<1> DEFINE first == Slashed(p)
           full == first \o name
           text == JoinPath(p, name).text
<1>1. /\ p \in Seq(Chars) /\ Len(p) \in Nat \ {0} /\ Len(p) \in 1 .. (OutSize - 1)
      /\ Len(Root) \in Nat \ {0} /\ Len(p) >= Len(Root)
      /\ OutSize \in Nat /\ Len(Root) + 2 < OutSize
      /\ name \in Seq(Chars) /\ Len(name) \in Nat
  BY Sizes, LenProperties DEF OnCard
<1>2. /\ first \in Seq(Chars)
      /\ Len(first) = IF p[Len(p)] = "/" THEN Len(p) ELSE Len(p) + 1
      /\ \A i \in 1 .. Len(p) : first[i] = p[i]
      /\ first[Len(first)] = "/"
  BY <1>1, SlashedIs
<1>3. /\ full \in Seq(Chars) /\ text \in Seq(Chars)
      /\ Len(full) = Len(first) + Len(name)
      /\ Len(text) = Clamp(Len(full))
      /\ \A i \in 1 .. Len(text) : text[i] = full[i]
      /\ JoinPath(p, name).written <= OutSize
  BY <1>1, JoinIsCut
<1> HIDE DEF first, text
<1>4. Len(first) \in Nat /\ Len(first) >= Len(p) /\ Len(first) <= Len(p) + 1
  BY <1>1, <1>2
<1>5. \A i \in 1 .. Len(first) + Len(name) :
        full[i] = IF i <= Len(first) THEN first[i] ELSE name[i - Len(first)]
  BY <1>1, <1>2, ConcatProperties
<1> HIDE DEF full
<1>6. Len(text) \in Nat /\ Len(text) >= Len(Root) /\ Len(text) <= OutSize - 1
  BY <1>1, <1>3, <1>4 DEF Clamp, Least
<1>7. Len(text) <= Len(first) + Len(name)
  BY <1>1, <1>3, <1>4 DEF Clamp, Least
<1>8. \A i \in 1 .. Len(text) : i <= Len(first) => text[i] = first[i]
  BY <1>3, <1>4, <1>5, <1>7
<1>9. ASSUME NEW i \in 1 .. Len(Root) PROVE text[i] = Root[i]
  <2>1. i \in 1 .. Len(text) /\ i <= Len(first) /\ i \in 1 .. Len(p)
    BY <1>1, <1>4, <1>6
  <2>2. p[i] = Root[i]
    BY DEF OnCard
  <2>3. QED
    BY <1>2, <1>8, <2>1, <2>2
<1>10. ASSUME Len(text) > Len(Root) PROVE text[Len(Root) + 1] = "/"
  <2>1. Len(Root) + 1 \in 1 .. Len(text)
    BY <1>1, <1>6, <1>10
  <2>2. CASE Len(p) > Len(Root)
    <3>1. Len(Root) + 1 \in 1 .. Len(p) /\ Len(Root) + 1 <= Len(first)
      BY <1>1, <1>4, <2>2
    <3>2. p[Len(Root) + 1] = "/"
      BY <2>2 DEF OnCard
    <3>3. QED
      BY <1>2, <1>8, <2>1, <3>1, <3>2
  <2>3. CASE Len(p) = Len(Root)
    <3>1. p[Len(p)] # "/"
      BY <1>1, <2>3, PathAssumption DEF OnCard
    <3>2. Len(first) = Len(Root) + 1
      BY <1>2, <2>3, <3>1
    <3>3. QED
      BY <1>1, <1>2, <1>8, <2>1, <3>2
  <2>4. QED
    BY <1>1, <2>2, <2>3
<1>11. OnCard(text)
  BY <1>1, <1>3, <1>6, <1>9, <1>10 DEF OnCard
<1>12. QED
  BY <1>3, <1>11 DEF text

(* The path of an entry has one slash between its directory and its name, as what   *)
(* JoinPath puts together does before it is cut off.                                *)
LEMMA EntryIs ==
  ASSUME NEW p \in Seq(Chars), Len(p) > 0, NEW name \in Seq(Chars)
  PROVE  Join(Bare(p), name) = Slashed(p) \o name
<1>1. Len(p) \in Nat \ {0} /\ Len(p) - 1 \in 0 .. Len(p)
  BY LenProperties
<1>2. CASE p[Len(p)] # "/"
  BY <1>2 DEF Join, Bare, Slashed
<1>3. CASE p[Len(p)] = "/"
  <2> DEFINE front == SubSeq(p, 1, Len(p) - 1)
             whole == front \o <<"/">>
  <2>1. /\ front \in Seq(Chars) /\ Len(front) = Len(p) - 1
        /\ \A i \in 1 .. Len(p) - 1 : front[i] = p[i]
    BY <1>1, Front
  <2> HIDE DEF front
  <2>2. <<"/">> \in Seq(Chars) /\ Len(<<"/">>) = 1 /\ <<"/">>[1] = "/"
    BY PathAssumption
  <2>3. /\ whole \in Seq(Chars) /\ Len(whole) = Len(p)
        /\ \A i \in 1 .. Len(p) : whole[i] = IF i <= Len(p) - 1 THEN front[i] ELSE "/"
    BY <1>1, <2>1, <2>2, ConcatProperties
  <2> HIDE DEF whole
  <2>4. \A i \in 1 .. Len(p) : whole[i] = p[i]
    BY <1>1, <1>3, <2>1, <2>3
  <2>5. whole = p
    BY <2>3, <2>4, SeqEqual
  <2>6. Bare(p) = front /\ Slashed(p) = p
    BY <1>3 DEF Bare, Slashed, front
  <2>7. QED
    BY <2>5, <2>6 DEF Join, whole
<1>4. QED
  BY <1>2, <1>3

(* Where the whole path fits, JoinPath gives the whole path.                           *)
LEMMA JoinFits ==
  ASSUME NEW p, OnCard(p), NEW name \in Seq(Chars), Len(Join(Bare(p), name)) <= OutSize - 1
  PROVE  JoinPath(p, name).text = Join(Bare(p), name)
<1>1. /\ p \in Seq(Chars) /\ Len(p) \in Nat \ {0} /\ Len(p) \in 1 .. (OutSize - 1)
      /\ OutSize \in Nat /\ Len(name) \in Nat
  BY Sizes, LenProperties DEF OnCard
<1> DEFINE text == JoinPath(p, name).text
           full == Slashed(p) \o name
<1>2. full = Join(Bare(p), name)
  BY <1>1, EntryIs
<1>3. /\ text \in Seq(Chars) /\ full \in Seq(Chars) /\ Len(text) = Clamp(Len(full))
      /\ \A i \in 1 .. Len(text) : text[i] = full[i]
  BY <1>1, JoinIsCut
<1> HIDE DEF text, full
<1>4. Len(text) = Len(full)
  <2>1. PICK n \in Nat : n = Len(full) /\ n <= OutSize - 1
    BY <1>2, <1>3, LenProperties
  <2>2. Clamp(n) = n
    BY <1>1, <2>1 DEF Clamp, Least
  <2>3. QED
    BY <1>3, <2>1, <2>2
<1>5. text = full
  BY <1>3, <1>4, SeqEqual
<1>6. QED
  BY <1>2, <1>5 DEF text

(* What the key of a path is.                                                          *)
LEMMA KeyIs ==
  ASSUME NEW s \in Seq(Chars), Len(s) >= Len(Root) + 2
  PROVE  /\ KeyOf(s) \in Seq(Chars)
         /\ Len(KeyOf(s)) = Len(s) - (Len(Root) + 1)
         /\ Len(KeyOf(s)) \in Nat \ {0}
         /\ \A i \in 1 .. Len(KeyOf(s)) : KeyOf(s)[i] = s[Len(Root) + 1 + i]
<1>1. Len(s) \in Nat /\ Len(Root) \in Nat
  BY Sizes, LenProperties
<1> DEFINE n == Len(s) - (Len(Root) + 1)
<1>2. n \in Nat \ {0}
  BY <1>1
<1>3. Len(Root) + 2 \in Nat /\ Len(s) - (Len(Root) + 2) + 1 = n
  BY <1>1
<1>4. KeyOf(s) = [i \in 1 .. n |-> s[Len(Root) + 2 + i - 1]]
  BY <1>1, <1>3 DEF KeyOf
<1>5. \A i \in 1 .. n : /\ Len(Root) + 2 + i - 1 = Len(Root) + 1 + i
                        /\ Len(Root) + 1 + i \in 1 .. Len(s)
  BY <1>1
<1>6. \A i \in 1 .. n : s[Len(Root) + 1 + i] \in Chars
  BY <1>5, ElementOfSeq
<1>7. KeyOf(s) = [i \in 1 .. n |-> s[Len(Root) + 1 + i]]
  BY <1>4, <1>5
<1> HIDE DEF n
<1>8. KeyOf(s) \in Seq(Chars) /\ Len(KeyOf(s)) = n
  BY <1>2, <1>6, <1>7
<1>9. QED
  BY <1>2, <1>7, <1>8 DEF n

(* A request is looked up without the slash it may end with.                           *)
LEMMA LookupIs ==
  ASSUME NEW s \in Seq(Chars), Len(s) > 0
  PROVE  /\ s \o <<"/">> \in Seq(Chars) /\ Len(s \o <<"/">>) = Len(s) + 1
         /\ LookupKey(s \o <<"/">>) = s
         /\ s[Len(s)] # "/" => LookupKey(s) = s
         /\ s[Len(s)] = "/" => LookupKey(s) # s
<1>1. Len(s) \in Nat \ {0}
  BY LenProperties
<1>2. <<"/">> \in Seq(Chars) /\ Len(<<"/">>) = 1 /\ <<"/">>[1] = "/"
  BY PathAssumption
<1> DEFINE longer == s \o <<"/">>
<1>3. /\ longer \in Seq(Chars) /\ Len(longer) = Len(s) + 1
      /\ \A i \in 1 .. Len(s) : longer[i] = s[i]
      /\ longer[Len(s) + 1] = "/"
  BY <1>1, <1>2
<1> HIDE DEF longer
<1>4. LookupKey(longer) = SubSeq(longer, 1, Len(s))
  BY <1>1, <1>3 DEF LookupKey
<1>5. /\ SubSeq(longer, 1, Len(s)) \in Seq(Chars)
      /\ Len(SubSeq(longer, 1, Len(s))) = Len(s)
      /\ \A i \in 1 .. Len(s) : SubSeq(longer, 1, Len(s))[i] = longer[i]
  BY <1>1, <1>3, Front
<1>6. LookupKey(longer) = s
  BY <1>3, <1>4, <1>5, SeqEqual
<1>7. ASSUME s[Len(s)] = "/" PROVE LookupKey(s) # s
  <2>1. Len(s) - 1 \in 0 .. Len(s)
    BY <1>1
  <2>2. Len(SubSeq(s, 1, Len(s) - 1)) = Len(s) - 1
    BY <2>1, Front
  <2>3. LookupKey(s) = SubSeq(s, 1, Len(s) - 1)
    BY <1>7 DEF LookupKey
  <2>4. QED
    BY <1>1, <2>2, <2>3
<1>8. s[Len(s)] # "/" => LookupKey(s) = s
  BY DEF LookupKey
<1>9. QED
  BY <1>3, <1>6, <1>7, <1>8 DEF longer

(* Whatever was read, its path stays on the card, and the key is that path's.          *)
LEMMA TurnKeeps ==
  ASSUME PInv, NEW name \in Seq(Chars), NEW isDirectory \in BOOLEAN, Turn(name, isDirectory)
  PROVE  /\ OnCard(path)' /\ BufferHolds' /\ subpath' \in Seq(Chars)
         /\ key' # NoKey => /\ OnCard(subpath)' /\ (Len(subpath) >= Len(Root) + 2)'
                            /\ key' = KeyOf(subpath')
<1> DEFINE text == JoinPath(path, name).text
<1>1. OnCard(path)
  BY DEF PInv
<1>2. OnCard(text) /\ JoinPath(path, name).written <= OutSize
  BY <1>1, JoinStaysOnCard
<1>3. /\ subpath' = text
      /\ written' = JoinPath(path, name).written
      /\ key' = IF Len(text) < Len(Root) + 2 THEN NoKey ELSE KeyOf(text)
      /\ path' = IF isDirectory THEN text ELSE path
  BY DEF Turn
<1> HIDE DEF text
<1>4. /\ text \in Seq(Chars) /\ Len(text) \in Nat /\ Len(text) <= OutSize - 1
      /\ Len(Root) \in Nat /\ OutSize \in Nat
  BY <1>2, Sizes, LenProperties DEF OnCard
<1>5. OnCard(path)'
  BY <1>1, <1>2, <1>3 DEF OnCard
<1>6. BufferHolds'
  BY <1>2, <1>3, <1>4 DEF BufferHolds
<1>7. key' # NoKey => /\ OnCard(subpath)' /\ (Len(subpath) >= Len(Root) + 2)'
                      /\ key' = KeyOf(subpath')
  BY <1>2, <1>3, <1>4 DEF OnCard
<1>8. QED
  BY <1>3, <1>4, <1>5, <1>6, <1>7

(* An entry that fits is indexed under its path: neither branch of JoinPath cuts it,   *)
(* and its key, which ends in no slash, is looked up as it is.                          *)
LEMMA EntryFits ==
  ASSUME PInv, NEW name \in Names, NEW isDirectory \in BOOLEAN, ReadEntry(name, isDirectory)
  PROVE  FittingIsIndexed'
<1> SUFFICES ASSUME Len(entry') <= OutSize - 1
             PROVE  /\ subpath' = entry'
                    /\ LookupKey(KeyOf(entry')) = key'
                    /\ LookupKey(KeyOf(entry') \o <<"/">>) = key'
  BY DEF FittingIsIndexed
<1> DEFINE text == JoinPath(path, name).text
           first == Slashed(path)
<1>1. OnCard(path) /\ name \in Seq(Chars) /\ Len(name) \in Nat \ {0} /\ name[Len(name)] # "/"
  BY Sizes DEF PInv
<1>2. /\ path \in Seq(Chars) /\ Len(path) \in Nat \ {0} /\ Len(path) >= Len(Root)
      /\ Len(Root) \in Nat \ {0} /\ OutSize \in Nat
      /\ \A i \in 1 .. Len(Root) : path[i] = Root[i]
  BY <1>1, Sizes, LenProperties DEF OnCard
<1>3. /\ entry' = Join(Bare(path), name) /\ subpath' = text
      /\ key' = IF Len(text) < Len(Root) + 2 THEN NoKey ELSE KeyOf(text)
  BY DEF ReadEntry, Turn
<1>4. text = Join(Bare(path), name)
  BY <1>1, <1>3, JoinFits
<1>5. /\ first \in Seq(Chars) /\ Len(first) \in Nat
      /\ Len(first) = IF path[Len(path)] = "/" THEN Len(path) ELSE Len(path) + 1
  BY <1>2, SlashedIs
<1>6. Len(first) >= Len(Root) + 1
  <2>1. CASE Len(path) = Len(Root)
    <3>1. path[Len(path)] # "/"
      BY <1>2, <2>1, PathAssumption
    <3>2. QED
      BY <1>2, <1>5, <2>1, <3>1
  <2>2. CASE Len(path) > Len(Root)
    BY <1>2, <1>5, <2>2
  <2>3. QED
    BY <1>2, <2>1, <2>2
<1>7. text = first \o name
  BY <1>1, <1>2, <1>4, EntryIs
<1> HIDE DEF text, first
<1>8. /\ text \in Seq(Chars) /\ Len(text) = Len(first) + Len(name)
      /\ \A i \in 1 .. Len(first) + Len(name) :
           text[i] = IF i <= Len(first) THEN first[i] ELSE name[i - Len(first)]
  BY <1>1, <1>5, <1>7, ConcatProperties
<1>9. text[Len(text)] # "/" /\ Len(text) >= Len(Root) + 2 /\ Len(text) \in Nat
  <2>1. PICK n \in Nat, k \in Nat \ {0} : n = Len(first) /\ k = Len(name)
    BY <1>1, <1>5
  <2>2. n + k \in 1 .. n + k /\ ~(n + k <= n) /\ (n + k) - n = k
    BY <2>1
  <2>3. text[Len(text)] = name[Len(name)]
    BY <1>8, <2>1, <2>2
  <2>4. QED
    BY <1>1, <1>2, <1>6, <1>8, <2>1, <2>3
<1>10. /\ KeyOf(text) \in Seq(Chars) /\ Len(KeyOf(text)) \in Nat \ {0}
       /\ KeyOf(text)[Len(KeyOf(text))] = text[Len(text)]
  <2>1. /\ KeyOf(text) \in Seq(Chars) /\ Len(KeyOf(text)) = Len(text) - (Len(Root) + 1)
        /\ Len(KeyOf(text)) \in Nat \ {0}
        /\ \A i \in 1 .. Len(KeyOf(text)) : KeyOf(text)[i] = text[Len(Root) + 1 + i]
    BY <1>8, <1>9, KeyIs
  <2>2. Len(Root) + 1 + Len(KeyOf(text)) = Len(text)
    BY <1>2, <1>9, <2>1
  <2>3. QED
    BY <2>1, <2>2
<1>11. /\ LookupKey(KeyOf(text)) = KeyOf(text)
       /\ LookupKey(KeyOf(text) \o <<"/">>) = KeyOf(text)
  BY <1>9, <1>10, LookupIs
<1>12. key' = KeyOf(text)
  BY <1>2, <1>3, <1>9
<1>13. QED
  BY <1>3, <1>4, <1>11, <1>12

(* An entry that fits is indexed under its path, and one that does not leaves the      *)
(* cut-off text behind that the hooks will cut off the same way.                       *)
LEMMA StepPInv == PInv /\ [PathNext]_pathVars => PInv'
<1> SUFFICES ASSUME PInv, [PathNext]_pathVars PROVE PInv'
  OBVIOUS
<1>1. CASE UNCHANGED pathVars
  BY <1>1 DEF pathVars, PInv, OnCard, BufferHolds, FittingIsIndexed
<1>2. ASSUME NEW name \in Names, NEW isDirectory \in BOOLEAN, ReadEntry(name, isDirectory)
      PROVE  PInv'
  <2>1. name \in Seq(Chars) /\ Turn(name, isDirectory)
    BY <1>2, Sizes DEF ReadEntry
  <2>2. FittingIsIndexed'
    BY <1>2, EntryFits
  <2>3. QED
    BY <2>1, <2>2, TurnKeeps DEF PInv
<1>3. CASE ReadNothing
  <2>1. PICK name \in Seq(Chars) : name = <<>>
    BY EmptySeq
  <2>2. Turn(name, TRUE)
    BY <1>3, <2>1 DEF ReadNothing
  <2>3. FittingIsIndexed'
    BY <1>3 DEF ReadNothing, FittingIsIndexed
  <2>4. QED
    BY <2>2, <2>3, TurnKeeps DEF PInv
<1>4. QED
  BY <1>1, <1>2, <1>3 DEF PathNext

LEMMA InitPInv == PathInit => PInv
<1> SUFFICES ASSUME PathInit PROVE PInv
  OBVIOUS
<1>1. path = Root /\ subpath = <<>> /\ written = 0 /\ entry = <<>> /\ key = NoKey
  BY DEF PathInit
<1>2. OnCard(Root)
  BY Sizes, PathAssumption DEF OnCard
<1>3. subpath \in Seq(Chars) /\ BufferHolds
  BY <1>1, Sizes DEF BufferHolds
<1>4. QED
  BY <1>1, <1>2, <1>3 DEF PInv, FittingIsIndexed

LEMMA PathInductive == PathSpec => []PInv
  BY InitPInv, StepPInv, PTL DEF PathSpec

(* JoinPath stays inside its buffer, NUL included, for every size of it and every        *)
(* path the walk reaches.                                                               *)
THEOREM JoinStaysInside == PathSpec => []BufferHolds
<1>1. PInv => BufferHolds
  BY DEF PInv
<1>2. QED
  BY <1>1, PathInductive, PTL

(* An entry whose path fits the buffer is indexed under the very path the game asks      *)
(* for, with a slash behind it or without.                                              *)
THEOREM WhatFitsIsIndexed == PathSpec => []FittingIsIndexed
<1>1. PInv => FittingIsIndexed
  BY DEF PInv
<1>2. QED
  BY <1>1, PathInductive, PTL

(* What the hook opens for a key is what was indexed under it, cut off or not: the paths    *)
(* agree, and all that can be left over is the slash behind a request.                      *)
LEMMA OpensTheIndexed == PInv => HookOpensTheIndexed
<1> SUFFICES ASSUME PInv, key # NoKey
             PROVE  \A raw \in {key, key \o <<"/">>} :
                      SamePlace(JoinPath(Root, raw).text, subpath)
  BY DEF HookOpensTheIndexed
<1>1. /\ OnCard(subpath) /\ subpath \in Seq(Chars) /\ Len(subpath) \in Nat
      /\ Len(subpath) >= Len(Root) + 2 /\ Len(subpath) <= OutSize - 1
      /\ key = KeyOf(subpath)
      /\ Len(Root) \in Nat \ {0} /\ Root \in Seq(Chars) /\ OutSize \in Nat
      /\ Len(Root) + 2 < OutSize
  BY Sizes, LenProperties DEF PInv, OnCard
<1>2. /\ key \in Seq(Chars) /\ Len(key) = Len(subpath) - (Len(Root) + 1)
      /\ Len(key) \in Nat \ {0}
      /\ \A i \in 1 .. Len(key) : key[i] = subpath[Len(Root) + 1 + i]
  BY <1>1, KeyIs
<1>3. /\ Slashed(Root) \in Seq(Chars) /\ Len(Slashed(Root)) = Len(Root) + 1
      /\ \A i \in 1 .. Len(Root) : Slashed(Root)[i] = Root[i]
      /\ Slashed(Root)[Len(Root) + 1] = "/"
  BY <1>1, SlashedIs, PathAssumption
<1>4. /\ \A i \in 1 .. Len(Root) : subpath[i] = Root[i]
      /\ subpath[Len(Root) + 1] = "/"
  BY <1>1 DEF OnCard
<1>5. Len(Root) + 1 + Len(key) = Len(subpath)
  <2>1. \A a, b \in Nat : \A c \in Nat \ {0} : c = b - (a + 1) => a + 1 + c = b
    OBVIOUS
  <2>2. QED
    BY <1>1, <1>2, <2>1
(* Joined again, the key gives back what was indexed, and what is behind it is cut off     *)
(* where that filled the buffer.                                                           *)
<1>6. ASSUME NEW raw \in Seq(Chars), Len(raw) \in Nat, Len(raw) >= Len(key),
             \A i \in 1 .. Len(key) : raw[i] = key[i]
      PROVE  LET text == JoinPath(Root, raw).text
             IN /\ text \in Seq(Chars)
                /\ Len(text) = Least(Len(Root) + 1 + Len(raw), OutSize - 1)
                /\ Len(text) >= Len(subpath)
                /\ \A i \in 1 .. Len(subpath) : text[i] = subpath[i]
                /\ \A i \in 1 .. Len(text) : i > Len(Root) + 1 => text[i] = raw[i - (Len(Root) + 1)]
  <2> DEFINE text == JoinPath(Root, raw).text
             full == Slashed(Root) \o raw
  <2>1. /\ full \in Seq(Chars) /\ text \in Seq(Chars)
        /\ Len(full) = Len(Slashed(Root)) + Len(raw)
        /\ Len(text) = Clamp(Len(full))
        /\ \A i \in 1 .. Len(text) : text[i] = full[i]
    <3>1. Len(Root) \in 1 .. (OutSize - 1)
      BY <1>1
    <3>2. QED
      BY <1>1, <1>6, <3>1, JoinIsCut
  <2>2. \A i \in 1 .. Len(Slashed(Root)) + Len(raw) :
          full[i] = IF i <= Len(Slashed(Root)) THEN Slashed(Root)[i]
                    ELSE raw[i - Len(Slashed(Root))]
    BY <1>3, <1>6, ConcatProperties
  <2> HIDE DEF text, full
  <2>3. Len(text) = Least(Len(Root) + 1 + Len(raw), OutSize - 1)
    BY <1>3, <2>1 DEF Clamp
  <2>4. /\ Len(text) \in Nat /\ Len(text) >= Len(subpath)
        /\ Len(text) <= Len(Root) + 1 + Len(raw)
    BY <1>1, <1>2, <1>6, <2>3 DEF Least
  <2>5. \A i \in 1 .. Len(text) :
          text[i] = IF i <= Len(Root) + 1 THEN Slashed(Root)[i] ELSE raw[i - (Len(Root) + 1)]
    BY <1>1, <1>3, <1>6, <2>1, <2>2, <2>4
  <2>6. ASSUME NEW i \in 1 .. Len(subpath) PROVE text[i] = subpath[i]
    <3>1. i \in 1 .. Len(text)
      BY <1>1, <2>4
    <3>2. CASE i <= Len(Root)
      BY <1>1, <1>3, <1>4, <2>5, <3>1, <3>2
    <3>3. CASE i = Len(Root) + 1
      BY <1>1, <1>3, <1>4, <2>5, <3>1, <3>3
    <3>4. CASE i > Len(Root) + 1
      <4>1. /\ i - (Len(Root) + 1) \in 1 .. Len(key)
            /\ Len(Root) + 1 + (i - (Len(Root) + 1)) = i /\ ~(i <= Len(Root) + 1)
        BY <1>1, <1>2, <3>4
      <4>2. raw[i - (Len(Root) + 1)] = subpath[i]
        BY <1>2, <1>6, <4>1
      <4>3. QED
        BY <2>5, <3>1, <4>1, <4>2
    <3>5. QED
      BY <1>1, <3>2, <3>3, <3>4
  <2>7. \A i \in 1 .. Len(text) : i > Len(Root) + 1 => text[i] = raw[i - (Len(Root) + 1)]
    BY <1>1, <2>4, <2>5
  <2>8. QED
    BY <2>1, <2>3, <2>4, <2>6, <2>7 DEF text
<1>7. SamePlace(JoinPath(Root, key).text, subpath)
  <2> DEFINE text == JoinPath(Root, key).text
  <2>1. /\ text \in Seq(Chars)
        /\ Len(text) = Least(Len(Root) + 1 + Len(key), OutSize - 1)
        /\ \A i \in 1 .. Len(subpath) : text[i] = subpath[i]
    BY <1>2, <1>6
  <2> HIDE DEF text
  <2>2. Len(text) = Len(subpath)
    <3>1. Len(text) = Least(Len(subpath), OutSize - 1)
      BY <1>5, <2>1
    <3>2. QED
      BY <1>1, <3>1 DEF Least
  <2>3. text = subpath
    BY <1>1, <2>1, <2>2, SeqEqual
  <2>4. QED
    BY <2>3 DEF text, SamePlace
<1>8. SamePlace(JoinPath(Root, key \o <<"/">>).text, subpath)
  <2> DEFINE raw == key \o <<"/">>
             text == JoinPath(Root, raw).text
  <2>1. /\ raw \in Seq(Chars) /\ Len(raw) = Len(key) + 1
        /\ \A i \in 1 .. Len(key) : raw[i] = key[i]
        /\ raw[Len(key) + 1] = "/"
    <3>1. <<"/">> \in Seq(Chars) /\ Len(<<"/">>) = 1 /\ <<"/">>[1] = "/"
      BY PathAssumption
    <3>2. key \in Seq(Chars) /\ Len(key) \in Nat
      BY <1>2
    <3>3. QED
      BY <3>1, <3>2
  <2> HIDE DEF raw
  <2>2. /\ text \in Seq(Chars)
        /\ Len(text) = Least(Len(Root) + 1 + Len(raw), OutSize - 1)
        /\ \A i \in 1 .. Len(subpath) : text[i] = subpath[i]
        /\ \A i \in 1 .. Len(text) : i > Len(Root) + 1 => text[i] = raw[i - (Len(Root) + 1)]
    <3>1. Len(raw) \in Nat /\ Len(raw) >= Len(key)
      BY <1>2, <2>1
    <3>2. QED
      BY <1>6, <2>1, <3>1
  <2> HIDE DEF text
  <2>3. Len(text) \in Len(subpath) .. (Len(subpath) + 1)
    <3>1. Len(Root) + 1 + Len(raw) = Len(subpath) + 1
      <4>1. Len(key) \in Nat /\ Len(Root) \in Nat /\ Len(raw) = Len(key) + 1
        BY <1>1, <1>2, <2>1
      <4>2. QED
        BY <1>5, <4>1
    <3>2. Len(text) = Least(Len(subpath) + 1, OutSize - 1)
      BY <2>2, <3>1
    <3>3. QED
      BY <1>1, <3>2 DEF Least
  <2>4. ASSUME NEW i \in 1 .. Len(text), i > Len(subpath) PROVE text[i] = "/"
    <3>1. i = Len(subpath) + 1
      BY <1>1, <2>3, <2>4
    <3>2. i > Len(Root) + 1 /\ i - (Len(Root) + 1) = Len(key) + 1
      <4>1. \A a, b, c \in Nat : a + 1 + c = b => b + 1 - (a + 1) = c + 1
        OBVIOUS
      <4>2. /\ Len(key) \in Nat /\ Len(Root) \in Nat /\ Len(subpath) \in Nat
            /\ Len(subpath) >= Len(Root) + 2
        BY <1>1, <1>2
      <4>3. QED
        BY <1>5, <3>1, <4>1, <4>2
    <3>3. QED
      BY <2>1, <2>2, <3>2
  <2>5. QED
    BY <1>1, <2>2, <2>3, <2>4 DEF SamePlace, text, raw
<1>9. QED
  BY <1>7, <1>8

(* A hook that finds a key opens the path that was indexed under it, for every name,      *)
(* and where names and buffer collide both cut it off at the same place.                  *)
THEOREM HookOpensWhatWasIndexed == PathSpec => []HookOpensTheIndexed
  BY OpensTheIndexed, PathInductive, PTL

(* A nested walk of an entry is of a longer path until the buffer is full; one of nothing     *)
(* is of the directory itself.                                                               *)
THEOREM WalkGoesDown == PathSpec => WalkDescends
<1> DEFINE Descends ==
             /\ entry' # <<>> /\ Len(Slashed(path)) < OutSize - 1 =>
                  Len(subpath') > Len(Slashed(path))
             /\ entry' = <<>> => SamePlace(subpath', path)
<1>1. PInv /\ [PathNext]_pathVars => [Descends]_pathVars
  <2> SUFFICES ASSUME PInv, PathNext PROVE Descends
    OBVIOUS
  <2> DEFINE first == Slashed(path)
  <2>1. /\ path \in Seq(Chars) /\ Len(path) \in Nat \ {0} /\ Len(path) \in 1 .. (OutSize - 1)
        /\ OutSize \in Nat
    BY Sizes, LenProperties DEF PInv, OnCard
  <2>2. /\ first \in Seq(Chars) /\ Len(first) \in Nat
        /\ Len(first) = IF path[Len(path)] = "/" THEN Len(path) ELSE Len(path) + 1
        /\ \A i \in 1 .. Len(path) : first[i] = path[i]
        /\ first[Len(first)] = "/"
    BY <2>1, SlashedIs
  <2>3. ASSUME NEW name \in Seq(Chars)
        PROVE  /\ JoinPath(path, name).text \in Seq(Chars)
               /\ Len(JoinPath(path, name).text) = Clamp(Len(first) + Len(name))
               /\ \A i \in 1 .. Len(JoinPath(path, name).text) :
                    JoinPath(path, name).text[i] = (first \o name)[i]
    BY <2>1, JoinIsCut
  <2> HIDE DEF first
  <2>4. ASSUME NEW name \in Names, NEW isDirectory \in BOOLEAN, ReadEntry(name, isDirectory)
        PROVE  Descends
    <3>1. name \in Seq(Chars) /\ Len(name) \in Nat \ {0}
      BY Sizes
    <3>2. subpath' = JoinPath(path, name).text /\ entry' = Join(Bare(path), name)
      BY <2>4 DEF ReadEntry, Turn
    <3>3. entry' = first \o name
      <4>1. Len(path) > 0 /\ path \in Seq(Chars)
        BY <2>1
      <4>2. Join(Bare(path), name) = Slashed(path) \o name
        BY <3>1, <4>1, EntryIs
      <4>3. QED
        BY <3>2, <4>2 DEF first
    <3>4. Len(entry') = Len(first) + Len(name)
      BY <2>2, <3>1, <3>3, ConcatProperties
    <3>5. entry' # <<>>
      BY <2>2, <3>1, <3>4
    <3>6. Len(first) < OutSize - 1 => Len(subpath') > Len(first)
      BY <2>1, <2>2, <2>3, <3>1, <3>2 DEF Clamp, Least
    <3>7. QED
      BY <3>5, <3>6 DEF first
  <2>5. CASE ReadNothing
    <3> DEFINE text == JoinPath(path, <<>>).text
    <3>1. subpath' = text /\ entry' = <<>>
      BY <2>5 DEF ReadNothing, Turn
    <3>2. PICK name \in Seq(Chars) : name = <<>> /\ Len(name) = 0 /\ first \o name = first
      <4>1. <<>> \in Seq(Chars) /\ Len(<<>>) = 0
        BY EmptySeq
      <4>2. first \o <<>> = first
        BY <2>2, ConcatEmptySeq
      <4>3. QED
        BY <4>1, <4>2
    <3>3. /\ text \in Seq(Chars) /\ Len(text) = Clamp(Len(first))
          /\ \A i \in 1 .. Len(text) : text[i] = first[i]
      <4>1. text = JoinPath(path, name).text
        <5>1. JoinPath(path, <<>>) = JoinPath(path, name)
          BY <3>2, Zenon
        <5>2. QED
          BY <5>1
      <4>2. Len(first) + Len(name) = Len(first)
        BY <2>2, <3>2
      <4>3. /\ JoinPath(path, name).text \in Seq(Chars)
            /\ Len(JoinPath(path, name).text) = Clamp(Len(first) + Len(name))
            /\ \A i \in 1 .. Len(JoinPath(path, name).text) :
                 JoinPath(path, name).text[i] = (first \o name)[i]
        BY <2>3
      <4> HIDE DEF text
      <4>4. Clamp(Len(first) + Len(name)) = Clamp(Len(first))
        BY <4>2
      <4>5. QED
        BY <3>2, <4>1, <4>3, <4>4
    <3> HIDE DEF text
    <3>4. Len(text) \in Len(path) .. Len(first)
      BY <2>1, <2>2, <3>3 DEF Clamp, Least
    <3>5. \A i \in 1 .. Len(text) : text[i] = IF i <= Len(path) THEN path[i] ELSE "/"
      BY <2>1, <2>2, <3>3, <3>4
    <3>6. SamePlace(text, path)
      BY <2>1, <2>2, <3>4, <3>5 DEF SamePlace
    <3>7. QED
      BY <3>1, <3>6
  <2>6. QED
    BY <2>4, <2>5 DEF PathNext
<1>2. QED
  BY <1>1, PathInductive, PTL DEF PathSpec, WalkDescends
===============================================================================
