------------------------------- MODULE PathOps --------------------------------
(****************************************************************************)
(* The paths of loader.cpp near the size of its buffers: JoinPath as the      *)
(* indexer uses it to name what it walks, as the hooks use it to name what    *)
(* they open, and the keys both derive.  A path is a sequence of characters.  *)
(* Loader takes every path to fit; here is what happens when one does not.    *)
(****************************************************************************)
EXTENDS Integers, Sequences

CONSTANTS
  Chars,    \* the characters of paths
  OutSize,  \* nn::fs::MaxDirectoryEntryNameSize + 1
  Root,     \* cRomfsDirectory
  Names     \* names of the entries on the card

ASSUME PathAssumption ==
  /\ "/" \in Chars
  /\ Root \in Seq(Chars) /\ Root # <<>> /\ Root[Len(Root)] # "/"
  /\ OutSize \in Nat /\ Len(Root) + 2 < OutSize
  /\ Names \subseteq Seq(Chars) /\ <<>> \notin Names
  /\ \A name \in Names : \A i \in 1 .. Len(name) : name[i] # "/"

VARIABLES
  path,     \* the directory being walked, as its call got it
  subpath,  \* the buffer after JoinPath, up to its NUL
  written,  \* bytes of the buffer written
  entry,    \* the entry last read: its path on the card, whatever its length,
            \* or nothing when there was no entry left to read
  key       \* what was added for it, or NoKey

pathVars == <<path, subpath, written, entry, key>>
NoKey == <<"none">>

Least(a, b) == IF a < b THEN a ELSE b
Join(p, name) == p \o <<"/">> \o name

\* The path of a directory without the slash it may end with.
Bare(p) == IF p[Len(p)] = "/" THEN SubSeq(p, 1, Len(p) - 1) ELSE p

\* The file system takes both for the same: they differ in slashes at the end.
SamePlace(p, q) ==
  LET At(s, i) == IF i <= Len(s) THEN s[i] ELSE "/"
  IN \A i \in 1 .. Len(p) + Len(q) : At(p, i) = At(q, i)

\* A bug: the terminating NUL is not counted.
ClampOverNul(length) == Least(length, OutSize)

\* A bug: room is left for a slash as well.
ClampShort(length) == Least(length, OutSize - 2)

\* length >= outSize - 1 ? outSize - 1 : length
Clamp(length) == Least(length, OutSize - 1)

\* There is no room for more than the NUL behind the first part.
Full(length) == length + 1 >= OutSize

Slashed(part1) == IF part1[Len(part1)] # "/" THEN part1 \o <<"/">> ELSE part1

\* JoinPath: the text up to its return value, and how much of out it wrote.
JoinPath(part1, part2) ==
  LET length == Least(Len(part1), OutSize)
  IN IF Full(length)
     THEN [text |-> SubSeq(part1, 1, OutSize - 1), written |-> OutSize]
     ELSE LET first == Slashed(part1)
              remaining == IF Len(first) >= OutSize THEN 0 ELSE OutSize - Len(first)
              copied == first \o SubSeq(part2, 1, Least(Len(part2), remaining))
              size == Clamp(Len(first) + Len(part2))
          IN [text |-> SubSeq(copied, 1, size),
              written |-> IF Len(copied) > size THEN Len(copied) ELSE size + 1]

\* A bug: the slash behind the root stays in the key.
KeyWithSlash(p) == SubSeq(p, Len(Root) + 1, Len(p))

\* The key of what the indexer adds, subpath + sizeof(cRomfsDirectory).
KeyOf(p) == SubSeq(p, Len(Root) + 2, Len(p))

\* A bug: the slash the game may end a directory with is not dropped.
KeyAsGiven(raw) == raw

\* The key InFilter looks up.
LookupKey(raw) ==
  IF raw[Len(raw)] = "/" THEN SubSeq(raw, 1, Len(raw) - 1) ELSE raw

PathInit ==
  /\ path = Root
  /\ subpath = <<>> /\ written = 0
  /\ entry = <<>>
  /\ key = NoKey

\* One turn of the loop of ProcessDirectoryRecursive: what was read is named,
\* walked under that name if it is a directory, and added.
Turn(name, isDirectory) ==
  LET joined == JoinPath(path, name)
  IN /\ subpath' = joined.text
     /\ written' = joined.written
     /\ key' = IF Len(joined.text) < Len(Root) + 2 THEN NoKey ELSE KeyOf(joined.text)
     /\ path' = IF isDirectory THEN joined.text ELSE path

ReadEntry(name, isDirectory) ==
  /\ entry' = Join(Bare(path), name)
  /\ Turn(name, isDirectory)

\* The directory has fewer entries than were counted: ReadDirectory succeeds
\* with none, and the zeroed entry is a directory without a name.
ReadNothing ==
  /\ entry' = <<>>
  /\ Turn(<<>>, TRUE)

PathNext ==
  \/ \E name \in Names, isDirectory \in BOOLEAN : ReadEntry(name, isDirectory)
  \/ ReadNothing

PathSpec == PathInit /\ [][PathNext]_pathVars

-----------------------------------------------------------------------------
(* Properties. *)

\* JoinPath stays inside its buffer and leaves room for the NUL it writes.
BufferHolds == written <= OutSize /\ Len(subpath) <= OutSize - 1

\* An entry whose path fits the buffer is indexed under the path the game will
\* ask for, with a slash at the end or without one.
FittingIsIndexed ==
  entry # <<>> /\ Len(entry) <= OutSize - 1 =>
    /\ subpath = entry
    /\ \A raw \in {KeyOf(entry), KeyOf(entry) \o <<"/">>} : LookupKey(raw) = key

\* Whatever was indexed, a hook that finds the key of a request, with a slash at
\* the end or without, opens the path that was indexed, cut off or not, but for
\* slashes at its end.
HookOpensTheIndexed ==
  key # NoKey =>
    \A raw \in {key, key \o <<"/">>} :
      LookupKey(raw) = key => SamePlace(JoinPath(Root, raw).text, subpath)

\* As long as one character fits behind the directory's path and a slash, the
\* nested walk of an entry is of a longer path, so that the recursion over what
\* is on the card ends with its tree.  Only where there was no entry left is the
\* same directory walked again.
WalkDescends ==
  [][ /\ entry' # <<>> /\ Len(Slashed(path)) < OutSize - 1 =>
           Len(subpath') > Len(Slashed(path))
      /\ entry' = <<>> => SamePlace(subpath', path) ]_pathVars
===============================================================================
