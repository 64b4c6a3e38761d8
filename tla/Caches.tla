--------------------------------- MODULE Caches ---------------------------------
(****************************************************************************)
(* What RwPages does that an instruction written through an alias is the one *)
(* that is fetched: Flush and the destructor of util/sys/rw_pages.cpp over   *)
(* armDCacheFlush and armICacheInvalidate of nx/arm/cache.s, beside caches   *)
(* that fetch ahead and write back when they like.  An address counts words, *)
(* and the alias of a word differs only in its page.                         *)
(****************************************************************************)
EXTENDS Integers

CONSTANTS
  AreaWords,  \* words there are, in lines of any size
  CachePage,  \* words of a page
  LineFields  \* what CTR_EL0 has as IminLine and DminLine: lines of 2^field words

ASSUME CachesAssumption ==
  /\ AreaWords \in Nat \ {0} /\ CachePage \in Nat \ {0} /\ LineFields \subseteq Nat
  /\ AreaWords % CachePage = 0 /\ \A f \in LineFields : 2^f \in Nat \ {0} /\ AreaWords % 2^f = 0

VARIABLES
  range,    \* the claim: [start, size]
  owner,    \* "jit", which is flushed and stays, or "patch", which is destroyed
  fields,   \* CTR_EL0: [d, i]
  physical, \* instruction lines are found by any address of their words
  dirty,    \* the words of which only the data cache has the new value
  fetched,  \* the instruction lines of the code's own addresses that are held
  stale,    \* the words the instruction cache holds the old value of
  line,     \* x8 of the loop
  step      \* "write", "written", "dcache", "icache" or "flushed"

cacheVars == <<range, owner, fields, physical, dirty, fetched, stale, line, step>>

LineWords(f) == 2^f
LineStart(w, f) == w - (w % LineWords(f))
InLine(l, f) == l .. l + LineWords(f) - 1
ClaimedWords == range.start .. range.start + range.size - 1
LinesOf(f) == {LineStart(w, f) : w \in ClaimedWords}

\* The Jit claims whole pages, a hook five words or one of a function.
CachesInit ==
  /\ owner \in {"jit", "patch"}
  /\ range \in {r \in [start : 0 .. AreaWords - 1, size : {1, 5, CachePage}] :
                  /\ r.start + r.size <= AreaWords
                  /\ owner = "jit" <=> r.size = CachePage
                  /\ owner = "jit" => r.start % CachePage = 0}
  /\ fields \in [d : LineFields, i : LineFields]
  /\ physical \in BOOLEAN
  /\ dirty = {} /\ fetched = {} /\ stale = {}
  /\ line = 0
  /\ step = "write"

\* What the caller writes into the alias before it flushes or destroys it.
WriteThroughAlias ==
  /\ step = "write" /\ step' = "written"
  /\ dirty' = ClaimedWords
  /\ stale' = {w \in ClaimedWords : LineStart(w, fields.i) \in fetched}
  /\ UNCHANGED <<range, owner, fields, physical, fetched, line>>

\* Flush works on the pages of the claim, the destructor on its words.
FlushStart == IF owner = "jit" THEN range.start - (range.start % CachePage) ELSE range.start
FlushSize ==
  IF owner = "jit" THEN CachePage * ((range.size + CachePage - 1) \div CachePage) ELSE range.size
FlushEnd == FlushStart + FlushSize

\* A bug: the loop begins at the address and not at its line.
FirstLineUnaligned(f) == FlushStart

\* bic x8, x0, x10: where the loop of either function begins.
FirstLine(f) == LineStart(FlushStart, f)

BeginFlush ==
  /\ step = "written"
  /\ line' = FirstLine(fields.d)
  /\ step' = "dcache"
  /\ UNCHANGED <<range, owner, fields, physical, dirty, fetched, stale>>

\* One round of armDCacheFlush: dc civac through the alias.
CleanLine ==
  /\ step = "dcache"
  /\ dirty' = dirty \ InLine(LineStart(line, fields.d), fields.d)
  /\ IF line + LineWords(fields.d) < FlushEnd
     THEN line' = line + LineWords(fields.d) /\ UNCHANGED step
     ELSE line' = FirstLine(fields.i) /\ step' = "icache"
  /\ UNCHANGED <<range, owner, fields, physical, fetched, stale>>

\* One round of armICacheInvalidate: ic ivau, by the code's own address in the
\* destructor and by the alias's in Flush.
InvalidateLine ==
  LET l == LineStart(line, fields.i)
      hits == owner = "patch" \/ physical
  IN /\ step = "icache"
     /\ fetched' = IF hits THEN fetched \ {l} ELSE fetched
     /\ stale' = IF hits THEN stale \ InLine(l, fields.i) ELSE stale
     /\ IF line + LineWords(fields.i) < FlushEnd
        THEN line' = line + LineWords(fields.i) /\ UNCHANGED step
        ELSE line' = 0 /\ step' = "flushed"
     /\ UNCHANGED <<range, owner, fields, physical, dirty>>

\* The Jit's alias stays and is written again for the next hook.
NextHook ==
  /\ step = "flushed" /\ owner = "jit"
  /\ step' = "write"
  /\ UNCHANGED <<range, owner, fields, physical, dirty, fetched, stale, line>>

\* A line is fetched, ahead of its execution or not: what only the data cache
\* has is not seen.
FetchAhead(l) ==
  /\ l \notin fetched
  /\ fetched' = fetched \cup {l}
  /\ stale' = stale \cup (InLine(l, fields.i) \cap dirty)
  /\ UNCHANGED <<range, owner, fields, physical, dirty, line, step>>

\* A line of the data cache is written back for reasons of its own.
WriteBack(l) ==
  /\ InLine(l, fields.d) \cap dirty # {}
  /\ dirty' = dirty \ InLine(l, fields.d)
  /\ UNCHANGED <<range, owner, fields, physical, fetched, stale, line, step>>

CachesNext ==
  \/ WriteThroughAlias \/ BeginFlush \/ CleanLine \/ InvalidateLine \/ NextHook
  \/ \E l \in LinesOf(fields.i) : FetchAhead(l)
  \/ \E l \in LinesOf(fields.d) : WriteBack(l)
CachesSpec == CachesInit /\ [][CachesNext]_cacheVars

\* When an alias was flushed or is gone, and whatever was fetched meanwhile, no
\* old instruction is left to be executed, of lines the range only touches
\* neither; except in trampolines where a line is found by its address alone,
\* because Flush names the alias's and hook_impl.cpp no longer names the other.
FlushedIsFetched ==
  step = "flushed" => /\ dirty = {}
                      /\ stale = {} \/ (owner = "jit" /\ ~physical)
===============================================================================
