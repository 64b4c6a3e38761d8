---------------------------- MODULE MCHookStraddle ----------------------------
(* A far callback for a function that starts two words before the end of a page. *)
EXTENDS HookInstall

MCAlias == Slice(0, 1)
MCHeap == Slice(0, 0)
MCAslr == Slice(4, 8)
MCTargets == <<2046>>
MCFar == <<TRUE>>
===============================================================================
