------------------------------ MODULE MCVirtMem -------------------------------
(* An address space of six pages, five of them the ASLR region, of which the    *)
(* alias region takes one; three reservation slots.                             *)
EXTENDS VirtMemClients

MCAlias == Slice(2, 3)
MCHeap == Slice(0, 1)
MCAslr == Slice(1, 6)
===============================================================================
