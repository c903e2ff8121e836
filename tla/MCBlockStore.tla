---------------------------- MODULE MCBlockStore ----------------------------
(* Instantiation of BlockStore for TLC: tiny tiers so that eviction,       *)
(* auto-eviction and promotion all happen within a few operations.         *)
EXTENDS BlockStore

\* Two tiers, MEM and SSD, each holding two 1-byte blocks.
MCTiers == {0, 1}
MCCapacity == [u \in MCTiers |-> 2]
\* A single tier of one byte: a block fills it past the high watermark.
MCTinyTiers == {0}
MCTinyCapacity == [u \in MCTinyTiers |-> 1]
\* An SSD-only worker, for restart recovery.
MCDiskTiers == {1}
MCDiskCapacity == [u \in MCDiskTiers |-> 2]
=============================================================================
