-------------------------- MODULE MCMasterRegistry --------------------------
EXTENDS MasterRegistry

MCNodes == {"n1", "n2"}
MCBlocks == {"b1"}
MCUsed == {0, 1}
MCUsedOne == {0}
MCFailures == {"request", "reply"}
MCNodesOne == {"n1"}
MCNoFailures == {}
=============================================================================
