----------------------------- MODULE MCLFUPolicy -----------------------------
EXTENDS LFUPolicy

MCIds == {"k1", "k2", "k3", "k4"}
=============================================================================
