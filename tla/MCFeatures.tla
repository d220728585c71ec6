------------------------------ MODULE MCFeatures ------------------------------
\* FeatureReads for TLC: the addresses of a device are interchangeable.
EXTENDS FeatureReads, TLC

Symmetry == Permutations(Addresses)
=============================================================================
