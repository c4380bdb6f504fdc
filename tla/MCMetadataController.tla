------------------------ MODULE MCMetadataController ------------------------
EXTENDS MetadataController, TLC

LineSymmetry == Permutations(Line)
=============================================================================
