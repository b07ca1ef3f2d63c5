--------------------------- MODULE MCMetadataTable ---------------------------
EXTENDS MetadataTable

\* chosen keys part at chosen doublings
MCHash(c) == c

\* Only is the SelectSeq of the standard module.
ASSUME \A s \in SeqOf(1 .. 3, 4), B \in SUBSET (1 .. 3) :
    Only(s, B) = SelectSeq(s, LAMBDA b : b \in B)
=============================================================================
