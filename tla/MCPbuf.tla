------------------------------- MODULE MCPbuf -------------------------------
\* Instances of PbufData for TLC.
EXTENDS PbufData

\* Headers of one byte are hidden and revealed.
ByOne == {-1, 1}

\* The memory of one pbuf is as good as that of another.
Interchangeable == Permutations(Pbufs)
=============================================================================
