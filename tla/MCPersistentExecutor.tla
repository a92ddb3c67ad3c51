------------------------ MODULE MCPersistentExecutor ------------------------
\* Instances of PersistentExecutor for TLC.
EXTENDS PersistentExecutor

\* Two lengths: fewer indices than threads, and as many as threads, so that a
\* worker may find the range exhausted.
TwoRanges == {<<0, 1>>, <<0, 3>>}

\* Every [begin, end) below six, the empty ones included.
AllRanges == (0 .. 6) \X (0 .. 6)
=============================================================================
