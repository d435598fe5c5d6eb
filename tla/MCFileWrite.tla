----------------------------- MODULE MCFileWrite -----------------------------
EXTENDS FileWrite

MCDataBlocks == 3..60
MCBlocks == 1..60

\* Two states that differ only in which blocks were handed out, and in which
\* order they were logged, are explored once.
ProgressView == <<pc, off, left, chunk, [p \in Procs |-> Len(todo[p])], Len(lh),
                  outstanding, committing, tail, phase, panicked>>
=============================================================================
