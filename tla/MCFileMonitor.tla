---------------------------- MODULE MCFileMonitor ----------------------------
EXTENDS BRUFileMonitor

\* Directories are alike and so are files, so it is enough to begin with these in the
\* first place; unlike a symmetry set this holds for liveness too.
FirstDir == CHOOSE d \in Dirs : TRUE
FirstFile == CHOOSE f \in Files : TRUE

InitUpToNames ==
    /\ Init
    /\ dirAt \in {Nil, FirstDir}
    /\ fileIn[FirstDir] \in {Nil, FirstFile}
    /\ fileIn[FirstDir] = Nil => \A d \in Dirs : fileIn[d] \in {Nil, FirstFile}

MCSpec == InitUpToNames /\ [][Next]_vars /\ Fairness
==============================================================================
