------------------------------ MODULE MCViewer ------------------------------
EXTENDS Viewer

\* The initial zoom, and one at which more pages fit.
MCScales == {1, 2}
MCReach == [s \in MCScales |-> s]
=============================================================================
