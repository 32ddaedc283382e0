---------------------------- MODULE MCLivePool ----------------------------
EXTENDS LivePool

\* Two windows that overlap: one peer is a piece ahead of the other.
MCWindows == {[min |-> 0, max |-> 1], [min |-> 1, max |-> 2]}

\* Two windows with an evicted piece between them.
MCFarWindows == {[min |-> 0, max |-> 0], [min |-> 2, max |-> 2]}
===========================================================================
