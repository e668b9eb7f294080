------------------------------ MODULE MCWindows ------------------------------
EXTENDS Windows

\* Windows 0 and 4 have the same bit.
MCWinSpecs == {{}, {0, W_NET}}

MCTouched == {W_NET, W_OTHER}

MCMoved == {W_NET}

MCCarried == {W_OTHER}
==============================================================================
