----------------------------- MODULE MCTextLine -----------------------------
EXTENDS TextLine

\* <<font, size, letter space, word space, vertical align>>; with two hash
\* classes fonts 1 and 3 collide.
MCStyles == {<<1, 1, 0, 0, 0>>, <<3, 1, 1, 0, 2>>, <<1, 2, 0, 0, -2>>}
MCWidths == {-3, 4}
MCCovered == {{1, 2}}
MCParams == {<<TRUE, FALSE>>, <<FALSE, FALSE>>, <<FALSE, TRUE>>}
=============================================================================
