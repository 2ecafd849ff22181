----------------------------- MODULE MCTextState -----------------------------
EXTENDS TextState

MCMoves == {<<8, 0>>, <<0, 2>>, <<0, -40>>, <<-8, 2>>}
MCTextMats == {<<1, 16, 0>>, <<2, 0, 0>>}
MCShifts == {-2, 2}

MCStrings == {LETTER, SPACE, SLOT, WIDE}
=============================================================================
