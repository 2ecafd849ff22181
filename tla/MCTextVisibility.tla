-------------------------- MODULE MCTextVisibility --------------------------
EXTENDS TextVisibility

\* Two boxes side by side: each overlaps only itself.
MCBoxes == { <<0, 0, 2, 2>>, <<2, 0, 4, 2>> }

Settings(nontext, correct, fallback, proof, limit) ==
  [process_nontext : nontext, correct_text_visibility : correct,
   fallback : fallback, proof : proof, svg_node_count_limit : limit]

\* Covered text detection on, with either background renderer; detection off; the
\* fallback mode; a proof.
MCParams ==
  Settings({TRUE}, {TRUE}, {FALSE}, {FALSE}, BOOLEAN)
    \cup Settings({TRUE}, {TRUE}, {TRUE}, {FALSE}, {FALSE})
    \cup Settings(BOOLEAN, {FALSE}, {FALSE}, {FALSE}, {FALSE})
    \cup Settings({TRUE}, {TRUE}, {FALSE}, {TRUE}, {FALSE})

DetectParams == Settings({TRUE}, {TRUE}, {FALSE}, {FALSE}, {FALSE})
=============================================================================
