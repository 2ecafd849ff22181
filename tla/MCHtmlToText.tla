---------------------------- MODULE MCHtmlToText ----------------------------
(* An instance of HtmlToText: a folder of plain pages, of which the first one is *)
(* laid out in detail.                                                          *)
EXTENDS HtmlToText

MCPages(n, positions) == UNION {[1 .. k -> positions] : k \in 0 .. n}

\* Two texts in a row, one between them that is near to both, and one text below.
MCFirstLayouts == MCPages(3, {<<0, 20>>, <<5, 20>>, <<10, 20>>, <<20, 20>>, <<0, 0>>})

MCLayouts == MCPages(2, {<<0, 20>>, <<0, 0>>})
=============================================================================
