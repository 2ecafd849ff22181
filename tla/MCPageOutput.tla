---------------------------- MODULE MCPageOutput ----------------------------
EXTENDS PageOutput

\* What is embedded is chosen for fonts and styles together, and for images
\* alone; the limits are on.
MCParams ==
  {[clean |-> c, css |-> e, outline |-> e, font |-> e, javascript |-> e, image |-> i, bitmap |-> b,
    process_outline |-> n, split_pages |-> s, process_nontext |-> n, svg |-> v,
    node_limit |-> TRUE, size_limit |-> TRUE] :
     c \in BOOLEAN, e \in BOOLEAN, i \in BOOLEAN, b \in BOOLEAN,
     s \in BOOLEAN, n \in BOOLEAN, v \in BOOLEAN}
=============================================================================
