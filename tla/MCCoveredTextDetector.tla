------------------------ MODULE MCCoveredTextDetector -----------------------
(***************************************************************************)
(* Three boxes in a chain, the second given by opposite corners: the first *)
(* and the third overlap it but not one another, so covering spreads from  *)
(* one to another only through the recursion.                              *)
(***************************************************************************)
EXTENDS CoveredTextDetector

MCBoxes == { <<0, 0, 2, 2>>, <<3, 2, 1, 0>>, <<2, 0, 4, 2>> }
=============================================================================
