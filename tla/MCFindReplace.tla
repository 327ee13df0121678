---------------------------- MODULE MCFindReplace ----------------------------
(* FindReplace for TLC: one editor in which matches touch, overlap and lie  *)
(* on two lines, and a second one to change to.                            *)
EXTENDS FindReplace

CONSTANTS a, b, x, y

MCTexts == {<<x, x, Newline, x>>, <<y>>}

MCInit == FindInit /\ source[a] # <<y>> /\ source[b] = <<y>>

MCSpec == MCInit /\ [][FindNext]_findVars
=============================================================================
