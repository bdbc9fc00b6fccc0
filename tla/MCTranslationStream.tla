------------------------- MODULE MCTranslationStream -------------------------
(* An explanation that is kept, one that is ephemeral and a translation into  *)
(* another language compete for one slot.                                     *)
EXTENDS TranslationStream, TLC

CONSTANTS e1, e2, c1, dev, audit

OneDepth == [s \in Streams |-> dev]
TwoDepths == [s \in Streams |-> IF s = e1 THEN dev ELSE audit]
===============================================================================
