---------------------------- MODULE MCLocalGraph ----------------------------
(* Three files; A.x and B.x share their bare name. *)
EXTENDS LocalGraph

MCSymbols  == {1, 2}
MCBareName == [q \in MCSymbols |-> 1]
MCTexts == {"defA", "defB", "useA"}
MCDefs == [c \in MCTexts \cup {Absent} |->
    CASE c = "defA" -> {1} [] c = "defB" -> {2} [] OTHER -> {}]
MCRefs == [c \in MCTexts \cup {Absent} |->
    IF c = "useA" THEN {1} ELSE {}]
MCFirst == [f \in SrcFiles |-> IF f = 1 THEN "useA" ELSE IF f = 2 THEN "defB" ELSE Absent]
MCManifests == {[f \in SrcFiles |-> IF f = 1 THEN "useA" ELSE IF f = 2 THEN "defA" ELSE Absent]}
=============================================================================
