--------------------------- MODULE MCPostSession ---------------------------
(* The jobs of two sessions, kind by kind, since kinds write different      *)
(* rows; an edit of the facts beside a summary, two extractions beside a     *)
(* synthesizer.                                                             *)
EXTENDS PostSession

MCKindOf(j) == j[1]
MCJob  == {"traits", "P2"} \X {1, 2} \cup {"summary", "P5"} \X {1}
MCSent == {{k} \X {1, 2} : k \in {"traits", "P2"}}
              \cup {{<<"P5", 1>>}, {<<"summary", 1>>} \cup Editor,
               {<<"traits", 1>>} \cup Extraction}
=============================================================================
