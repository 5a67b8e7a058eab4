------------------------- MODULE MCEmbeddingWorker -------------------------
(* One fact, whose writer pushes inside its transaction, and two writers    *)
(* that push after their commit.                                            *)
EXTENDS EmbeddingWorker

CONSTANTS fact, edit1, edit2

MCWriter == {fact, edit1, edit2}
MCInside == {fact}
=============================================================================
