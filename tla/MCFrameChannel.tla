--------------------------- MODULE MCFrameChannel ---------------------------
(* Messages that could be taken for headers, of different lengths.         *)
EXTENDS FrameChannel

MCDataOf(w) == IF w = Main THEN <<LIGHTNINGCAST_COMM_HEADER_KEY, 1>> ELSE <<2>>
=============================================================================
