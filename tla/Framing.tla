------------------------------ MODULE Framing ------------------------------
(***************************************************************************)
(* Frames: a header of a key and the size of the data, then the data.  All *)
(* connections of the endpoint carry them, and LightningCastServer,        *)
(* LightningCastClient and SnapcastComm read and write them by the same    *)
(* loops.  A connection is a sequence of cells; the key and the size are a *)
(* cell each, and any number of cells may come with one read or go with    *)
(* one write.                                                              *)
(***************************************************************************)
EXTENDS Naturals, Sequences

LIGHTNINGCAST_COMM_HEADER_KEY == 39030

\* sizeof(lightningCast_header)
HeaderSize == 2

\* What processSend puts into its buffer.
Frame(data) == <<LIGHTNINGCAST_COMM_HEADER_KEY, Len(data)>> \o data

-----------------------------------------------------------------------------
(* doRead, by what it has got.                                             *)

HeaderRead(got) == Len(got) >= HeaderSize
BadKey(got)     == HeaderRead(got) /\ got[1] # LIGHTNINGCAST_COMM_HEADER_KEY

\* How many cells the next read asks for: never more than the header, then
\* never more than the data.
Wanted(got) == (IF HeaderRead(got) THEN HeaderSize + got[2] ELSE HeaderSize) - Len(got)

FrameRead(got) == HeaderRead(got) /\ ~BadKey(got) /\ Wanted(got) = 0

Data(got) == SubSeq(got, HeaderSize + 1, Len(got))

Least(m, n) == IF m < n THEN m ELSE n

\* What one read may return.
Reads(got, stream) == 1..Least(Wanted(got), Len(stream))

\* The sequence without its first n cells.
Without(stream, n) == SubSeq(stream, n + 1, Len(stream))
=============================================================================
