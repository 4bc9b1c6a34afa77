--------------------------- MODULE MCStreamBuffer ---------------------------
(* StreamBuffer with room for two bytes: chunks of one byte, of as many as *)
(* fit and of one more.                                                    *)
EXTENDS StreamBuffer

MCChunk == {<<0>>, <<1, 0>>, <<1, 0, 1>>}
=============================================================================
