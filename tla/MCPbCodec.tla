------------------------------ MODULE MCPbCodec ------------------------------
(* Model-checking instance of PbCodec: 15-bit words for uint64 and int    *)
(* (the last varint byte carries one bit, as at 64), 8-bit int32, inputs  *)
(* of up to four fragments: tag bytes of every known field and wire type, *)
(* an unknown group tag and its end, varint bytes 0x00, 0x01, 0x7F, 0x80  *)
(* and 0xFF, the 8 bytes of -0.0 and of 1.0, a Name field "a" and the    *)
(* key and length of an embedded message of 3 bytes.                      *)
EXTENDS PbCodec

MCChunks ==
    {<<b>> : b \in {\h00, \h01, \h08, \h0a, \h10, \h11, \h12,
                    \h1a, \h23, \h24, \h7f, \h80, \hff}}
    \cup {<<0, 0, 0, 0, 0, 0, 0, \h80>>, <<0, 0, 0, 0, 0, 0, \hf0, \h3f>>,
           <<\h0a, 3>>, <<\h0a, 1, \h61>>}

\* Field 4 as a varint, fixed64, bytes, group (with an inner varint field)
\* and fixed32 field, and a group of field 5 holding an empty group.
MCUnknownFields ==
    {<<\h20, \h96, \h01>>,
     <<\h21, 1, 2, 3, 4, 5, 6, 7, 8>>,
     <<\h22, 2, \h61, \h62>>,
     <<\h23, \h08, \h01, \h24>>,
     <<\h25, 1, 2, 3, 4>>,
     <<\h2b, \h23, \h24, \h2c>>}
=============================================================================
