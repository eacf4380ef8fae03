----------------------------- MODULE MCBase64Stream -----------------------------
(* Base64Stream for TLC: blobs of up to two full reads, and texts of up to    *)
(* two chunks of two quads, with all placements of padding.                   *)
EXTENDS Base64Stream

MCBlobLengths == 0..12
MCTextLengths == {0, 3, 4, 8, 12}
MCRooms == {1, 2, 4}
================================================================================
