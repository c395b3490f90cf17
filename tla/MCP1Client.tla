---------------------------- MODULE MCP1Client ----------------------------
(***************************************************************************)
(* Three citations over two chunks, two texts and three ranks: chunks      *)
(* cited twice at equal and at different ranks, caps below, at and above   *)
(* the number of chunks; every status the table names and one of each      *)
(* class it does not.                                                      *)
(***************************************************************************)
EXTENDS P1Client

CONSTANTS c1, c2, x, y

MCChunks == {c1, c2}
MCTexts == {x, y}
MCRanks == 1..3
MCTopKs == 0..3
MCStatuses == {200, 204, 302, 400, 401, 403, 404, 418, 422, 429, 500, 502, 503, 504}
MCPieces == {1, 2}
=============================================================================
