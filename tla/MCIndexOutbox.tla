--------------------------- MODULE MCIndexOutbox ---------------------------
(* A dispatch's drain and a scan's, over a few rows of one disk. *)
EXTENDS IndexOutbox

CONSTANTS dispatch, scan
=============================================================================
