--------------------------- MODULE MCFileResponse ---------------------------
(* Small instances of FileResponse for TLC.                                *)
EXTENDS FileResponse

CONSTANT k1

\* Numbers in and behind the file, and around the greatest long.
Numbers == 0..(MaxSize + 1) \union {LongMax - 1, LongMax + 1}
=============================================================================
