---------------------------- MODULE MCIngestScan ------------------------------
(* Small instances of IngestScan for TLC. *)
EXTENDS IngestScan

CONSTANTS p1, p2, legacy, b1, a1

Up(p, b, n, a) == [path |-> p, batch |-> b, total |-> n, album |-> a]

\* One multi-select upload of two files into an album.
OneBatch == {Up(p1, b1, 2, a1), Up(p2, b1, 2, NoAlbum)}

NoUploads == {}
=============================================================================
