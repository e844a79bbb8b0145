------------------------------ MODULE MCIngest ------------------------------
(* Small instances of Ingest for TLC. *)
EXTENDS Ingest

CONSTANTS p1, p2, legacy, b1, a1

Up(p, b, n, a) == [path |-> p, batch |-> b, total |-> n, album |-> a]

\* One multi-select upload of two files into an album.
OneBatch == {Up(p1, b1, 2, a1), Up(p2, b1, 2, NoAlbum)}

\* The same, and p1 uploaded again without a batch.
BatchAndSingle == OneBatch \cup {Up(p1, legacy, 0, NoAlbum)}

NoUploads == {}
=============================================================================
