------------------------ MODULE MCFilesystemScanner ------------------------
(***************************************************************************)
(* Paths whose cache lines read as others and as what they are.            *)
(***************************************************************************)
EXTENDS FilesystemScanner, TLC

\* Paths 2 and 3 have no white space; path 1 has a line feed, and its lines read
\* as 0, which the walk did not find, and as path 2.
MCReadsAs == 1 :> {0, 2} @@ 2 :> {2} @@ 3 :> {3}

=============================================================================
