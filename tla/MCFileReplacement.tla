--------------------------- MODULE MCFileReplacement ---------------------------
(***************************************************************************)
(* Model values for FileReplacement: two releases and two settings tell    *)
(* old from new, two container ids tell a recorded container from the one  *)
(* that runs.                                                              *)
(***************************************************************************)
EXTENDS FileReplacement

CONSTANTS r1, r2, e1, e2, c1, c2
MCReleases == {r1, r2}
MCEdits == {e1, e2}
MCIds == {c1, c2}

\* Nobody changed the server since a route read its row: with this constraint a
\* replacement by a route is as safe as one that reads the row under the lock
\* (files_safety); without it, it is not (files_route).
RowsAreFresh == req \subseteq {row}
=============================================================================
