--------------------------- MODULE MCInstallation ---------------------------
(* A computer with two applications, one of which may not be closed.       *)
EXTENDS Installation

MCVersions == {<<0, 8>>, <<0, 8, 1>>}

\* A deletion and a replacement that an older version left, and operations of
\* other programs between them, one of a path that looks like ours.
MCLists == {<<"other", Empty, "dll", Empty, "other", "spare", "alike", Empty, "tmp", "exe", Empty>>}
=============================================================================
