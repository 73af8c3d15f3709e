------------------------- MODULE MCDirectoryWatcher -------------------------
(***************************************************************************)
(* Small instances of DirectoryWatcher: the names in the directory.        *)
(***************************************************************************)
EXTENDS DirectoryWatcher

OnePath == {"a"}
TwoPaths == {"a", "b"}
=============================================================================
