--------------------------- MODULE MCSourceFolder ---------------------------
(* Uploads for SourceFolder. *)
EXTENDS SourceFolder, TLC

Good(f) == [file |-> f, ok |-> TRUE]
Bad     == [file |-> "top", ok |-> FALSE]

\* A project in the folder, one in a subfolder, both, a list that goes bad, a file
\* that has the subfolder's name, and lists with both of those.
MCUploads ==
  {<<Good("top")>>, <<Good("nested")>>, <<Good("nested"), Good("top")>>, <<Good("nested"), Bad>>,
   <<Good("plain")>>, <<Good("plain"), Good("nested")>>, <<Good("nested"), Good("plain")>>}

\* Which request is which does not matter, nor which of the other sessions.
Interchangeable == Permutations(Requests) \cup Permutations(Sessions \ {Default})
=============================================================================
