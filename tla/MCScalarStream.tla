---------------------------- MODULE MCScalarStream ----------------------------
(***************************************************************************)
(* Small scalar streams for ScalarStream.  The records of a channel can be *)
(* renamed, so that the first one is always a.                             *)
(***************************************************************************)
EXTENDS ScalarStream

CONSTANT a
FirstIsA == \A c \in Channels : source[c] # <<>> => source[c][1] = a
===============================================================================
