-------------------------- MODULE MCPlayCountCache --------------------------
(* Finite instances of PlayCountCache.                                     *)
EXTENDS PlayCountCache

\* A reader asks for every song of the instance.
MCQueries == {Songs}
=============================================================================
