------------------------ MODULE MCDirectoryPublication ------------------------
(* Constants of DirectoryPublication for TLC.                              *)
EXTENDS DirectoryPublication

CONSTANTS r1, r2

\* The Python and Node exports of a tuning result have the same two names; an
\* experiment has its model, its results and its index.
MCMembers ==
  [publish |-> <<"model", "tuning">>, export |-> <<"model", "tuning">>,
   save |-> <<"model", "results", "experiment">>]
MCNames == {"model", "results", "tuning", "experiment", "other"}
=============================================================================
