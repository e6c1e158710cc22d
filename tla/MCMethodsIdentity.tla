-------------------------- MODULE MCMethodsIdentity --------------------------
(* Constants of MethodsIdentity for TLC.                                   *)
EXTENDS MethodsIdentity

CONSTANTS t1, t2, a, b, old, new, bad

MCCall(op, path, pin, need) == [op |-> op, path |-> path, pin |-> pin, need |-> need]

\* "old" is executable but too old for the core's instance and for a need of
\* 2; "bad" fails the ABI preflight.
MCAbiMinor == [l \in Libs |-> IF l = new THEN 2 ELSE 1]

\* Unpinned and pinned calls for one file, and a call for another.
MCRequests ==
  {MCCall("train", b, None, 0), MCCall("preflight", b, old, 0),
   MCCall("replay", a, None, 2), MCCall("refit", a, None, 1),
   MCCall("predict", a, new, 2), MCCall("present", a, None, 2)}

\* A process that only replays, after the host has selected a library.
ReplayOnly == {MCCall("replay", a, None, 2)}
=============================================================================
