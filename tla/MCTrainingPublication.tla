------------------------ MODULE MCTrainingPublication ------------------------
(* Constants of TrainingPublication for TLC.                               *)
EXTENDS TrainingPublication

CONSTANTS r1, r2, a, b, c

MCTrain(x, y, z) == [command |-> "train", archive |-> x, results |-> y, output |-> z]
MCExport(y, z)   == [command |-> "export", archive |-> NoPath, results |-> y, output |-> z]

\* Two runs after the same three paths, in two orders; one without a response
\* file; one whose destinations overlap.
MCRequests ==
  {MCTrain(a, b, c), MCTrain(b, a, NoPath), MCTrain(a, NoPath, a), MCExport(b, c)}
=============================================================================
