------------------------ MODULE MCEstimatorController ------------------------
(* Constants of EstimatorController for TLC.                               *)
EXTENDS EstimatorController, TLC

CONSTANTS f1, f2

\* Four calls are the fewest of which one can upset the order of two others
\* for a fourth that only looks.  Two cross-validations can overlap, and so can
\* any two calls that make an estimator of the whole set, save two for v, which
\* would take the steps of two for the base.
MCOps == <<{"fitFull"}, {"importModel", "fitFull", "FIT_CV"}, {"REFIT", "fitFull"},
           {"FIT_CV", "PREDICT", "predict", "exportModel"}>>

\* Nothing tells the folds apart.
Interchangeable == Permutations({f1, f2})
=============================================================================
