----------------------------- MODULE MCJobRuns -----------------------------
(* JobRuns for TLC; the configurations give the constants their values.    *)
EXTENDS JobRuns
=============================================================================
