--------------------------- MODULE MCSampleStore ---------------------------
(* A bucket is two seconds, four half seconds, and so are a slice and the   *)
(* raw window; the wide lookback window is two buckets.                     *)
EXTENDS SampleStore
=============================================================================
