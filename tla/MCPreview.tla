----------------------------- MODULE MCPreview ------------------------------
(* Preview as TLC checks it: two preview processes are enough for one that  *)
(* outlives its stop, or its service, while the next one starts.            *)
EXTENDS Preview
=============================================================================
