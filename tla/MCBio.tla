-------------------------------- MODULE MCBio --------------------------------
(* Model-checking instance of Bio: three threads, two buffers, three        *)
(* sectors, so that threads share a buffer, buffers are recycled, and the   *)
(* cache can run out.                                                       *)
EXTENDS Bio

=============================================================================
