----------------------------- MODULE MCFileLock -----------------------------
(* The instance of FileLock its runs check: one handle per process.        *)
EXTENDS FileLock, TLC

CONSTANTS h1, h2, h3, p1, p2, p3

OnePerProcess == h1 :> p1 @@ h2 :> p2 @@ h3 :> p3
=============================================================================
