--------------------------- MODULE MCRunCommands ----------------------------
(* Small instances of RunCommands for TLC. *)
EXTENDS RunCommands, TLC

CONSTANTS h1, j1, j2, t1, t2

\* j1 is a job of h1, j2 a job of some other host.
MCJobHost == (j1 :> h1) @@ (j2 :> None)

\* One request for a single run, and one that names a job of another host
\* after a job of its own.
MCRequest == (t1 :> [host |-> h1, jobs |-> <<j1>>])
          @@ (t2 :> [host |-> h1, jobs |-> <<j1, j2>>])
=============================================================================
