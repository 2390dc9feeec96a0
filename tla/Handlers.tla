------------------------------ MODULE Handlers ------------------------------
(***************************************************************************)
(* Request handlers over PostgreSQL at READ COMMITTED.  A handler is one   *)
(* read step (its SELECTs, checks and early returns) and one commit step   *)
(* (the UPDATEs, INSERTs and DELETEs of its flush); other requests run     *)
(* between the two.  job[s] is what the handler running in session s       *)
(* remembers of the rows it has read.  The handlers keep their objects     *)
(* after a commit (expire_on_commit=False), so what was loaded stays stale.*)
(***************************************************************************)
EXTENDS Naturals, FiniteSets

CONSTANT Sessions

VARIABLE job

Idle == [op |-> "idle"]

(* A request arrives in an idle session, has read its rows and holds j. *)
Begin(s, j) ==
    /\ job[s] = Idle
    /\ job' = [job EXCEPT ![s] = j]

(* The handler goes on to its next await. *)
Continue(s, j) == job' = [job EXCEPT ![s] = j]

(* The response is sent, or the exception has rolled the session back. *)
End(s) == job' = [job EXCEPT ![s] = Idle]

(* The flush writes a column only when it differs from what was loaded. *)
Flushed(stored, loaded, new) == IF loaded = new THEN stored ELSE new
=============================================================================
