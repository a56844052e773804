-------------------------- MODULE OrganizerRequests --------------------------
(* Requests of organizers, each of which is one transaction and is made    *)
(* once: what each has read, and written without committing, is req.       *)

CONSTANTS
    Requests,
    Null

VARIABLE
    req         \* what each request has read and written

\* A request that has not begun knows what it will be about.
Idle(about) == [kind |-> "idle", about |-> about]
Done == [kind |-> "done"]
=============================================================================
