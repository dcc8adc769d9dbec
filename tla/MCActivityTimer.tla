---------------------------- MODULE MCActivityTimer ----------------------------
(* Small instances of ActivityTimer. *)
EXTENDS ActivityTimer, TLC

Given(idle, request, response) == "idle" :> idle @@ "request" :> request @@ "response" :> response

\* A shorter timeout for a half, none at all, a longer one.
MCTimeouts == {Given(2, 1, 1), Given(2, 0, 1), Given(1, 2, 0), Given(1, 2, 2)}
=============================================================================
