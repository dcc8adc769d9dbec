------------------------------- MODULE Stream -------------------------------
(***************************************************************************)
(* What a one-way byte stream of this program promises, however it is       *)
(* built (a pipe, an mKCP connection): what is delivered is what was        *)
(* accepted, in order, without gaps or repeats; nothing is accepted after   *)
(* the stream is closed; what was accepted before a close can still be      *)
(* delivered; an interrupted stream may lose the rest.                      *)
(***************************************************************************)
EXTENDS Naturals, Sequences

VARIABLES
  accepted,   \* the messages the stream took from its writers, in order
  delivered,  \* the messages handed to its readers, in order
  status      \* "open", "closed" (no more writes) or "errord" (interrupted)

streamVars == <<accepted, delivered, status>>

StreamInit == accepted = <<>> /\ delivered = <<>> /\ status = "open"

\* A writer adds one message at the end.
Put == /\ status = "open"
       /\ Len(accepted') = Len(accepted) + 1
       /\ SubSeq(accepted', 1, Len(accepted)) = accepted
       /\ UNCHANGED <<delivered, status>>

\* A reader takes the next messages: one or more of those outstanding.
Take == /\ status # "errord"
        /\ \E n \in Len(delivered) + 1 .. Len(accepted) :
             delivered' = SubSeq(accepted, 1, n)
        /\ UNCHANGED <<accepted, status>>

CloseStream == /\ status = "open"
               /\ status' \in {"closed", "errord"}
               /\ UNCHANGED <<accepted, delivered>>

StreamNext == Put \/ Take \/ CloseStream

StreamSpec == StreamInit /\ [][StreamNext]_streamVars
=============================================================================
