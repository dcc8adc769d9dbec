-------------------------------- MODULE MCMux --------------------------------
(* Small instances of Mux. *)
EXTENDS Mux

CONSTANTS a, b
MCConns == {a, b}
MCAborters == {<<"client", a>>}
MCFinishers == {<<"client", a>>, <<"server", a>>}
Nobody == {}
\* The asker of a leaves and so does the answerer of b.
WaitFinishers == {<<"client", a>>, <<"server", b>>}
TwoEach == [x \in Sides |-> [c \in MCConns |-> 2]]
\* a asks and is answered, b only asks.
MCMaxChunks == [client |-> [c \in MCConns |-> 1],
                server |-> [c \in MCConns |-> IF c = a THEN 1 ELSE 0]]
=============================================================================
