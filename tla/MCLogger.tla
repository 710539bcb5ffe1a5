------------------------------ MODULE MCLogger ------------------------------
(* Logger for TLC: threads, ids and sinks are model values.                *)
EXTENDS Logger, TLC

\* the empty name, and one of more than four characters
MCNames == {[number |-> NoId,   texts |-> {""},        overruns |-> FALSE],
            [number |-> "long", texts |-> {"rubbish"}, overruns |-> TRUE]}

Symmetry == Permutations(Clients) \cup Permutations(ClientIds)
=============================================================================
