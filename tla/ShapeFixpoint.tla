--------------------------- MODULE ShapeFixpoint ---------------------------
(***************************************************************************)
(* What shape inference promises, whatever order it visits operations in.  *)
(*                                                                         *)
(* A graph has nodes (the values of a function); static ones are known     *)
(* from the start, an inferable one may be learnt once everything it needs *)
(* is known, and the function is accepted when all its results are known.  *)
(* A function is rejected only if no order of learning could know them     *)
(* all: the results are compared with the least set closed under learning. *)
(***************************************************************************)
VARIABLES graph,    \* the dependency graph of the function
          known,    \* the nodes whose shape is known
          verdict   \* "open", "accept" or "reject"

vars == <<graph, known, verdict>>

IsGraph(g) ==
    /\ g.static \subseteq g.nodes
    /\ g.inferable \subseteq g.nodes
    /\ g.results \subseteq g.nodes
    /\ \A v \in g.inferable : g.need[v] \subseteq g.nodes

Closed(g, K) ==
    /\ g.static \subseteq K
    /\ \A v \in g.inferable : g.need[v] \subseteq K => v \in K

LeastKnown(g) ==
    {v \in g.nodes : \A K \in SUBSET g.nodes : Closed(g, K) => v \in K}

Init ==
    /\ IsGraph(graph)
    /\ known = graph.static
    /\ verdict = "open"

Learn(v) ==
    /\ verdict = "open"
    /\ graph.need[v] \subseteq known
    /\ known' = known \cup {v}
    /\ UNCHANGED <<graph, verdict>>

Accept ==
    /\ verdict = "open"
    /\ graph.results \subseteq known
    /\ verdict' = "accept"
    /\ UNCHANGED <<graph, known>>

Reject ==
    /\ verdict = "open"
    /\ ~ graph.results \subseteq LeastKnown(graph)
    /\ verdict' = "reject"
    /\ UNCHANGED <<graph, known>>

Next == (\E v \in graph.inferable : Learn(v)) \/ Accept \/ Reject

Spec == Init /\ [][Next]_vars
=============================================================================
