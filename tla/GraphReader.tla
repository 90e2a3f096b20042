----------------------------- MODULE GraphReader -----------------------------
(***************************************************************************)
(* One table function that reads a graph through its CSR: a physical       *)
(* operator of a MATCH, or a graph algorithm called as a procedure.  It    *)
(* acquires a lease once and then answers one request after another; the   *)
(* modules that extend this one say how.                                   *)
(***************************************************************************)
EXTENDS CsrTopology

CONSTANTS
    VectorSize, \* STANDARD_VECTOR_SIZE: rows of a chunk
    Null        \* NULL, and a parameter not given

ASSUME ReaderAssumption == VectorSize \in Nat \ {0} /\ Null \notin Nat \cup STRING

VARIABLES
    graph,   \* the committed rows of its tables, as CsrTopology describes them
    request, \* the chunks, rows or calls the function is given, in order
    lease,   \* the lease its operator's global state keeps
    local,   \* its local state; local.op names the function
    output   \* what it has returned

vars == <<graph, request, lease, local, output>>

NoLease == [snapshot |-> Null, delta |-> Null]

Edges == ToSet(graph.edges)
Vertices == ToSet(graph.vertices)
VertexIds == {v.id : v \in Vertices}

(* The vertex an edge is followed from, and the one it leads to. *)
Near(e, outgoing) == IF outgoing THEN e.source ELSE e.target
Far(e, outgoing) == IF outgoing THEN e.target ELSE e.source

LabelsOf(id) == UNION {ToSet(v.labels) : v \in {v \in Vertices : v.id = id}}

(* The first request the function has not answered. *)
Now == request[local.at]

Answered == local.at > Len(request)

(* AcquireCsrOperatorLease; GqlGetOrBuildCsrSnapshot of an algorithm takes no delta. *)
Acquire ==
    /\ lease = NoLease
    /\ lease' = IF local.op \in {"neighbors", "expand", "trails", "shortest", "labelled", "fetch"} THEN LeaseOf(graph)
                ELSE [snapshot |-> BuildTableSnapshot(graph.vertices, graph.edges), delta |-> NoDelta]
    /\ UNCHANGED <<graph, request, local, output>>

Acquired == lease # NoLease

Step == UNCHANGED <<graph, request, lease>>

Answer(row) == output' = Append(output, row)
=============================================================================
