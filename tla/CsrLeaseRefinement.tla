------------------------- MODULE CsrLeaseRefinement -------------------------
(* CsrStorage implements GraphLeases while writers only insert: the refinement
   mapping.  With updates and deletes it does not, see CsrStorage!LeaseFresh and
   CsrStorage!ReusableLeaseFresh for what is left. *)
EXTENDS CsrStorage

Promise == INSTANCE GraphLeases WITH
    states <- [k \in 1..Len(log) |-> log[k].rows],
    place  <- [s \in Sessions |-> IF At(s, "idle") THEN "idle"
                                  ELSE IF HasLease(s) THEN "given" ELSE "asking"],
    since  <- [s \in Sessions |-> call[s].since],
    lease  <- [s \in Sessions |-> call[s].lease.rows]

(* Every behaviour of lookups, builds, loads, catch-ups and their retries is one of
   GraphLeases: however a snapshot came about, its statement is given exactly one
   committed state, none older than what was acknowledged before the statement, is
   never given another, and ends.  AcquireFullLease: "so it reads one version". *)
LeasesAsPromised == Promise!Spec
=============================================================================
