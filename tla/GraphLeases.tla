----------------------------- MODULE GraphLeases -----------------------------
(***************************************************************************)
(* What the derived graph storage promises the statements of GQL, with     *)
(* nothing of how it keeps the promise: no snapshots, no deltas, no        *)
(* generations.  A statement is given one committed state of the graph,    *)
(* no older than the commits acknowledged before it began, and reads that  *)
(* state until it ends.                                                    *)
(*                                                                         *)
(* AcquireFullLease: "Inserts committed during a statement don't end its   *)
(* lease, so it reads one version."                                        *)
(***************************************************************************)
EXTENDS Naturals, Sequences

CONSTANT Sessions

VARIABLES
    states,  \* the committed states of the graph, each a set of rows
    acked,   \* the commits whose clients were told of them
    place,   \* a session's statement: "idle", "asking" or "given"
    since,   \* the commits acknowledged before its statement
    lease    \* the rows it was given

leaseVars == <<states, acked, place, since, lease>>

Init ==
    /\ Len(states) = 1 /\ acked = {1}
    /\ place = [s \in Sessions |-> "idle"]
    /\ since = [s \in Sessions |-> {}]
    /\ lease = [s \in Sessions |-> {}]

(* Which rows a commit leaves behind is up to its client. *)
Commit ==
    /\ Len(states') = Len(states) + 1
    /\ SubSeq(states', 1, Len(states)) = states
    /\ UNCHANGED <<acked, place, since, lease>>

Acknowledge ==
    /\ acked' # acked
    /\ acked \subseteq acked' /\ acked' \subseteq 1..Len(states)
    /\ UNCHANGED <<states, place, since, lease>>

Ask(s) ==
    /\ place[s] = "idle"
    /\ place' = [place EXCEPT ![s] = "asking"]
    /\ since' = [since EXCEPT ![s] = acked]
    /\ UNCHANGED <<states, acked, lease>>

Give(s) ==
    /\ place[s] = "asking"
    /\ place' = [place EXCEPT ![s] = "given"]
    /\ \E k \in 1..Len(states) :
          /\ \A j \in since[s] : j <= k
          /\ lease' = [lease EXCEPT ![s] = states[k]]
    /\ UNCHANGED <<states, acked, since>>

(* With a result, or with an error at any time. *)
End(s) ==
    /\ place[s] # "idle"
    /\ place' = [place EXCEPT ![s] = "idle"]
    /\ since' = [since EXCEPT ![s] = {}]
    /\ lease' = [lease EXCEPT ![s] = {}]
    /\ UNCHANGED <<states, acked>>

Next ==
    \/ Commit
    \/ Acknowledge
    \/ \E s \in Sessions : Ask(s) \/ Give(s) \/ End(s)

Spec ==
    /\ Init /\ [][Next]_leaseVars
    /\ \A s \in Sessions : WF_leaseVars(End(s))
=============================================================================
