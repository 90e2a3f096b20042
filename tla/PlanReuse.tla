------------------------------ MODULE PlanReuse ------------------------------
(***************************************************************************)
(* What a session may reuse of an earlier statement: the metadata of a     *)
(* graph, which GqlTableGraphCache (gql_catalog.cpp) keeps for the whole   *)
(* instance, and the plan of its prepared MATCH (gql_plan_reuse.cpp).      *)
(* Both are dated by one number, GqlTableGraphCache::generation, which     *)
(* every writer advances when its statement is planned and again after its *)
(* commit (CsrWriteObserver, dbGen).  Nothing ties the reading of metadata *)
(* or tables to the reading of that number but the order of the reads.     *)
(*                                                                         *)
(* One managed graph.  Its metadata changes with graph_version, which a    *)
(* GQL write advances in its own transaction, so what a query reads of the *)
(* metadata is the version it reads it at.  A session's statements are in  *)
(* autocommit mode: in an explicit transaction no plan is captured and     *)
(* none is kept.                                                           *)
(***************************************************************************)
EXTENDS CsrWriteObserver

CONSTANTS
    Settings,   \* what SESSION SET GRAPH and gql_optimizer may be set to
    CallLimit   \* statements each session may issue

ASSUME PlanReuseAssumption == Settings # {} /\ CallLimit \in Nat

VARIABLES
    entry,      \* GqlTableGraphCache::entries: {} or {the graph's entry}
    spc,        \* where a session's statement stands
    captured,   \* the generation GqlTryLoadTableGraph read before its load
    binding,    \* the GqlTableGraphBinding of the statement
    later,      \* whether GetLastCommit() has passed the transaction's start_time
    base,       \* the commits the statement's transaction sees
    checked,    \* the commits there were when CanTrackDatabase compared the two
    settings,   \* selected_graph and optimizer of the session
    plan,       \* the session's entry of GqlPlanReuseState: {} or {plan}
    told,       \* the commits acknowledged before the EXECUTE began
    kept,       \* the plans EXECUTE kept, with what it had been told: {} or {pair}
    calls       \* statements issued so far

loadVars  == <<captured, binding>>
startVars == <<later, base, checked>>
execVars  == <<told, kept>>
sessionVars == <<entry, spc, loadVars, startVars, settings, plan, execVars, calls>>
vars == <<observerVars, sessionVars>>

NoBinding == [version |-> 0, tables |-> 0]

Init ==
    /\ InitObserver
    /\ entry = {}
    /\ spc = [s \in Sessions |-> "idle"]
    /\ captured = [s \in Sessions |-> 0]
    /\ binding = [s \in Sessions |-> NoBinding]
    /\ later = [s \in Sessions |-> FALSE]
    /\ base = [s \in Sessions |-> 1]
    /\ checked = [s \in Sessions |-> 1]
    /\ settings = [s \in Sessions |-> CHOOSE value \in Settings : TRUE]
    /\ plan = [s \in Sessions |-> {}]
    /\ told = [s \in Sessions |-> {}]
    /\ kept = [s \in Sessions |-> {}]
    /\ calls = [s \in Sessions |-> 0]

To(s, label) == spc' = [spc EXCEPT ![s] = label]

(* Every commit moves GetLastCommit() past the transactions that are open, those
   that only read included: all but the one that commits. *)
CommitPasses(others) ==
    later' = [s \in Sessions |-> later[s] \/ (s \in others /\ spc[s] # "idle")]

-----------------------------------------------------------------------------
(* Writers: GqlInvalidateTableGraphCache also clears the entries, which the write
   observer, having no cache, leaves to this module. *)

WriterActs ==
    /\ \E w \in Writers : WriterStep(w)
    /\ entry' = IF dbGen' = dbGen THEN entry ELSE {}
    /\ IF log' = log THEN UNCHANGED later ELSE CommitPasses(Sessions)
    /\ UNCHANGED <<spc, loadVars, base, checked, settings, plan, execVars, calls>>

-----------------------------------------------------------------------------
(* GqlTryLoadTableGraph. *)

(* FindCachedTableGraph *)
Usable == {e \in entry : e.generation = dbGen}

(* A statement's transaction begins. *)
Begin(s, label) ==
    /\ spc[s] = "idle"
    /\ calls[s] < CallLimit
    /\ calls' = [calls EXCEPT ![s] = @ + 1]
    /\ later' = [later EXCEPT ![s] = FALSE]
    /\ base' = [base EXCEPT ![s] = Len(log)]
    /\ To(s, label)

(* PREPARE of a MATCH. *)
Prepare(s) ==
    /\ Begin(s, "bind")
    /\ kept' = [kept EXCEPT ![s] = {}]
    /\ plan' = [plan EXCEPT ![s] = {}]
    /\ UNCHANGED <<entry, loadVars, checked, settings, told, observerVars>>

BindFromCache(s) ==
    /\ spc[s] = "bind"
    /\ \E e \in Usable : binding' = [binding EXCEPT ![s] = e.binding]
    /\ To(s, "optimize")
    /\ UNCHANGED <<entry, captured, startVars, settings, plan, execVars, calls, observerVars>>

(* The entry is missing or expired. *)
StartLoad(s) ==
    /\ spc[s] = "bind"
    /\ Usable = {}
    /\ captured' = [captured EXCEPT ![s] = dbGen]
    /\ To(s, "version")
    /\ UNCHANGED <<entry, binding, startVars, settings, plan, execVars, calls, observerVars>>

(* LoadTableGraph asks one query after the other, each in a transaction of its
   own: first for the graph and its version ... *)
LoadVersion(s) ==
    /\ spc[s] = "version"
    /\ binding' = [binding EXCEPT ![s].version = Table.version]
    /\ CommitPasses(Sessions)
    /\ To(s, "tables")
    /\ UNCHANGED <<entry, captured, base, checked, settings, plan, execVars, calls, observerVars>>

(* ... then for its tables, columns, labels and indexes. *)
LoadTables(s) ==
    /\ spc[s] = "tables"
    /\ binding' = [binding EXCEPT ![s].tables = Table.version]
    /\ CommitPasses(Sessions)
    /\ To(s, "store")
    /\ UNCHANGED <<entry, captured, base, checked, settings, plan, execVars, calls, observerVars>>

(* Mutant of LoadedAt: the entry is dated when it is stored. *)
DatedAtStore(s) == dbGen

LoadedAt(s) == captured[s]

(* Mutant of Stored: what another session loaded meanwhile is not replaced. *)
StoredBeside(s) == entry \cup {[generation |-> LoadedAt(s), binding |-> binding[s]]}

Stored(s) == {[generation |-> LoadedAt(s), binding |-> binding[s]]}

Store(s) ==
    /\ spc[s] = "store"
    /\ entry' = IF LoadedAt(s) = dbGen THEN Stored(s) ELSE entry
    /\ To(s, "optimize")
    /\ UNCHANGED <<loadVars, startVars, settings, plan, execVars, calls, observerVars>>

-----------------------------------------------------------------------------
(* GqlPlanReuseOptimize, which may capture the plan of a PREPARE. *)

(* Mutant of SeesLastCommit: a commit the plan does not see is not looked for. *)
TrackAnyDatabase(s) == TRUE

(* CanTrackDatabase, preparing. *)
SeesLastCommit(s) == ~later[s]

(* The statement's transaction ends with a commit, and its locals with it. *)
End(s) ==
    /\ later' = [t \in Sessions |-> t # s /\ (later[t] \/ spc[t] # "idle")]
    /\ captured' = [captured EXCEPT ![s] = 0]
    /\ binding' = [binding EXCEPT ![s] = NoBinding]
    /\ base' = [base EXCEPT ![s] = 1]
    /\ checked' = [checked EXCEPT ![s] = 1]
    /\ told' = [told EXCEPT ![s] = {}]
    /\ To(s, "idle")

Track(s) ==
    /\ spc[s] = "optimize"
    /\ SeesLastCommit(s)
    /\ checked' = [checked EXCEPT ![s] = Len(log)]
    /\ To(s, "token")
    /\ UNCHANGED <<entry, loadVars, later, base, settings, plan, execVars, calls, observerVars>>

(* An ordinary prepared statement, rebound by every EXECUTE. *)
Refuse(s) ==
    /\ spc[s] = "optimize"
    /\ ~SeesLastCommit(s)
    /\ End(s)
    /\ UNCHANGED <<entry, settings, plan, kept, calls, observerVars>>

(* TryBuildToken, once the databases are checked.  The commits that came after the
   last commit was compared and were acknowledged before the generation is read
   are hidden by the token although the plan does not see them: slipped. *)
Token(s) == [generation |-> dbGen, settings |-> settings[s]]

Capture(s) ==
    /\ spc[s] = "token"
    /\ plan' = [plan EXCEPT ![s] = {[token |-> Token(s), base |-> base[s],
                                     slipped |-> {k \in acked : k > checked[s]}]}]
    /\ End(s)
    /\ UNCHANGED <<entry, settings, kept, calls, observerVars>>

-----------------------------------------------------------------------------
(* Between statements, and EXECUTE. *)

(* SESSION SET GRAPH, SET gql_optimizer *)
Set(s, value) ==
    /\ spc[s] = "idle"
    /\ value # settings[s]
    /\ settings' = [settings EXCEPT ![s] = value]
    /\ kept' = [kept EXCEPT ![s] = {}]
    /\ UNCHANGED <<entry, spc, loadVars, startVars, plan, told, calls, observerVars>>

Execute(s) ==
    /\ plan[s] # {}
    /\ Begin(s, "execute")
    /\ told' = [told EXCEPT ![s] = acked]
    /\ kept' = [kept EXCEPT ![s] = {}]
    /\ UNCHANGED <<entry, loadVars, checked, settings, plan, observerVars>>

SameToken(s, p) == p.token = Token(s)

(* GqlPlanReuseState::OnRebindPreparedStatement *)
KeepPlan(s) ==
    /\ spc[s] = "execute"
    /\ \E p \in plan[s] :
          /\ SameToken(s, p)
          /\ kept' = [kept EXCEPT ![s] = {[plan |-> p, settings |-> settings[s], told |-> told[s]]}]
    /\ End(s)
    /\ UNCHANGED <<entry, settings, plan, calls, observerVars>>

(* ATTEMPT_TO_REBIND: the statement is planned anew, outside a PREPARE. *)
Rebind(s) ==
    /\ spc[s] = "execute"
    /\ \A p \in plan[s] : ~SameToken(s, p)
    /\ plan' = [plan EXCEPT ![s] = {}]
    /\ End(s)
    /\ UNCHANGED <<entry, settings, kept, calls, observerVars>>

SessionStep(s) ==
    \/ Prepare(s) \/ BindFromCache(s) \/ StartLoad(s)
    \/ LoadVersion(s) \/ LoadTables(s) \/ Store(s)
    \/ Track(s) \/ Refuse(s) \/ Capture(s)
    \/ \E value \in Settings : Set(s, value)
    \/ Execute(s) \/ KeepPlan(s) \/ Rebind(s)

Next == WriterActs \/ \E s \in Sessions : SessionStep(s)

Spec == Init /\ [][Next]_vars

-----------------------------------------------------------------------------
Binding == [version : Nat, tables : Nat]
Entry == [generation : 0..dbGen, binding : Binding]
Plan == [token : [generation : 0..dbGen, settings : Settings], base : 1..Len(log),
         slipped : SUBSET acked]
Labels == {"idle", "bind", "version", "tables", "store", "optimize", "token", "execute"}

(* The observer's variables keep their shapes; there is at most one entry, and neither
   it nor a plan is ever dated after the present (GqlTableGraphCache::Entry). *)
TypeOK ==
    /\ ObserverTypeOK
    /\ entry \subseteq Entry
    /\ Cardinality(entry) <= 1
    /\ spc \in [Sessions -> Labels]
    /\ captured \in [Sessions -> 0..dbGen]
    /\ binding \in [Sessions -> Binding]
    /\ later \in [Sessions -> BOOLEAN]
    /\ base \in [Sessions -> 1..Len(log)] /\ checked \in [Sessions -> 1..Len(log)]
    /\ settings \in [Sessions -> Settings]
    /\ plan \in [Sessions -> SUBSET Plan]
    /\ \A s \in Sessions : Cardinality(plan[s]) <= 1
    /\ told \in [Sessions -> SUBSET acked]
    /\ kept \in [Sessions -> SUBSET [plan : Plan, settings : Settings, told : SUBSET acked]]
    /\ calls \in [Sessions -> 0..CallLimit]

Changes(k) == k > 1 /\ (log[k].rows # log[k - 1].rows \/ log[k].version # log[k - 1].version)

(* The metadata a bind takes from the cache is at least what every writer that
   was told of a change left, however loads and invalidations interleave
   (FindCachedTableGraph, GqlTryLoadTableGraph).  It is also no older than
   cacheVersion, which is all the model of the derived storage assumes of
   GqlTryGetCachedGraphVersion.  A load reads the version and the tables in two
   transactions: what it read on either side of a commit serves later binds only
   until that commit's writer has invalidated the cache. *)
CacheNeverBehind ==
    \A e \in Usable :
        /\ e.binding.version >= cacheVersion /\ e.binding.tables >= cacheVersion
        /\ \A k \in {k \in acked : Changes(k)} :
               e.binding.version >= log[k].version /\ e.binding.tables >= log[k].version

(* EXECUTE keeps a plan only if it was bound under the same settings and its
   transaction saw every change acknowledged before the EXECUTE began, but for
   those that slipped in while the token was captured (OnRebindPreparedStatement:
   "Such a plan stays correct while no write has changed that state"). *)
KeptPlanIsCurrent ==
    \A s \in Sessions : \A x \in kept[s] :
        /\ x.plan.token.settings = x.settings
        /\ \A k \in x.told : Changes(k) => k <= x.plan.base \/ k \in x.plan.slipped
=============================================================================
