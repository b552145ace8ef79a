------------------------ MODULE InterceptorFramework ------------------------
(***************************************************************************)
(* The packet interception framework (fred_framework): interceptors, the   *)
(* rules they are asked for, the filters of the rules in the five chains,  *)
(* and the netfilter hooks that walk the chains.                           *)
(*                                                                         *)
(* Interceptor modules (un)register, and /proc/interceptor_registry        *)
(* creates and removes rules, in process context on one processor without  *)
(* preemption: one operation at a time.  Hooks run in interrupt context,   *)
(* from start to end between any two stores of an operation.  Only the     *)
(* chains are shared with them, so the chains are pointers (klist.c) with  *)
(* one step for every store a hook can observe, and the lists of           *)
(* interceptors and rules are sequences.                                   *)
(*                                                                         *)
(* A node is named by the filter it holds: filter n of rule id is          *)
(* <<id, n>>.  Nodes are never freed (free_klist_node tests the wrong      *)
(* way round), so a node is not reused.  Allocations succeed; where the    *)
(* code handles a failed one, it leaves everything as it was.              *)
(***************************************************************************)
EXTENDS Integers, Sequences, FiniteSets, SequencesExt

CONSTANTS Interceptors,           \* the interceptor modules
          Chains,                 \* the entry points
          FiltersOf,              \* the filters create_rule_for_specs_cb makes
          Steals,                 \* the interceptors that do not return NF_ACCEPT
          MAX_FILTERS_PER_CHAIN,
          MaxRules                \* bound: rules ever created

None == "none"
NULL == <<>>

ASSUME FrameworkAssumption ==
  /\ IsFiniteSet(Interceptors) /\ None \notin Interceptors
  /\ FiltersOf \in [Interceptors -> Seq([at : Chains, priority : 0..255])]
  /\ Steals \subseteq Interceptors
  /\ MAX_FILTERS_PER_CHAIN \in Nat /\ MaxRules \in Nat \ {0}

VARIABLES
  int_list,     \* the registered interceptors
  manager_rule_list,
  owner,        \* r->interceptor, per rule id
  id,           \* the static of make_rule
  first, last,  \* per chain: the ends of its klist
  front, back,  \* per node: its neighbours
  len,          \* per chain: chains[chain].len
  op,           \* the operation in progress
  dirty,        \* proc_contents.dirty
  listing,      \* what the last fill_proc_contents listed
  freed_specs,  \* rules whose filter_specs have been freed
  freed,        \* filters that have been freed
  refused,      \* history: filters that found their chain full
  examined      \* history: filters whose memory the latest hook has read, if
                \* nothing happened since

listVars == <<int_list, manager_rule_list, owner, id>>
chainVars == <<first, last, front, back, len>>
memVars == <<freed_specs, freed, refused>>
procVars == <<dirty, listing>>
vars == <<listVars, chainVars, memVars, procVars, op, examined>>

Ids == 0..(MaxRules - 1)
Numbers == UNION {DOMAIN FiltersOf[i] : i \in Interceptors}
Nodes == Ids \X Numbers
MaybeNode == Nodes \cup {NULL}

Idle == [pc |-> "idle", rule |-> 0, n |-> 0, cur |-> NULL, name |-> None]
Labels == {"idle", "register", "insert_front", "insert_link", "count",
           "append", "unregister", "uncount", "free", "sweep"}

TypeOK ==
  /\ int_list \in Seq(Interceptors) /\ manager_rule_list \in Seq(Ids)
  /\ owner \in [Ids -> Interceptors \cup {None}]
  /\ id \in 0..MaxRules
  /\ first \in [Chains -> MaybeNode] /\ last \in [Chains -> MaybeNode]
  /\ front \in [Nodes -> MaybeNode] /\ back \in [Nodes -> MaybeNode]
  /\ len \in [Chains -> 0..MAX_FILTERS_PER_CHAIN]
  /\ op \in [pc : Labels, rule : Ids, n : Nat, cur : MaybeNode,
             name : Interceptors \cup {None}]
  /\ dirty \in BOOLEAN
  /\ freed_specs \subseteq Ids /\ freed \subseteq Nodes /\ refused \subseteq Nodes
  /\ examined \in Seq(Nodes)

Init ==
  /\ int_list = <<>> /\ manager_rule_list = <<>>
  /\ owner = [r \in Ids |-> None] /\ id = 0
  /\ first = [c \in Chains |-> NULL] /\ last = [c \in Chains |-> NULL]
  /\ front = [f \in Nodes |-> NULL] /\ back = [f \in Nodes |-> NULL]
  /\ len = [c \in Chains |-> 0]
  /\ op = Idle
  /\ dirty = TRUE /\ listing = <<>>
  /\ freed_specs = {} /\ freed = {} /\ refused = {} /\ examined = <<>>

-----------------------------------------------------------------------------
(* Filters and lists.                                                      *)

NumberOfFilters(r) == Len(FiltersOf[owner[r]])
At(f) == FiltersOf[owner[f[1]]][f[2]].at
Priority(f) == FiltersOf[owner[f[1]]][f[2]].priority

\* The nodes an iterator meets that starts at x and follows next; a cycle
\* shows as a path longer than there are nodes.
Path(next, x) ==
  LET p[k \in 0..(Cardinality(Nodes) + 1)] ==
        [y \in MaybeNode |-> IF k = 0 \/ y = NULL THEN <<>>
                             ELSE <<y>> \o p[k - 1][next[y]]]
  IN  p[Cardinality(Nodes) + 1][x]

Filters(c) == Path(front, first[c])

\* What a hook walks through: nothing when len is 0.
Walk(c) == IF len[c] = 0 THEN <<>> ELSE Filters(c)

-----------------------------------------------------------------------------
(* Interceptors and rules.                                                 *)

register_interceptor(i) ==
  /\ op = Idle /\ i \notin Range(int_list)
  /\ int_list' = Append(int_list, i)
  /\ dirty' = TRUE /\ examined' = <<>>
  /\ UNCHANGED <<manager_rule_list, owner, id, chainVars, memVars, op, listing>>

\* parse_request 'R', create_rule and the start of register_rule: the rule is
\* listed before its filters are registered.
create_rule(i) ==
  /\ op = Idle /\ i \in Range(int_list) /\ id < MaxRules
  /\ owner' = [owner EXCEPT ![id] = i]
  /\ manager_rule_list' = Append(manager_rule_list, id)
  /\ op' = [Idle EXCEPT !.pc = "register", !.rule = id, !.n = 1]
  /\ id' = id + 1 /\ examined' = <<>>
  /\ UNCHANGED <<int_list, chainVars, memVars, procVars>>

\* Mutant: the cached listing survives the removal of a rule.
Removed_NoMess == op' = (IF op.name = None THEN Idle
                         ELSE [Idle EXCEPT !.pc = "sweep", !.name = op.name])
                  /\ UNCHANGED dirty

\* The end of unregister_rule, or back to the loop over the rules.
Removed == op' = (IF op.name = None THEN Idle
                  ELSE [Idle EXCEPT !.pc = "sweep", !.name = op.name])
           /\ dirty' = TRUE

\* parse_request 'U' and unregister_rule: the rule is taken off the list, then
\* its filters are unregistered one by one.
remove_rule(r) ==
  /\ op = Idle /\ r \in Range(manager_rule_list)
  /\ manager_rule_list' = RemoveFirst(manager_rule_list, r)
  /\ op' = [Idle EXCEPT !.pc = "unregister", !.rule = r, !.n = 1]
  /\ examined' = <<>>
  /\ UNCHANGED <<int_list, owner, id, chainVars, memVars, procVars>>

\* Mutant: the interceptor goes first, then its rules.
unregister_interceptor_First(i) ==
  /\ op = Idle /\ i \in Range(int_list)
  /\ op' = [Idle EXCEPT !.pc = "sweep", !.name = i]
  /\ int_list' = RemoveFirst(int_list, i) /\ examined' = <<>>
  /\ UNCHANGED <<manager_rule_list, owner, id, chainVars, memVars, procVars>>

unregister_interceptor(i) ==
  /\ op = Idle /\ i \in Range(int_list)
  /\ op' = [Idle EXCEPT !.pc = "sweep", !.name = i] /\ examined' = <<>>
  /\ UNCHANGED <<listVars, chainVars, memVars, procVars>>

\* unregister_rules_for_interceptor: the iterator is only moved by a removal,
\* so it stands at the head of the list in every turn of the loop.
SweepRemoves ==
  /\ op.pc = "sweep" /\ manager_rule_list # <<>>
  /\ owner[Head(manager_rule_list)] = op.name
  /\ manager_rule_list' = Tail(manager_rule_list)
  /\ op' = [op EXCEPT !.pc = "unregister", !.rule = Head(manager_rule_list),
                      !.n = 1]
  /\ examined' = <<>>
  /\ UNCHANGED <<int_list, owner, id, chainVars, memVars, procVars>>

\* A rule of another interceptor: the loop goes round with nothing changed.
ForeignRule == /\ op.pc = "sweep" /\ manager_rule_list # <<>>
               /\ owner[Head(manager_rule_list)] # op.name
SweepSpins == ForeignRule /\ UNCHANGED vars

\* No more rules: the interceptor is taken off the list.
SweepEnds ==
  /\ op.pc = "sweep" /\ manager_rule_list = <<>>
  /\ int_list' = RemoveFirst(int_list, op.name)
  /\ op' = Idle /\ dirty' = TRUE /\ examined' = <<>>
  /\ UNCHANGED <<manager_rule_list, owner, id, chainVars, memVars, listing>>

-----------------------------------------------------------------------------
(* register_filter, for filter op.n of rule op.rule.                       *)

New == <<op.rule, op.n>>
Chain == At(New)
NextFilter(pc) == op' = [op EXCEPT !.pc = pc, !.n = @ + 1, !.cur = NULL]

Full == len[Chain] = MAX_FILTERS_PER_CHAIN

Registering(pc) ==
  /\ op.pc = pc /\ op.n <= NumberOfFilters(op.rule)
  /\ examined' = <<>>
  /\ UNCHANGED <<listVars, freed_specs, freed, procVars>>

\* Mutant: a filter goes before the ones of its own priority.
Outranks_Equal(f, g) == Priority(f) >= Priority(g)

Outranks(f, g) == Priority(f) > Priority(g)

\* Where the iterator of __register_filter stops: the place of the first filter
\* of lower priority, or 0.
Behind == SelectInSeq(Filters(Chain), LAMBDA g : Outranks(New, g))

\* Mutant: the filter is tried again.
ChainFull_Retries ==
  /\ Registering("register") /\ Full
  /\ refused' = refused \cup {New}
  /\ UNCHANGED <<chainVars, op>>

\* The chain is full: the failure is logged and the rule stays as it is.
ChainFull ==
  /\ Registering("register") /\ Full
  /\ refused' = refused \cup {New}
  /\ NextFilter("register")
  /\ UNCHANGED chainVars

\* klist_iterator_insert_before, first store: a new head has no front yet.
InsertFirst ==
  /\ Registering("register") /\ ~Full /\ Behind # 0
  /\ first' = IF Filters(Chain)[Behind] = first[Chain]
              THEN [first EXCEPT ![Chain] = New] ELSE first
  /\ op' = [op EXCEPT !.pc = "insert_front", !.cur = Filters(Chain)[Behind]]
  /\ UNCHANGED <<last, front, back, len, refused>>

InsertFront ==
  /\ Registering("insert_front")
  /\ front' = [front EXCEPT ![New] = op.cur]
  /\ op' = [op EXCEPT !.pc = "insert_link"]
  /\ UNCHANGED <<first, last, back, len, refused>>

\* Mutant: the neighbour in front keeps its old back pointer.
InsertLink_NoBack ==
  /\ Registering("insert_link")
  /\ front' = IF back[op.cur] = NULL THEN front
              ELSE [front EXCEPT ![back[op.cur]] = New]
  /\ back' = [back EXCEPT ![New] = back[op.cur]]
  /\ op' = [op EXCEPT !.pc = "count"]
  /\ UNCHANGED <<first, last, len, refused>>

InsertLink ==
  /\ Registering("insert_link")
  /\ front' = IF back[op.cur] = NULL THEN front
              ELSE [front EXCEPT ![back[op.cur]] = New]
  /\ back' = [back EXCEPT ![New] = back[op.cur], ![op.cur] = New]
  /\ op' = [op EXCEPT !.pc = "count"]
  /\ UNCHANGED <<first, last, len, refused>>

InsertCount ==
  /\ Registering("count")
  /\ len' = [len EXCEPT ![Chain] = @ + 1]
  /\ NextFilter("register")
  /\ UNCHANGED <<first, last, front, back, refused>>

\* No filter of lower priority: len first, then add_klist_node_to_klist.
AppendCount ==
  /\ Registering("register") /\ ~Full /\ Behind = 0
  /\ len' = [len EXCEPT ![Chain] = @ + 1]
  /\ op' = [op EXCEPT !.pc = "append"]
  /\ UNCHANGED <<first, last, front, back, refused>>

add_klist_node_to_klist ==
  /\ Registering("append")
  /\ IF first[Chain] = NULL
     THEN first' = [first EXCEPT ![Chain] = New] /\ UNCHANGED <<front, back>>
     ELSE /\ back' = [back EXCEPT ![New] = last[Chain]]
          /\ front' = [front EXCEPT ![last[Chain]] = New]
          /\ UNCHANGED first
  /\ last' = [last EXCEPT ![Chain] = New]
  /\ NextFilter("register")
  /\ UNCHANGED <<len, refused>>

\* The end of register_rule.
Registered ==
  /\ op.pc = "register" /\ op.n > NumberOfFilters(op.rule)
  /\ op' = Idle /\ dirty' = TRUE /\ examined' = <<>>
  /\ UNCHANGED <<listVars, chainVars, memVars, listing>>

-----------------------------------------------------------------------------
(* free_rule_and_unregister_filters, for filter op.n of rule op.rule.      *)

Unregistering(pc) ==
  /\ op.pc = pc /\ op.n <= NumberOfFilters(op.rule)
  /\ examined' = <<>>
  /\ UNCHANGED <<listVars, refused, procVars>>

\* remove_klist_node_from_klist: one store that a hook can see in each case.
Unlink(kn) ==
  /\ first' = IF first[Chain] = kn THEN [first EXCEPT ![Chain] = front[kn]]
              ELSE first
  /\ last' = IF last[Chain] = kn THEN [last EXCEPT ![Chain] = back[kn]]
             ELSE last
  /\ front' = IF back[kn] = NULL THEN front
              ELSE [front EXCEPT ![back[kn]] = front[kn]]
  /\ back' = IF front[kn] = NULL THEN back
             ELSE [back EXCEPT ![front[kn]] = back[kn]]

unregister_filter ==
  /\ Unregistering("unregister")
  /\ IF New \in Range(Filters(Chain))
     THEN Unlink(New) /\ op' = [op EXCEPT !.pc = "uncount"]
     ELSE /\ UNCHANGED <<first, last, front, back>>
          /\ op' = [op EXCEPT !.pc = "free"]
  /\ UNCHANGED <<len, freed_specs, freed>>

Uncount ==
  /\ Unregistering("uncount")
  /\ len' = [len EXCEPT ![Chain] = @ - 1]
  /\ op' = [op EXCEPT !.pc = "free"]
  /\ UNCHANGED <<first, last, front, back, freed_specs, freed>>

\* Mutant: every filter's memory goes with the first one.
FreeFilter_All ==
  /\ Unregistering("free")
  /\ freed_specs' = freed_specs \cup {op.rule}
  /\ freed' = freed \cup {<<op.rule, n>> : n \in 1..NumberOfFilters(op.rule)}
  /\ NextFilter("unregister")
  /\ UNCHANGED chainVars

\* The specification shared by the rule's filters is freed with the first.
FreeFilter ==
  /\ Unregistering("free")
  /\ freed_specs' = IF op.n = 1 THEN freed_specs \cup {op.rule} ELSE freed_specs
  /\ freed' = freed \cup {New}
  /\ NextFilter("unregister")
  /\ UNCHANGED chainVars

RuleRemoved ==
  /\ op.pc = "unregister" /\ op.n > NumberOfFilters(op.rule)
  /\ Removed /\ examined' = <<>>
  /\ UNCHANGED <<listVars, chainVars, memVars, listing>>

-----------------------------------------------------------------------------
(* The hooks and the listing.                                              *)

\* A packet that matches the specifications of the rules in matching comes by
\* entry point c: the filters are examined in order until one that applies
\* does not return NF_ACCEPT.
nf_hook(c, matching) ==
  LET w == Walk(c)
      stops == {k \in DOMAIN w : w[k][1] \in matching /\ owner[w[k][1]] \in Steals}
      end == Min(stops \cup {Len(w)})
  IN  /\ examined' = SubSeq(w, 1, end)
      /\ UNCHANGED <<listVars, chainVars, memVars, procVars, op>>

\* /proc/interceptor_list is read: the text is rebuilt if it is dirty.  Of the
\* text only which interceptors and rules it lists is kept.
procfile_read ==
  /\ op = Idle /\ dirty
  /\ listing' = <<int_list, manager_rule_list>>
  /\ dirty' = FALSE /\ examined' = <<>>
  /\ UNCHANGED <<listVars, chainVars, memVars, op>>

-----------------------------------------------------------------------------
\* The next step of the operation in progress.
Continue ==
  \/ SweepRemoves \/ SweepSpins \/ SweepEnds
  \/ ChainFull \/ InsertFirst \/ InsertFront \/ InsertLink \/ InsertCount
  \/ AppendCount \/ add_klist_node_to_klist \/ Registered
  \/ unregister_filter \/ Uncount \/ FreeFilter \/ RuleRemoved

Next ==
  \/ \E i \in Interceptors : \/ register_interceptor(i) \/ create_rule(i)
                             \/ unregister_interceptor(i)
  \/ \E r \in Ids : remove_rule(r)
  \/ Continue
  \/ \E c \in Chains, m \in SUBSET Ids : nf_hook(c, m)
  \/ procfile_read

Spec == Init /\ [][Next]_vars

\* The process goes on between the interrupts.
FairSpec == Spec /\ WF_vars(Continue)

-----------------------------------------------------------------------------
(* Properties.                                                             *)

Registered_Filters(c) ==
  {f \in Nodes : /\ f[1] \in Range(manager_rule_list)
                 /\ f[2] <= NumberOfFilters(f[1])
                 /\ At(f) = c /\ f \notin refused}

\* Higher priority first; among equals, the rule created first.
Before(f, g) ==
  \/ Priority(f) > Priority(g)
  \/ Priority(f) = Priority(g) /\ (f[1] < g[1] \/ (f[1] = g[1] /\ f[2] < g[2]))

Ordered(s) == \A j, k \in DOMAIN s : j < k => Before(s[j], s[k])

\* Between operations on single rules each chain holds exactly the filters of
\* the rules that are listed, less those it had no room for, by priority and
\* then by age, linked the same way forwards and backwards, and len counts them.
ChainsMatchRules ==
  op.pc \in {"idle", "sweep"} =>
    \A c \in Chains :
      LET s == Filters(c)
      IN  /\ Range(s) = Registered_Filters(c) /\ Ordered(s)
          /\ Path(back, last[c]) = Reverse(s) /\ len[c] = Len(s)

\* A packet that comes in the middle of an operation still meets every filter
\* of the other rules, in their order, except in the one moment when a filter
\* goes in at the head of a chain and has no front yet (klist.c:225-226).
BystandersSeen ==
  \A c \in Chains :
    LET w == Walk(c)
    IN  \/ op.pc = "insert_front" /\ first[c] = New
        \/ op.pc \in {"idle", "sweep"}
        \/ /\ {f \in Range(w) : f[1] # op.rule}
                 = {f \in Registered_Filters(c) : f[1] # op.rule}
           /\ \A j, k \in DOMAIN w :
                j < k /\ op.rule \notin {w[j][1], w[k][1]} => Before(w[j], w[k])

\* No hook touches a freed filter; it reads a freed specification only while
\* the other filters of the rule are being unregistered (rule.c:29-33 frees
\* the shared specification after the first of them).
HooksReadLiveMemory ==
  \A f \in Range(examined) :
    /\ f \notin freed
    /\ f[1] \in freed_specs =>
         op.pc \in {"unregister", "uncount", "free"} /\ op.rule = f[1]

\* Once unregister_interceptor has returned, and the module that holds its
\* callback may go, no chain has a filter with that callback.
NoDanglingCallback ==
  \A c \in Chains : \A f \in Range(Walk(c)) : owner[f[1]] \in Range(int_list)

\* proc_entry.c:13-17: a listing that is not dirty is what a rebuild would
\* give, whichever operation came in between.
ListingFresh ==
  op = Idle /\ ~dirty => listing = <<int_list, manager_rule_list>>

\* Every operation returns, unless unregister_interceptor meets a rule of
\* another interceptor.
OperationReturns == op # Idle ~> op = Idle \/ ForeignRule
=============================================================================
