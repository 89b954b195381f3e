-------------------------------- MODULE Router --------------------------------
(***************************************************************************)
(* The memory envelope put before a model call (before_model_call,         *)
(* retrieve_tree, context_builder_pack, the read policies and the current  *)
(* best of memories in conflict, in store.py).                             *)
(*                                                                         *)
(* A call is one SELECT after another with no transaction around them;     *)
(* reviewers retire memories, record conflicts and set policies in         *)
(* between.  Which memories match the query is left open, and so are the   *)
(* scores: whether one of some near-duplicates is far enough ahead.        *)
(***************************************************************************)
EXTENDS Naturals, Sequences, FiniteSets

CONSTANTS
    Mem,            \* memories of one scope
    NoMem,
    Rule,           \* those that are rules and so are also listed as saved rules
    Summarised,     \* those the thread summary was made of
    Alike,          \* pairs whose texts overlap strongly
    Limit,          \* memories a retrieval selects at most
    Marks,          \* conflicts of a memory that are looked at (5)
    MaxDecided      \* bound of an instance: memory_conflicts

Couple == {p \in SUBSET Mem : Cardinality(p) = 2}

ASSUME RouterAssumption ==
    /\ IsFiniteSet(Mem) /\ NoMem \notin Mem
    /\ Rule \cup Summarised \subseteq Mem
    /\ Alike \subseteq Couple
    /\ Limit \in Nat \ {0} /\ Marks \in Nat \ {0}
    /\ MaxDecided \in Nat

VARIABLES
    state,      \* memories.status; "new" ones are not there yet
    decided,    \* memory_conflicts in the order of updated_at
    policy,     \* memory_read_policies that match the agent and the scope, by action
    newer,      \* the one of two such policies that was set last
    asked       \* the call, with what has happened during it

routerVars == <<state, decided, policy, newer, asked>>

\* "inject", "read" and "all" name the agent and the scope, "wild" is for everyone.
PolicyKey == {"inject", "read", "all", "wild"}

Silence == [pc |-> "idle", pass |-> 1, found |-> {}, best |-> {}, first |-> {}, tree |-> {},
            compact |-> {}, rest |-> {}, answer |-> {}, seen |-> {}, quiet |-> TRUE, refused |-> TRUE]

RouterTypeOK ==
    /\ state \in [Mem -> {"new", "active", "inactive"}]
    /\ decided \in Seq([of : Couple, winner : Mem \cup {NoMem}])
    /\ policy \in [PolicyKey -> {"unset", "allow", "deny"}]
    /\ newer \in {"read", "all"}
    /\ asked.pc \in {"idle", "check", "seeds", "rows", "rules", "search", "summary",
                     "sources", "answer", "answered", "failed"}
    /\ asked.pass \in 1 .. 3
    /\ asked.found \cup asked.best \cup asked.first \cup asked.tree \cup asked.compact \subseteq Mem
    /\ asked.rest \cup asked.answer \cup asked.seen \subseteq Mem
    /\ asked.quiet \in BOOLEAN /\ asked.refused \in BOOLEAN

RouterInit ==
    /\ state \in [Mem -> {"new", "active", "inactive"}]
    /\ decided = <<>>
    /\ policy = [k \in PolicyKey |-> "unset"]
    /\ newer = "read"
    /\ asked = Silence

----------------------------------------------------------------------------
alive == {m \in Mem : state[m] = "active"}

(* Read policies. *)

\* _resolve_read_policy: the most specific row decides, of two equal ones the newer; a rule
\* for "read" counts for an injection, too.
Matching(action) == {k \in PolicyKey : policy[k] # "unset" /\ (k = "inject" => action = "inject")}

Decisive(action) ==
    LET ms == Matching(action) IN
    IF action \in ms THEN action
    ELSE IF {"read", "all"} \subseteq ms THEN newer
    ELSE CHOOSE k \in ms : k = "wild" => ms = {"wild"}

Denies(action) == Matching(action) # {} /\ policy[Decisive(action)] = "deny"

----------------------------------------------------------------------------
(* The current best. *)

\* Mutant: the winner need not be active.
Outranks_Inactive(row, s) ==
    \E l \in row.of \cap s : row.winner \notin {NoMem, l}

\* A resolved conflict puts its winner in the loser's place, if the winner is active.
Outranks(row, s) ==
    /\ row.winner \in alive
    /\ \E l \in row.of \cap s : row.winner # l

\* The rows that name one of s are selected at once and taken from the newest to the oldest;
\* one that names only a winner put in meanwhile is not among them.
Explicit(s) ==
    LET n == Len(decided)
        after[i \in 0 .. n] ==
          IF i = 0 THEN s
          ELSE LET row == decided[n + 1 - i] IN
               IF row.of \cap s # {} /\ Outranks(row, after[i - 1])
               THEN (after[i - 1] \ row.of) \cup {row.winner} ELSE after[i - 1]
    IN after[n]

\* Near-duplicates of each other, directly or through others; pairs of which a conflict is
\* recorded are not compared.
Near(m, n) == {m, n} \in Alike \ {decided[i].of : i \in DOMAIN decided}

Groups(s) ==
    {g \in SUBSET s :
       /\ Cardinality(g) > 1
       /\ \A m \in g, n \in s \ g : ~Near(m, n)
       /\ \A part \in (SUBSET g) \ {{}, g} : \E m \in part, n \in g \ part : Near(m, n)}

\* _memory_conflict_status: the newest conflicts of a memory, as many as are looked at; one
\* that is open counts only among these.
Naming(m) == {i \in DOMAIN decided : m \in decided[i].of}
Newest(m) == {i \in Naming(m) : Cardinality({j \in Naming(m) : j > i}) < Marks}
InDispute(m) == \E i \in Newest(m) : decided[i].winner = NoMem

Contested(g) == \E m \in g : InDispute(m)

\* Of a group without an open conflict one memory stays if its score is far enough ahead.
Best(s, b) ==
    LET groups == Groups(s \cap alive) IN
    /\ b \subseteq s
    /\ s \ UNION groups \subseteq b
    /\ \A g \in groups : g \subseteq b \/ (~Contested(g) /\ Cardinality(g \cap b) = 1)

----------------------------------------------------------------------------
(* The call. *)
Now(pc) == [asked EXCEPT !.pc = pc]
Underway == asked.pc \notin {"idle", "answered", "failed"}

Moves(a) ==
    /\ asked' = a
    /\ UNCHANGED <<state, decided, policy, newer>>

\* Only the answer and what is needed to judge it is kept.
Delivers(pc, text) ==
    Moves([Silence EXCEPT !.pc = pc, !.answer = text, !.found = asked.first, !.tree = asked.tree,
                          !.compact = asked.compact, !.seen = asked.seen, !.quiet = asked.quiet,
                          !.refused = asked.refused])

\* before_model_call resolves the policy once; a denial is audited and answered with the
\* router_run, in one transaction, and nothing is read.
Call ==
    /\ ~Underway
    /\ LET a == [Silence EXCEPT !.seen = alive, !.refused = Denies("inject")] IN
       IF Denies("inject") THEN Moves([a EXCEPT !.pc = "answered"])
       ELSE Moves([a EXCEPT !.pc = "check"])

\* Any exception on the way to the envelope is answered without memory.
CallFails ==
    /\ Underway
    /\ Delivers("failed", {})

\* The process dies, or the router_run cannot be written and the exception is raised.
CallDies ==
    /\ Underway
    /\ Moves(Silence)

\* retrieve_tree resolves the policy again, in each of three retrievals: for the envelope,
\* for the context pack, and for the supplement of the context pack, which is cut off again.
CheckPolicy ==
    /\ asked.pc = "check"
    /\ IF Denies("inject") THEN Delivers("failed", {})
       ELSE Moves(Now(IF asked.pass = 3 THEN "answer" ELSE "seeds"))

\* Text, node, graph and semantic hits, each kind a SELECT of its own.
Hit(m) ==
    /\ asked.pc = "seeds"
    /\ m \in alive \ asked.found
    /\ Moves([asked EXCEPT !.found = @ \cup {m}])

\* The neighbours of what has been found, whatever they match.
Neighbour(m) == asked.found # {} /\ Hit(m)

\* The best of them, as many as there may be.
Resolve(best, chosen) ==
    /\ asked.pc = "seeds"
    /\ Best(Explicit(asked.found), best)
    /\ Cardinality(chosen) = Limit \/ (chosen = best /\ Cardinality(best) < Limit)
    /\ Moves([Now("rows") EXCEPT !.best = chosen,
                                 !.first = IF asked.pass = 1 THEN asked.found ELSE @])

\* The rows of the selected memories that are still active, with their conflict marks, nodes
\* and evidence; if nothing is left the context pack searches again.
Rows ==
    LET rows == asked.best \cap alive IN
    /\ asked.pc = "rows"
    /\ Moves(IF asked.pass = 1 THEN [Now("rules") EXCEPT !.tree = rows, !.found = {}, !.best = {}]
             ELSE [Now(IF rows = {} THEN "search" ELSE "summary") EXCEPT
                     !.compact = rows, !.found = {}, !.best = {}])

\* The saved rules of the scope, whatever was suppressed.
SavedRules ==
    /\ asked.pc = "rules"
    /\ Moves([Now("check") EXCEPT !.rest = Rule \cap alive, !.pass = 2])

SearchAgain(found) ==
    /\ asked.pc = "search"
    /\ found \subseteq alive
    /\ IF Denies("read") THEN Delivers("failed", {})
       ELSE Moves([Now("summary") EXCEPT !.compact = found])

\* The summary's row, then the state of the memories it was made of.
ReadSummary ==
    /\ asked.pc = "summary"
    /\ Moves(Now("sources"))

CheckSources ==
    /\ asked.pc = "sources"
    /\ Moves([Now("check") EXCEPT
                !.pass = 3,
                !.rest = @ \cup IF Summarised \subseteq alive THEN Summarised ELSE {}])

Answer ==
    /\ asked.pc = "answer"
    /\ Delivers("answered", asked.tree \cup asked.compact \cup asked.rest)

CallStep ==
    \/ Call \/ CallFails \/ CallDies \/ CheckPolicy
    \/ \E m \in Mem : Hit(m) \/ Neighbour(m)
    \/ \E found \in SUBSET Mem : SearchAgain(found)
    \/ \E best \in SUBSET Mem : \E chosen \in SUBSET best : Resolve(best, chosen)
    \/ Rows \/ SavedRules \/ ReadSummary \/ CheckSources \/ Answer

----------------------------------------------------------------------------
(* What is committed in between. *)
Disturbs == IF Underway THEN [asked EXCEPT !.quiet = FALSE] ELSE Silence

\* A memory is approved, or an active one retired for good.
Become(m, new) ==
    /\ state[m] = IF new = "active" THEN "new" ELSE "active"
    /\ state' = [state EXCEPT ![m] = new]
    /\ asked' = [Disturbs EXCEPT !.seen = IF Underway /\ new = "active" THEN @ \cup {m} ELSE @]
    /\ UNCHANGED <<decided, policy, newer>>

\* record_memory_conflict; a winner resolves it at once.
Decide(p, winner) ==
    /\ Len(decided) < MaxDecided
    /\ \A m \in p : state[m] # "new"
    /\ decided' = Append(decided, [of |-> p, winner |-> winner])
    /\ asked' = Disturbs
    /\ UNCHANGED <<state, policy, newer>>

Reconsiders == [Disturbs EXCEPT !.refused = IF Underway THEN @ /\ Denies("inject")' ELSE @]

\* set_read_policy; of two set in the same second either may count as the newer.
SetPolicy(k, decision) ==
    /\ policy' = [policy EXCEPT ![k] = decision]
    /\ \/ newer' = newer
       \/ k \in {"read", "all"} /\ newer' = k
    /\ asked' = Reconsiders
    /\ UNCHANGED <<state, decided>>

\* An import overwrites local decisions with its own and their dates, older ones too.
ImportPolicies(rows, last) ==
    /\ \E k \in PolicyKey : rows[k] # "unset"
    /\ policy' = [k \in PolicyKey |-> IF rows[k] = "unset" THEN policy[k] ELSE rows[k]]
    /\ newer' = last
    /\ asked' = Reconsiders
    /\ UNCHANGED <<state, decided>>

PolicyStep ==
    \/ \E k \in PolicyKey, decision \in {"allow", "deny"} : SetPolicy(k, decision)
    \/ \E rows \in [PolicyKey -> {"unset", "allow", "deny"}], last \in {"read", "all"} :
         ImportPolicies(rows, last)

Others ==
    \/ \E m \in Mem, new \in {"active", "inactive"} : Become(m, new)
    \/ \E p \in Couple : \E winner \in p \cup {NoMem} : Decide(p, winner)
    \/ PolicyStep

RouterNext == CallStep \/ Others

RouterSpec == RouterInit /\ [][RouterNext]_routerVars

----------------------------------------------------------------------------
(* Properties. *)

Loses(m) == \E i \in DOMAIN decided : m \in decided[i].of /\ decided[i].winner \in alive \ {m}

\* An answer shows memories that were active at some time during the call, and none if the
\* call failed or the policy denied it throughout.  Unless something was committed during
\* the call, its tree is empty only if nothing was found, and leaves out only losers of
\* resolved conflicts whose winner is active and near-duplicates of another active memory,
\* or what is more than the limit; a memory with an open conflict among its newest ones is
\* left out only if it has lost another one or there are too many.  An open conflict behind
\* these protects nothing, other than docs/memory-lifecycle-contract.md:197-199 says ("keeping
\* open conflicts and outcome groups visible for review").
RouterAnswers ==
    /\ asked.answer \subseteq asked.seen
    /\ asked.pc = "failed" \/ (asked.pc = "answered" /\ asked.refused) => asked.answer = {}
    /\ asked.pc = "answered" /\ asked.quiet =>
         /\ asked.tree \subseteq alive
         /\ asked.tree = {} <=> asked.found = {}
         /\ Cardinality(asked.tree) <= Limit
         /\ Cardinality(asked.tree) < Limit =>
              /\ \A m \in asked.found \ asked.tree :
                   Loses(m) \/ \E p \in Alike : m \in p /\ p \subseteq alive
              /\ \A m \in asked.found : InDispute(m) => m \in asked.tree \/ Loses(m)

\* docs/runtime-contract.md:324: "when an explicit resolved conflict has a winner, select the
\* winner and report the loser as suppressed"; docs/hermes-integration.md:808: "suppresses
\* the loser even when the query matches the stale loser text".
LosersAreSuppressed ==
    asked.pc = "answered" /\ asked.quiet =>
      \A i \in DOMAIN decided :
        LET w == decided[i].winner IN
        w \in alive /\ ~Loses(w)
          => asked.tree \cap decided[i].of \subseteq {w}
=============================================================================
