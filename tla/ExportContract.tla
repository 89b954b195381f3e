--------------------------- MODULE ExportContract ---------------------------
(***************************************************************************)
(* What export control promises, whatever tables and connections implement *)
(* it.  A permit is asked for, decided once, and spent once, on one entry  *)
(* of the export ledger ("one-time approval").  A ledger entry is active,  *)
(* then expired, then purged, and never goes back.  Nothing is promised of *)
(* a permit or an entry on which two operations overlapped ("contended").  *)
(***************************************************************************)
CONSTANTS Approval, Export

VARIABLES permit, entry

PermitStages == {"none", "asked", "moot", "granted", "refused", "spent", "recorded", "contended"}
EntryStages == {"none", "active", "expired", "purged", "contended"}

TypeOK ==
    /\ permit \in [Approval -> PermitStages]
    /\ entry \in [Export -> EntryStages]

Init ==
    /\ permit = [a \in Approval |-> "none"]
    /\ entry = [x \in Export |-> "none"]

Move(a, from, to) ==
    /\ permit[a] \in from
    /\ permit' = [permit EXCEPT ![a] = to]
    /\ UNCHANGED entry

\* A request is moot when what it asks for needs no approval.
Ask(a) == Move(a, {"none"}, "asked") \/ Move(a, {"none"}, "moot")

Decide(a) == Move(a, {"asked"}, "granted") \/ Move(a, {"asked"}, "refused")

Spend(a) == Move(a, {"granted"}, "spent")

Contend(a) == Move(a, PermitStages, "contended")

\* A ledger entry for an export that needed no permit, or had one: a permit that is
\* spent backs one entry.
Enter(x) ==
    /\ entry[x] = "none"
    /\ entry' = [entry EXCEPT ![x] = "active"]
    /\ \/ UNCHANGED permit
       \/ \E a \in Approval :
            /\ permit[a] = "spent"
            /\ permit' = [permit EXCEPT ![a] = "recorded"]

\* Retention moves several entries at once, only onwards.
Onwards(s, t) ==
    \/ s = t
    \/ s = "active" /\ t \in {"expired", "purged"}
    \/ s = "expired" /\ t = "purged"
    \/ s # "none" /\ t = "contended"

Retain ==
    /\ entry' \in [Export -> EntryStages]
    /\ \A x \in Export : Onwards(entry[x], entry'[x])
    /\ UNCHANGED permit

Next ==
    \/ \E a \in Approval : Ask(a) \/ Decide(a) \/ Spend(a) \/ Contend(a)
    \/ \E x \in Export : Enter(x)
    \/ Retain

Spec == Init /\ [][Next]_<<permit, entry>>
=============================================================================
