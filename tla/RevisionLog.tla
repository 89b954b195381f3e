---------------------------- MODULE RevisionLog ----------------------------
(***************************************************************************)
(* What the revision history of a memory promises: every change of the     *)
(* text is one entry saying what was replaced by what ("record before/     *)
(* after text"), and a rollback restores what some entry replaced          *)
(* ("restore the revision's previous_text").  So the entries chain from    *)
(* the first text to the current one and no text is ever lost.  The        *)
(* promise is about changes that do not overlap: after two that did, the   *)
(* log says nothing.                                                       *)
(***************************************************************************)
EXTENDS Naturals, Sequences

CONSTANT Text

VARIABLES
    text,
    log,
    apart   \* no two changes have overlapped

vars == <<text, log, apart>>

\* "of" is the entry a rollback undoes, 0 for a correction.
Change(t, i) ==
    /\ apart /\ apart' = TRUE
    /\ t # text
    /\ text' = t
    /\ log' = Append(log, [from |-> text, to |-> t, of |-> i])

Init == text \in Text /\ log = <<>> /\ apart = TRUE

Correct == \E t \in Text : Change(t, 0)

Rollback == \E i \in DOMAIN log : Change(log[i].from, i)

Overlap == text' \in Text /\ log' = <<>> /\ apart' = FALSE

Next == Correct \/ Rollback \/ Overlap

Spec == Init /\ [][Next]_vars
=============================================================================
