--------------------------- MODULE ReviewContract ---------------------------
(***************************************************************************)
(* What reviewing promises about one candidate memory, whatever tables and *)
(* connections implement it: a proposed candidate waits ("open") or is     *)
(* held back by admission ("blocked"); it becomes a live memory at most    *)
(* once; and a candidate whose memory was retired, or that was refused, is *)
(* closed for good.  "Deleted memory cannot reappear from retained source  *)
(* evidence" is the last clause: no action leaves "closed" but "contended", *)
(* which promises nothing: two operations on this candidate overlapped.    *)
(***************************************************************************)
CONSTANT Candidate

VARIABLE stage

Stages == {"unseen", "open", "blocked", "live", "closed", "contended"}

TypeOK == stage \in [Candidate -> Stages]

Init == stage = [k \in Candidate |-> "unseen"]

\* One recorded event proposes one or more candidates at once.
Propose ==
    \E K \in (SUBSET Candidate) \ {{}} :
      \E first \in [K -> {"open", "blocked", "live"}] :
        /\ \A k \in K : stage[k] = "unseen"
        /\ stage' = [k \in Candidate |-> IF k \in K THEN first[k] ELSE stage[k]]

Accept(k) ==
    /\ stage[k] = "open"
    /\ stage' = [stage EXCEPT ![k] = "live"]

Refuse(k) ==
    /\ stage[k] \in {"open", "blocked"}
    /\ stage' = [stage EXCEPT ![k] = "closed"]

Retire(k) ==
    /\ stage[k] = "live"
    /\ stage' = [stage EXCEPT ![k] = "closed"]

\* Two operations on the candidate overlapped: from here on nothing is promised.
Contend(k) ==
    /\ stage[k] # "contended"
    /\ stage' = [stage EXCEPT ![k] = "contended"]

Next ==
    \/ Propose
    \/ \E k \in Candidate : Accept(k) \/ Refuse(k) \/ Retire(k) \/ Contend(k)

Spec == Init /\ [][Next]_stage
=============================================================================
