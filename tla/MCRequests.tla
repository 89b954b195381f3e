------------------------------ MODULE MCRequests ------------------------------
(***************************************************************************)
(* Instances of LifecycleBatch, ProfileTransfer, Intake and Router for     *)
(* TLC.  The four share no state, and a behaviour is one part's.  What a   *)
(* part leaves out is said at it.                                          *)
(***************************************************************************)
EXTENDS LifecycleBatch, ProfileTransfer, Intake, Router, TLC

CONSTANTS
    Parts,      \* the parts of a run
    Traded      \* a proposal that both stores may have a memory of

VARIABLE part

allParts == <<batchVars, transferVars, intakeVars, routerVars>>

Init ==
    /\ BatchInit
    /\ TransferInit
    /\ IntakeInit
    /\ RouterInit
    /\ part \in Parts
    /\ part = "policies" => \A m \in Summarised : state[m] = "inactive"
    /\ part \notin {"best", "policies"} => \A m \in Mem : state[m] = "new"

----------------------------------------------------------------------------
\* Up to two items in the batches in progress, if both connections have one, and one memory
\* that none of them names.  A batch of one item has nothing to stop at.
BatchPart ==
    /\ \E c \in Caller : BatchStep(c) \/ Die(c)
    /\ \A c \in Caller : batch[c] = NotBusy /\ Len(batch'[c].ops) = 1 => ~batch'[c].stop
    /\ \A c, d \in Caller : c # d => Len(batch'[c].ops) + Len(batch'[d].ops) <= 2
    /\ \E m \in Memory : \A c \in Caller :
         /\ \A i \in DOMAIN batch'[c].ops : batch'[c].ops[i].item # m
         /\ \A op \in told' \cup leaked' : op.item # m

ConflictPart == \E c \in Caller : ConflictStep(c) \/ Die(c)

----------------------------------------------------------------------------
\* A review at the site a file is read at comes before or between the reads; one at the
\* other site, and one after the last read, comes before the import.  Any other order of the
\* same steps ends in the same states.
TransferStep ==
    \/ file.at = "none" /\ \E s \in Site : ReviewStep(s) \/ ExportMemories(s)
    \/ part = "torn" /\ file.at \notin {"none", "written"} /\ ReviewStep(file.from)
    \/ ExportStep
    \/ file.at = "written" /\ (ReviewStep(Other(file.from)) \/ AlterFile \/ Discard \/ Import)

\* Exports that reviews come between, of one proposal.
TornPart ==
    /\ TransferStep
    /\ \A k \in Poison \cup {Traded} : cand'["here"][k] = "none"
    /\ \A s \in Site : foul'[s] = {}

\* Exports that nothing comes between, of three proposals, of which one may be retired where
\* it was made; the file comes as it was written.
WholePart ==
    /\ TransferStep
    /\ file'.from = "here" /\ file'.sound
    /\ \A k \in Proposal \ {Traded} : mem'["here"][<<k, "here">>] # "inactive"
    /\ \A k \in Proposal :
         /\ cand'["here"][k] = "rejected" => k \in Poison
         /\ cand'["there"][k] = "rejected" => k = Traded
    /\ \A k \in Proposal : mem'["here"][<<k, "there">>] = "none"
    /\ mem'["there"][<<Traded, "there">>] = "none"
    /\ foul'["there"] = {}
    /\ foul'["here"] \subseteq {<<Traded, "here">>}

----------------------------------------------------------------------------
\* Outcomes beside proposals; turns beside outcomes; files and vaults.
Jobs ==
    CASE part = "outcomes" -> {"outcome", "proposal"}
      [] part = "turns" -> {"turn", "outcome"}
      [] part = "files" -> Loops

IntakePart ==
    /\ IntakeNext
    /\ \A c \in Client : request'[c].pc # "idle" => request'[c].job \in Jobs
    /\ \A k \in DOMAIN proposed' :
         LET p == proposed'[k] IN
         /\ p.mem = "none" \/ p.job = "outcome"
         /\ part = "files" /\ p.job = "vault" => p.at = 1

----------------------------------------------------------------------------
\* Conflicts are recorded before the call, memories come and go during it if there are not
\* two of them; the context pack finds all there is or nothing.
BestPart ==
    /\ asked.pc \notin {"answered", "failed"}
    /\ \/ /\ CallStep
          /\ asked.pass > 1 /\ asked'.pc = "rows" => asked.found \in {{}, alive}
          /\ asked.pc = "search" => asked'.compact \in {{}, alive}
       \/ asked # Silence /\ Len(decided) < MaxDecided /\ \E m \in Mem, new \in {"active", "inactive"} : Become(m, new)
       \/ asked = Silence /\ \E p \in Couple : \E winner \in p \cup {NoMem} : Decide(p, winner)

\* Policies change at any time, imported ones are of equal rank; a search finds all there
\* is or nothing.
PolicyPart ==
    /\ \/ CallStep
       \/ \E k \in PolicyKey, decision \in {"allow", "deny"} : SetPolicy(k, decision)
       \/ \E read, all \in {"allow", "deny"}, last \in {"read", "all"} :
            ImportPolicies([inject |-> "unset", read |-> read, all |-> all, wild |-> "unset"], last)
    /\ {asked'.found, asked'.best, asked'.compact} \subseteq {{}, alive}

----------------------------------------------------------------------------
Next ==
    /\ \/ /\ \/ part = "batches" /\ BatchPart
             \/ part = "conflicts" /\ ConflictPart
          /\ UNCHANGED <<transferVars, intakeVars, routerVars>>
       \/ /\ \/ part = "whole" /\ WholePart
             \/ part = "torn" /\ TornPart
          /\ UNCHANGED <<batchVars, intakeVars, routerVars>>
       \/ /\ part \in {"outcomes", "turns", "files"} /\ IntakePart
          /\ UNCHANGED <<batchVars, transferVars, routerVars>>
       \/ /\ \/ part = "best" /\ BestPart
             \/ part = "policies" /\ PolicyPart
          /\ UNCHANGED <<batchVars, transferVars, intakeVars>>
    /\ UNCHANGED part

Spec == Init /\ [][Next]_<<allParts, part>>

TypeOK == BatchTypeOK /\ TransferTypeOK /\ IntakeTypeOK /\ RouterTypeOK

Symmetry == Permutations(Memory) \cup Permutations(Caller)
=============================================================================
