--------------------------- MODULE ContractRounds ---------------------------
(***************************************************************************)
(* ContractApproval implements ApprovalRound, whatever requests overlap    *)
(* and whatever POST and PUT write: a contract that strays leaves the      *)
(* chain.  The phase is read off the status; the sign-offs of the round in *)
(* progress are counted in the audit trail, from the last submission on,   *)
(* so the refinement also says that the trail proves what the status       *)
(* claims.                                                                 *)
(***************************************************************************)
EXTENDS ContractHistory

\* What row and status stand for.
StatusPhase(c) ==
  CASE row[c] = "deleted" \/ status[c] \in {"cancelled", "closed"} -> "withdrawn"
    [] row[c] = "live" /\ status[c] \in {"signed", "active"}       -> "binding"
    [] row[c] # "deleted" /\ status[c] = "draft"                    -> "open"
    [] OTHER                                                        -> "review"

RoundPhase(c) == IF c \in strayed THEN "astray" ELSE StatusPhase(c)

\* The heads, in the order of their desks.
Heads == <<"engineering_head", "finance_head", "juridical_head", "manager">>

\* The heads that signed off, in a trail, in the round the last submission opened.
SignedIn(trail) ==
  {k \in DOMAIN Heads :
     \E i \in DOMAIN trail :
       /\ SignsOff(trail[i], Heads[k])
       /\ \A j \in i..Len(trail) : trail[j].to # "pending_engineering"}

\* The length of the longest prefix of Heads that is in S.
Prefix(S) ==
  CHOOSE n \in 0..Len(Heads) : 1..n \subseteq S /\ (n < Len(Heads) => n + 1 \notin S)

SignoffsThisRound(c) ==
  IF RoundPhase(c) \in {"open", "withdrawn", "astray"} THEN 0 ELSE Prefix(SignedIn(approvals[c]))

phases == [c \in Contracts |-> RoundPhase(c)]
counts == [c \in Contracts |-> SignoffsThisRound(c)]

Round == INSTANCE ApprovalRound WITH phase <- phases, signoffs <- counts

\* Every step of the workflow is a step of the abstract sign-off chain: whatever
\* overlaps, a contract that has not strayed is signed only with all four
\* sign-offs of the round in progress in its trail, and a rejection voids the
\* earlier ones.
ImplementsRound == Round!Spec
=============================================================================
