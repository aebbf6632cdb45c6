------------------------------ MODULE ApiCalls ------------------------------
(***************************************************************************)
(* The calls the web client makes to the backend.  A call is named by a    *)
(* request identity; its handler runs in one or several database steps,    *)
(* and the answer waits until the client takes it.  A client that has      *)
(* given up (a network error, a closed tab) never takes it: the handler    *)
(* is not stopped by that.                                                 *)
(***************************************************************************)
EXTENDS Naturals, FiniteSets

CONSTANTS
  Contracts,   \* primary keys a contract row may have
  Requests     \* identities of the calls that can be open at once

ASSUME RequestsFinite == IsFiniteSet(Requests) /\ Requests # {}

VARIABLE answer     \* answer[r]: how far the call r is

AnswerState == {"free", "busy", "ok", "refused"}

AnswersTypeOK == answer \in [Requests -> AnswerState]

AnswersInit == answer = [r \in Requests |-> "free"]

\* The response: 2xx, or a problem document or a connection broken off.
Answered(r, result) == answer' = [answer EXCEPT ![r] = result]

\* The client reads the response, or has gone away and it is discarded.
Take(r) ==
  /\ answer[r] \in {"ok", "refused"}
  /\ Answered(r, "free")

\* Identities are interchangeable, so one that is unused stands for any.
Fresh(S) == CHOOSE x \in S : TRUE
=============================================================================
