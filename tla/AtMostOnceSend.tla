--------------------------- MODULE AtMostOnceSend ---------------------------
(***************************************************************************)
(* What cron/delivery_queue.py promises about one message per execution,   *)
(* with no gateways, workers, rows or tombstones in it: a requested        *)
(* message is claimed, sent at most once, and settles on one outcome that  *)
(* never changes.  An outcome is delivered only when the message arrived.  *)
(***************************************************************************)
EXTENDS Naturals

CONSTANT Executions

Terminal == {"delivered", "failed", "unknown"}
Outcomes == {"absent", "pending", "delivering"} \cup Terminal

VARIABLES
  outcome,   \* what is on record for each execution's message
  sends,     \* how often the message was handed to a transport
  arrived    \* whether the recipient got it

vars == <<outcome, sends, arrived>>

Init ==
  /\ outcome = [e \in Executions |-> "absent"]
  /\ sends = [e \in Executions |-> 0]
  /\ arrived = [e \in Executions |-> FALSE]

Request(e) ==
  /\ outcome[e] = "absent"
  /\ outcome' = [outcome EXCEPT ![e] = "pending"]
  /\ UNCHANGED <<sends, arrived>>

Claim(e) ==
  /\ outcome[e] = "pending"
  /\ outcome' = [outcome EXCEPT ![e] = "delivering"]
  /\ UNCHANGED <<sends, arrived>>

\* The one send.  A claim may have been written off while its claimant was
\* still on the way to the transport, so an unknown message can still go out.
Send(e) ==
  /\ outcome[e] \in {"delivering", "unknown"}
  /\ sends[e] = 0
  /\ sends' = [sends EXCEPT ![e] = 1]
  /\ \E got \in BOOLEAN : arrived' = [arrived EXCEPT ![e] = got]
  /\ UNCHANGED outcome

Settle(e, verdict) ==
  /\ outcome[e] = "delivering"
  /\ verdict = "delivered" => arrived[e]
  /\ outcome' = [outcome EXCEPT ![e] = verdict]
  /\ UNCHANGED <<sends, arrived>>

\* Claims whose claimants are gone are written off together.
WriteOff(lost) ==
  /\ \A e \in lost : outcome[e] = "delivering"
  /\ outcome' = [e \in Executions |-> IF e \in lost THEN "unknown" ELSE outcome[e]]
  /\ UNCHANGED <<sends, arrived>>

Next ==
  \/ \E e \in Executions :
       Request(e) \/ Claim(e) \/ Send(e) \/ \E v \in Terminal : Settle(e, v)
  \/ \E lost \in SUBSET Executions : WriteOff(lost)

Spec == Init /\ [][Next]_vars
=============================================================================
