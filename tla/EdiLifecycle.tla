----------------------------- MODULE EdiLifecycle -----------------------------
(***************************************************************************)
(* What the exchange promises about one business document, whatever the    *)
(* number of transmissions, racing re-drives and crashes behind it: the    *)
(* life of the document as the partner and a consumer of the outbox see    *)
(* it.  A document is received, settled by an acceptance or a rejection,   *)
(* possibly re-opened after a rejection, and closed by one functional      *)
(* acknowledgement whose polarity is that of the last settlement.  Every   *)
(* settlement leaves exactly one event in the document's log.              *)
(***************************************************************************)
EXTENDS Sequences

CONSTANTS
  Documents,  \* business documents
  Mappings,   \* the events that report an acceptance
  Failures    \* the events that report a rejection

VARIABLES
  state,    \* absent, open, accepted, rejected or closed
  log,      \* the document's events, oldest first
  verdict   \* the polarity of its acknowledgement

lifecycle == <<state, log, verdict>>

LifecycleTypeOK ==
  /\ state \in [Documents -> {"absent", "open", "accepted", "rejected", "closed"}]
  /\ log \in [Documents -> Seq(Mappings \cup Failures)]
  /\ verdict \in [Documents -> {"none", "positive", "negative"}]

LifecycleInit ==
  /\ state = [k \in Documents |-> "absent"]
  /\ log = [k \in Documents |-> <<>>]
  /\ verdict = [k \in Documents |-> "none"]

Become(k, s) == state' = [state EXCEPT ![k] = s]

Receive(k) ==
  /\ state[k] = "absent"
  /\ Become(k, "open")
  /\ UNCHANGED <<log, verdict>>

\* A late acceptance overrules a rejection that is not yet acknowledged.
Accept(k) ==
  /\ state[k] \in {"open", "rejected"}
  /\ Become(k, "accepted")
  /\ \E e \in Mappings : log' = [log EXCEPT ![k] = Append(@, e)]
  /\ UNCHANGED verdict

Reject(k) ==
  /\ state[k] = "open"
  /\ Become(k, "rejected")
  /\ \E e \in Failures : log' = [log EXCEPT ![k] = Append(@, e)]
  /\ UNCHANGED verdict

Reopen(k) ==
  /\ state[k] = "rejected"
  /\ Become(k, "open")
  /\ UNCHANGED <<log, verdict>>

Close(k) ==
  /\ state[k] \in {"accepted", "rejected"}
  /\ Become(k, "closed")
  /\ verdict' = [verdict EXCEPT ![k] =
                   IF state[k] = "accepted" THEN "positive" ELSE "negative"]
  /\ UNCHANGED log

LifecycleNext ==
  \E k \in Documents :
    Receive(k) \/ Accept(k) \/ Reject(k) \/ Reopen(k) \/ Close(k)

LifecycleSpec == LifecycleInit /\ [][LifecycleNext]_lifecycle

===============================================================================
