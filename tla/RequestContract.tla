--------------------------- MODULE RequestContract ---------------------------
(***************************************************************************)
(* What the requests component promises, without statuses, priorities or    *)
(* time: a request waits in the triage queue, is worked on by exactly one    *)
(* holder, is resolved, closed, and may come back to the queue a bounded     *)
(* number of times; a cancelled request never moves again.  Waiting for the  *)
(* client is not a phase: it suspends the phase the request is in.           *)
(***************************************************************************)
EXTENDS Integers

CONSTANTS Requests,    \* request identifiers
          Holders,     \* those who may work on a request
          MaxReopens,
          Nobody       \* no holder

VARIABLES phase, holder, reopens

contractVars == <<phase, holder, reopens>>

Phase == {"absent", "queue", "work", "resolved", "closed", "cancelled"}

ContractTypeOK ==
    /\ phase \in [Requests -> Phase]
    /\ holder \in [Requests -> Holders \cup {Nobody}]
    /\ reopens \in [Requests -> 0..MaxReopens]

Init ==
    /\ phase = [r \in Requests |-> "absent"]
    /\ holder = [r \in Requests |-> Nobody]
    /\ reopens = [r \in Requests |-> 0]

Move(r, from, to) == phase[r] = from /\ phase' = [phase EXCEPT ![r] = to]

Submit(r) == Move(r, "absent", "queue") /\ UNCHANGED <<holder, reopens>>

(* A default holder takes the request as it is submitted.                   *)
SubmitTo(r, h) ==
    /\ Move(r, "absent", "work")
    /\ holder' = [holder EXCEPT ![r] = h]
    /\ UNCHANGED reopens

Take(r, h) ==
    /\ Move(r, "queue", "work")
    /\ holder' = [holder EXCEPT ![r] = h]
    /\ UNCHANGED reopens

Release(r) ==
    /\ Move(r, "work", "queue")
    /\ holder' = [holder EXCEPT ![r] = Nobody]
    /\ UNCHANGED reopens

Cancel(r)  == Move(r, "queue", "cancelled") /\ UNCHANGED <<holder, reopens>>
Resolve(r) == Move(r, "work", "resolved") /\ UNCHANGED <<holder, reopens>>
Refuse(r)  == Move(r, "resolved", "work") /\ UNCHANGED <<holder, reopens>>
Close(r)   == Move(r, "resolved", "closed") /\ UNCHANGED <<holder, reopens>>

Reopen(r) ==
    /\ Move(r, "closed", "queue")
    /\ reopens[r] < MaxReopens
    /\ reopens' = [reopens EXCEPT ![r] = @ + 1]
    /\ holder' = [holder EXCEPT ![r] = Nobody]

Next ==
    \E r \in Requests :
        \/ Submit(r)
        \/ \E h \in Holders : SubmitTo(r, h) \/ Take(r, h)
        \/ Release(r)
        \/ Cancel(r)
        \/ Resolve(r)
        \/ Refuse(r)
        \/ Close(r)
        \/ Reopen(r)

Spec == Init /\ [][Next]_contractVars

(* A request has a holder exactly from the moment it is taken until it goes *)
(* back to the queue.                                                      *)
HeldExactlyInWork ==
    \A r \in Requests : holder[r] # Nobody <=> phase[r] \in {"work", "resolved", "closed"}
=============================================================================
