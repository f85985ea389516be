---------------------------- MODULE MCSessionStore ----------------------------
(* SessionStore for TLC: the events that callers append.                   *)
EXTENDS SessionStore, TLC

Event(type, to, usage) == [type |-> type, to |-> to, usage |-> usage, at |-> 0]

MCOffered ==
  {Event(type, "Active", NoUsage) : type \in {"UserMessage"}}
    \cup {Event("StatusChanged", to, NoUsage) : to \in {"Idle", "Closed"}}
    \cup {Event("Usage", "Active", [tokens |-> 2, currency |-> c]) : c \in Currency}

\* Two sessions get two changes of status together, and no write fails.
Small ==
  Len(files) = 2 =>
    /\ files[1].size + files[2].size <= 4
    /\ \A f \in FileNo : \A i \in DOMAIN files[f].lines :
         files[f].lines[i] \in Line => files[f].lines[i].event.type = "StatusChanged"
    /\ \A p \in Proc : "event" \in DOMAIN job[p] => job[p].event.type = "StatusChanged"
    /\ fails = 0

Symmetry == Permutations(Proc) \cup Permutations(Id) \cup Permutations(Currency)
=============================================================================
