-------------------------------- MODULE Session --------------------------------
(***************************************************************************)
(* Sessions and their events (src/session.rs): what one event changes in   *)
(* the snapshot of a session, and the snapshot of a whole transcript.      *)
(*                                                                         *)
(* An event is kept to what some rule reads of it.  Texts, tool calls and  *)
(* orb ids are left out; an AssistantDelta stands for every event without  *)
(* a time stamp and without effect, an AssistantMessage for every event    *)
(* with a time stamp and without effect.  A usage has one counter, since   *)
(* all of them are added the same way, and the currency of its cost.       *)
(***************************************************************************)
EXTENDS Integers, Sequences

CONSTANTS
  Currency,
  MaxCount     \* where a counter saturates: 2^64 - 1, of turns 2^32 - 1

ASSUME CountAssumption == MaxCount \in Nat

SessionStatus == {"Active", "Idle", "Closed"}

NoCurrency == "none"

SessionUsage == [tokens : 0 .. MaxCount, currency : Currency \cup {NoCurrency}]

NoUsage == [tokens |-> 0, currency |-> NoCurrency]

EventType == {"UserMessage", "AssistantMessage", "AssistantDelta", "Usage", "StatusChanged"}

\* `to` is read of a StatusChanged only, `usage` of a Usage only, `at` of those
\* with a time stamp.
SessionEvent == [type : EventType, to : SessionStatus, usage : SessionUsage, at : Nat]

\* event_timestamp returns a value.
Timed(event) == event.type \notin {"AssistantDelta", "Usage"}

Closes(event) == event.type = "StatusChanged" /\ event.to = "Closed"

-----------------------------------------------------------------------------
(* Adding usages.                                                          *)

\* Mutant: an addition that wraps around.
SaturatingAdd_Wraps(a, b) == (a + b) % (MaxCount + 1)

SaturatingAdd(a, b) == IF a + b > MaxCount THEN MaxCount ELSE a + b

\* Equal currencies stay, a missing one gives way, two different ones cancel out.
MatchingCurrency(a, b) ==
  CASE a = b -> a
    [] b = NoCurrency -> a
    [] a = NoCurrency -> b
    [] OTHER -> NoCurrency

Add(u, v) == [tokens |-> SaturatingAdd(u.tokens, v.tokens),
              currency |-> MatchingCurrency(u.currency, v.currency)]

-----------------------------------------------------------------------------
(* The snapshot.                                                           *)

NotClosed == -1

FromInit == [status |-> "Active", turnCount |-> 0, totalUsage |-> NoUsage,
             closedAt |-> NotClosed]

Apply(session, event) ==
  CASE event.type = "UserMessage" ->
         [session EXCEPT !.turnCount = SaturatingAdd(@, 1)]
    [] event.type = "Usage" ->
         [session EXCEPT !.totalUsage = Add(@, event.usage)]
    [] event.type = "StatusChanged" ->
         [session EXCEPT !.status = event.to,
                         !.closedAt = IF event.to = "Closed" THEN event.at ELSE @]
    [] OTHER -> session

\* All events applied, from the first on.
Snapshot(events) ==
  LET after[n \in 0 .. Len(events)] ==
        IF n = 0 THEN FromInit ELSE Apply(after[n - 1], events[n])
  IN after[Len(events)]
=============================================================================
