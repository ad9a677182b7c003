---------------------------- MODULE WatchStream ----------------------------
(***************************************************************************)
(* One client of RuntimeWatchServer's event stream                         *)
(* (lib/runtime/watch-server.mjs): the server polls the newest maxEvents   *)
(* rows of a workflow and writes those after its cursor; the connection    *)
(* may break with events under way, and the client comes back with the id  *)
(* of the last one it got. Rows of events carry no sequence number, so the *)
(* cursor is an event id, found in the window or not.                      *)
(* (SkipsOne is a faulty form, used by no action.)                         *)
(***************************************************************************)
EXTENDS Naturals, Sequences, SequencesExt

CONSTANTS
  MaxEvents,       \* maxEvents: what one query returns
  MaxLogged, MaxBreaks

ASSUME WatchAssumption == MaxEvents \in Nat \ {0} /\ MaxLogged \in Nat

VARIABLES
  logged,          \* events of the workflow: 1..logged in order of sequence
  connected,
  cursor,          \* the server's cursor for this connection; 0 is ''
  wire,            \* written, not yet received
  received,        \* all the client got, over all its connections
  burst,           \* events after the cursor that a poll's window did not reach,
                   \* whatever AfterCursor made of the window
  breaks

watchVars == <<logged, connected, cursor, wire, received, burst, breaks>>

WatchTypeOK ==
  /\ logged \in 0..MaxLogged /\ cursor \in 0..logged
  /\ wire \in Seq(1..logged) /\ received \in Seq(1..logged)
  /\ burst \subseteq 1..logged
  /\ connected \/ wire = <<>>

WatchInit ==
  /\ logged = 0 /\ connected = FALSE /\ cursor = 0
  /\ wire = <<>> /\ received = <<>> /\ burst = {} /\ breaks = 0

-----------------------------------------------------------------------------
LogEvent ==
  /\ logged < MaxLogged
  /\ logged' = logged + 1
  /\ UNCHANGED <<connected, cursor, wire, received, burst, breaks>>

\* listEvents: ORDER BY sequence DESC LIMIT, reversed.
WindowStart == IF logged > MaxEvents THEN logged - MaxEvents + 1 ELSE 1
Window == [i \in 1..(logged + 1 - WindowStart) |-> WindowStart + i - 1]

SkipsOne(events) ==
  IF Contains(events, cursor)
  THEN SubSeq(events, SelectInSeq(events, LAMBDA e : e = cursor) + 2, Len(events)) ELSE events

AfterCursor(events) ==
  IF Contains(events, cursor)
  THEN SubSeq(events, SelectInSeq(events, LAMBDA e : e = cursor) + 1, Len(events)) ELSE events

\* No poll overlaps another one (polling).
Poll ==
  /\ connected
  /\ LET events == AfterCursor(Window)
     IN /\ events # <<>>
        /\ wire' = wire \o events
        /\ cursor' = Last(events)
        /\ burst' = burst \cup {e \in 1..logged : cursor < e /\ e < WindowStart}
  /\ UNCHANGED <<logged, connected, received, breaks>>

Receive ==
  /\ wire # <<>>
  /\ received' = Append(received, Head(wire))
  /\ wire' = Tail(wire)
  /\ UNCHANGED <<logged, connected, cursor, burst, breaks>>

Break ==
  /\ connected /\ breaks < MaxBreaks
  /\ breaks' = breaks + 1
  /\ connected' = FALSE /\ wire' = <<>>
  /\ UNCHANGED <<logged, cursor, received, burst>>

LastEventId == IF received = <<>> THEN 0 ELSE Last(received)

Connect ==
  /\ ~connected
  /\ connected' = TRUE
  /\ cursor' = LastEventId
  /\ UNCHANGED <<logged, wire, received, burst, breaks>>

WatchNext == Poll \/ Receive \/ Connect \/ LogEvent \/ Break

WatchSpec == WatchInit /\ [][WatchNext]_watchVars

-----------------------------------------------------------------------------
(* However often the connection breaks, the client gets events in order and  *)
(* none twice.                                                               *)
ResumesInOrder ==
  \A i, j \in 1..Len(received) : i < j => received[i] < received[j]

(* It misses an event only when more than maxEvents arrived since the last   *)
(* one it had: then the window no longer reached it. The stream does not     *)
(* notice, and writes what is left.                                          *)
GapOnlyOnBurst ==
  received # <<>> => \A e \in 1..Last(received) : Contains(received, e) \/ e \in burst

(* What a client may rely on, both of the above: order without repetition,    *)
(* and no gap but after a burst.                                              *)
StreamFaithful == ResumesInOrder /\ GapOnlyOnBurst
=============================================================================
