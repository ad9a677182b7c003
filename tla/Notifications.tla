--------------------------- MODULE Notifications ---------------------------
(***************************************************************************)
(* NotificationDispatcher (lib/runtime/notifier.mjs) as RuntimeHost drives *)
(* it: every open Attention is put in notification_deliveries for every    *)
(* transport, then the oldest PENDING rows are sent and marked. Several    *)
(* hosts do so at once, and a host may die between send and mark.          *)
(* (AnyNote, OneFewer and MarkedFirst: faulty forms, used by no action.)   *)
(***************************************************************************)
EXTENDS Naturals, FiniteSets

CONSTANTS
  Senders,         \* the hosts, each with its dispatcher
  NAttentions,     \* 1, 2, ... in the order they are created
  NTransports,     \* 1, 2, ... in the order of their configuration
  Broken,          \* transports that never accept anything
  DrainLimit,      \* limit of one drain
  MaxDrainFaults,
  Absent

ASSUME NotifyAssumption ==
  /\ IsFiniteSet(Senders)
  /\ NAttentions \in Nat /\ NTransports \in Nat
  /\ Absent \notin [status : {"PENDING", "DELIVERED"}, created : Nat]

VARIABLES
  attention,       \* "none", "open" or "closed"
  delivery,        \* notification_deliveries, by attention and transport
  sent,            \* times a transport has accepted it
  draining,        \* each host's dispatcher
  resends,         \* hosts that died between send and mark
  rows, drainFaults

notifyVars == <<attention, delivery, sent, draining, resends, rows, drainFaults>>

Attentions == 1..NAttentions
Transports == 1..NTransports
Notes == Attentions \X Transports
NotDraining == [step |-> "idle", list |-> {}]

NotifyTypeOK ==
  /\ attention \in [Attentions -> {"none", "open", "closed"}]
  /\ \A n \in Notes :
       delivery[n] = Absent
         \/ delivery[n] \in [status : {"PENDING", "DELIVERED"}, created : 1..Cardinality(Notes)]
  /\ \A m, n \in Notes :
       (m # n /\ delivery[m] # Absent /\ delivery[n] # Absent)
         => delivery[m].created # delivery[n].created
  /\ \A h \in Senders :
       /\ draining[h].step \in {"idle", "enqueue", "send", "mark"}
       /\ draining[h].list \subseteq Notes

NotifyInit ==
  /\ attention = [a \in Attentions |-> "none"]
  /\ delivery = [n \in Notes |-> Absent]
  /\ sent = [n \in Notes |-> 0]
  /\ draining = [h \in Senders |-> NotDraining]
  /\ resends = 0 /\ rows = 0 /\ drainFaults = 0

-----------------------------------------------------------------------------
DrainTo(h, d) == draining' = [draining EXCEPT ![h] = d]

OpenAttention(a) ==
  /\ attention[a] = "none" /\ \A b \in 1..(a - 1) : attention[b] # "none"
  /\ attention' = [attention EXCEPT ![a] = "open"]
  /\ UNCHANGED <<delivery, sent, draining, resends, rows, drainFaults>>

\* An Attention answered in the meantime is announced all the same.
CloseAttention(a) ==
  /\ attention[a] = "open"
  /\ attention' = [attention EXCEPT ![a] = "closed"]
  /\ UNCHANGED <<delivery, sent, draining, resends, rows, drainFaults>>

\* listAttention({ openOnly: true })
ListOpen(h) ==
  /\ draining[h].step = "idle"
  /\ DrainTo(h, [step |-> "enqueue",
                 list |-> {n \in Notes : attention[n[1]] = "open"}])
  /\ UNCHANGED <<attention, delivery, sent, resends, rows, drainFaults>>

AnyNote(n) == TRUE
Unqueued(n) == delivery[n] = Absent

\* INSERT OR IGNORE, one row after the other.
EnqueueNote(h, n) ==
  /\ draining[h].step = "enqueue" /\ n \in draining[h].list
  /\ \A m \in draining[h].list : n[1] < m[1] \/ (n[1] = m[1] /\ n[2] <= m[2])
  /\ IF Unqueued(n)
     THEN /\ rows' = rows + 1
          /\ delivery' = [delivery EXCEPT ![n] = [status |-> "PENDING", created |-> rows + 1]]
     ELSE UNCHANGED <<rows, delivery>>
  /\ DrainTo(h, [draining[h] EXCEPT !.list = @ \ {n}])
  /\ UNCHANGED <<attention, sent, resends, drainFaults>>

Pending == {n \in Notes : delivery[n] # Absent /\ delivery[n].status = "PENDING"}

Older(m, n) == delivery[m].created < delivery[n].created
OneFewer(S) == {n \in S : Cardinality({m \in S : Older(m, n)}) + 1 < DrainLimit}
FirstOf(S) == {n \in S : Cardinality({m \in S : Older(m, n)}) < DrainLimit}

ListPending(h) ==
  /\ draining[h].step = "enqueue" /\ draining[h].list = {}
  /\ DrainTo(h, [step |-> "send", list |-> FirstOf(Pending)])
  /\ UNCHANGED <<attention, delivery, sent, resends, rows, drainFaults>>

NextNote(h, n) ==
  n \in draining[h].list /\ \A m \in draining[h].list : ~Older(m, n)

MarkedFirst(h, n) ==
  /\ delivery' = [delivery EXCEPT ![n].status = "DELIVERED"]
  /\ sent' = sent
  /\ DrainTo(h, [draining[h] EXCEPT !.step = "mark"])
Accepts(h, n) ==
  /\ sent' = [sent EXCEPT ![n] = @ + 1]
  /\ delivery' = delivery
  /\ DrainTo(h, [draining[h] EXCEPT !.step = "mark"])

Send(h, n) ==
  /\ draining[h].step = "send" /\ NextNote(h, n)
  /\ n[2] \notin Broken
  /\ Accepts(h, n)
  /\ UNCHANGED <<attention, resends, rows, drainFaults>>

MarkDelivered(h, n) ==
  /\ draining[h].step = "mark" /\ NextNote(h, n)
  /\ delivery' = [delivery EXCEPT ![n].status = "DELIVERED"]
  /\ DrainTo(h, [step |-> "send", list |-> draining[h].list \ {n}])
  /\ UNCHANGED <<attention, sent, resends, rows, drainFaults>>

\* markNotificationFailed only counts: the row stays PENDING for ever.
SendFails(h, n) ==
  /\ draining[h].step = "send" /\ NextNote(h, n)
  /\ IF n[2] \in Broken THEN UNCHANGED drainFaults
     ELSE drainFaults < MaxDrainFaults /\ drainFaults' = drainFaults + 1
  /\ DrainTo(h, [draining[h] EXCEPT !.list = @ \ {n}])
  /\ UNCHANGED <<attention, delivery, sent, resends, rows>>

DrainEnds(h) ==
  /\ draining[h].step = "send" /\ draining[h].list = {}
  /\ DrainTo(h, NotDraining)
  /\ UNCHANGED <<attention, delivery, sent, resends, rows, drainFaults>>

DrainDies(h) ==
  /\ draining[h].step # "idle"
  /\ drainFaults < MaxDrainFaults
  /\ drainFaults' = drainFaults + 1
  /\ resends' = resends + (IF draining[h].step = "mark" THEN 1 ELSE 0)
  /\ DrainTo(h, NotDraining)
  /\ UNCHANGED <<attention, delivery, sent, rows>>

DrainStep(h) ==
  \/ ListOpen(h) \/ ListPending(h) \/ DrainEnds(h)
  \/ \E n \in Notes :
       EnqueueNote(h, n) \/ Send(h, n) \/ MarkDelivered(h, n) \/ SendFails(h, n)

NotifyNext ==
  \/ \E h \in Senders : DrainStep(h) \/ DrainDies(h)
  \/ \E a \in Attentions : OpenAttention(a) \/ CloseAttention(a)

NotifySpec == NotifyInit /\ [][NotifyNext]_notifyVars

-----------------------------------------------------------------------------
(* A row is DELIVERED only if its transport has accepted it: a host that     *)
(* dies in between leaves it to be sent once more, never unsent.             *)
DeliveredIsSent ==
  \A n \in Notes : (delivery[n] # Absent /\ delivery[n].status = "DELIVERED") => sent[n] > 0

(* A notification goes out once for each host that had it in hand at the     *)
(* same time, and once more for each that died before it marked it.          *)
ResendsBounded == \A n \in Notes : sent[n] <= Cardinality(Senders) + resends

(* A row of a working transport is delivered in the end, although the rows   *)
(* of a broken one, fewer than a drain's limit, stay PENDING for ever.       *)
NotificationArrives ==
  \A n \in Notes : (n[2] \notin Broken /\ delivery[n] # Absent)
    ~> (delivery[n] # Absent /\ delivery[n].status = "DELIVERED")

(* Delivery is at least once and at most as often as deaths explain, both of  *)
(* the above.                                                                 *)
SendsCounted == DeliveredIsSent /\ ResendsBounded
=============================================================================
