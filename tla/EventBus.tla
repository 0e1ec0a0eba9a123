------------------------------ MODULE EventBus ------------------------------
(***************************************************************************)
(* The event bus (internal/ingest/eventbus.go) and one client of its SSE   *)
(* stream (internal/api/events.go).  Publishers number an event, store it  *)
(* in a ring and hand it to the subscribers: three steps, between which    *)
(* other publishers and the client's connection move on.  A client that    *)
(* reconnects names the last event it received, gets what the ring has     *)
(* after it, and is subscribed afterwards.                                 *)
(*                                                                         *)
(* An event is its sequence number.  Subscribers do not share state, so    *)
(* one stands for all; its filter selects all the events of the model.     *)
(***************************************************************************)
EXTENDS Integers, FiniteSets, SequencesExt

CONSTANTS
  Publishers,    \* goroutines that call Publish
  RingSize,      \* NewEventBus's ringSize
  ChanSize,      \* capacity of a subscriber's channel
  MaxEvents,     \* bound: how many events are published
  MaxConnects    \* bound: how often the client connects

Events == 1..MaxEvents

VARIABLES
  seq,           \* eb.seq
  publisher,     \* where each publisher is, and its event
  ring,          \* eb.ring, 0 for an empty slot
  ringHead,      \* eb.ringHead
  channel,       \* the subscriber's channel
  client,        \* "off", "replayed" or "subscribed"
  lastEventID,   \* what the client would send, 0 for none
  connects,      \* how often it has connected
  got,           \* history: the events of this connection, in order
  log,           \* history: the events in the order they entered the ring
  owner,         \* history: who published each event, sorted by event
  dropped,       \* history: events its full channel refused
  exposed,       \* history: events in Publish's hands between the replay and
                 \* the subscription of this connection
  resumed        \* history: how many events the ring had taken when the
                 \* connection's lastEventID entered it, and the replay did

busVars    == <<seq, publisher, ring, ringHead, log, owner>>
clientVars == <<client, lastEventID, connects, got, exposed, resumed>>
vars       == <<busVars, channel, dropped, clientVars>>

Idle == [pc |-> "idle", event |-> 0]

Init ==
  /\ seq = 0 /\ publisher = [p \in Publishers |-> Idle]
  /\ ring = [i \in 0..(RingSize - 1) |-> 0] /\ ringHead = 0
  /\ channel = <<>> /\ client = "off" /\ lastEventID = 0 /\ connects = 0
  /\ got = <<>> /\ log = <<>> /\ owner = <<>> /\ dropped = {} /\ exposed = {}
  /\ resumed = [from |-> 0, to |-> 0]

-----------------------------------------------------------------------------
(* Publish                                                                 *)

InHand == {publisher[p].event : p \in Publishers} \ {0}

Number(p) ==
  /\ publisher[p] = Idle /\ seq < MaxEvents
  /\ seq' = seq + 1
  /\ publisher' = [publisher EXCEPT ![p] = [pc |-> "store", event |-> seq']]
  /\ owner' = Append(owner, p)
  /\ exposed' = IF client = "replayed" THEN exposed \cup {seq'} ELSE exposed
  /\ UNCHANGED <<ring, ringHead, log, channel, dropped, client, lastEventID, connects, got,
                 resumed>>

\* Mutant: the head moves before the slot is written.
StoreAhead(p) ==
  /\ publisher[p].pc = "store"
  /\ ringHead' = (ringHead + 1) % RingSize
  /\ ring' = [ring EXCEPT ![ringHead'] = publisher[p].event]
  /\ log' = Append(log, publisher[p].event)
  /\ publisher' = [publisher EXCEPT ![p].pc = "send"]
  /\ UNCHANGED <<seq, owner, channel, dropped, clientVars>>

Store(p) ==
  /\ publisher[p].pc = "store"
  /\ ring' = [ring EXCEPT ![ringHead] = publisher[p].event]
  /\ ringHead' = (ringHead + 1) % RingSize
  /\ log' = Append(log, publisher[p].event)
  /\ publisher' = [publisher EXCEPT ![p].pc = "send"]
  /\ UNCHANGED <<seq, owner, channel, dropped, clientVars>>

\* Under eb.mu: to the subscriber, if there is one, unless its channel is full.
Send(p) ==
  /\ publisher[p].pc = "send"
  /\ publisher' = [publisher EXCEPT ![p] = Idle]
  /\ \/ client # "subscribed" /\ UNCHANGED <<channel, dropped>>
     \/ /\ client = "subscribed" /\ Len(channel) < ChanSize
        /\ channel' = Append(channel, publisher[p].event) /\ UNCHANGED dropped
     \/ /\ client = "subscribed" /\ Len(channel) >= ChanSize
        /\ dropped' = dropped \cup {publisher[p].event} /\ UNCHANGED channel
  /\ UNCHANGED <<seq, ring, ringHead, log, owner, clientVars>>

-----------------------------------------------------------------------------
(* ReplaySince and the stream handler                                      *)

\* The ring from its oldest slot on, empty slots skipped.
Slot(i) == ring[(ringHead + i - 1) % RingSize]
Filled == {i \in 1..RingSize : Slot(i) # 0}
NthFilled(k) == CHOOSE i \in Filled : Cardinality({j \in Filled : j <= i}) = k
Buffered == [k \in 1..Cardinality(Filled) |-> Slot(NthFilled(k))]

\* Mutant: an event that is no longer in the ring has nothing after it.
ReplayNothingIfLost(last) ==
  LET at == {i \in DOMAIN Buffered : Buffered[i] = last}
  IN IF at = {} THEN <<>>
     ELSE SubSeq(Buffered, (CHOOSE i \in at : TRUE) + 1, Len(Buffered))

ReplaySince(last) ==
  LET at == {i \in DOMAIN Buffered : Buffered[i] = last}
  IN IF at = {} THEN Buffered
     ELSE SubSeq(Buffered, (CHOOSE i \in at : TRUE) + 1, Len(Buffered))

\* A client without a Last-Event-ID gets no replay.
Connect ==
  /\ client = "off" /\ connects < MaxConnects
  /\ connects' = connects + 1
  /\ got' = IF lastEventID = 0 THEN <<>> ELSE ReplaySince(lastEventID)
  /\ client' = "replayed"
  /\ exposed' = InHand
  /\ resumed' = [from |-> IF lastEventID = 0 THEN Len(log)
                          ELSE CHOOSE i \in DOMAIN log : log[i] = lastEventID,
                 to |-> Len(log)]
  /\ UNCHANGED <<busVars, channel, dropped, lastEventID>>

Subscribe ==
  /\ client = "replayed"
  /\ client' = "subscribed" /\ channel' = <<>> /\ dropped' = {}
  /\ UNCHANGED <<busVars, lastEventID, connects, got, exposed, resumed>>

Receive ==
  /\ client = "subscribed" /\ channel # <<>>
  /\ channel' = Tail(channel) /\ got' = Append(got, Head(channel))
  /\ UNCHANGED <<busVars, dropped, client, lastEventID, connects, exposed, resumed>>

\* Mutant: the connection ends and its subscription stays.
DisconnectLeaks ==
  /\ client = "subscribed"
  /\ \E n \in 0..Len(got) : lastEventID' = IF n = 0 THEN lastEventID ELSE got[n]
  /\ client' = "off" /\ got' = <<>>
  /\ UNCHANGED <<busVars, channel, dropped, connects, exposed, resumed>>

\* What was written last may not have arrived; what is in the channel is gone.
Disconnect ==
  /\ client # "off"
  /\ \E n \in 0..Len(got) : lastEventID' = IF n = 0 THEN lastEventID ELSE got[n]
  /\ client' = "off" /\ channel' = <<>> /\ got' = <<>>
  /\ UNCHANGED <<busVars, dropped, connects, exposed, resumed>>

-----------------------------------------------------------------------------
Publish(p) == Number(p) \/ Store(p) \/ Send(p)
StreamEvents == Connect \/ Subscribe \/ Receive \/ Disconnect

Next == (\E p \in Publishers : Publish(p)) \/ StreamEvents

Spec == Init /\ [][Next]_vars

-----------------------------------------------------------------------------
TypeOK ==
  /\ seq \in 0..MaxEvents
  /\ publisher \in [Publishers -> [pc : {"idle", "store", "send"}, event : {0} \cup Events]]
  /\ ring \in [0..(RingSize - 1) -> {0} \cup Events] /\ ringHead \in 0..(RingSize - 1)
  /\ channel \in Seq(Events) /\ Len(channel) <= ChanSize
  /\ client \in {"off", "replayed", "subscribed"}
  /\ client # "subscribed" => channel = <<>>
  /\ lastEventID \in {0} \cup Events /\ connects \in 0..MaxConnects
  /\ got \in Seq(Events) /\ log \in Seq(Events) /\ owner \in Seq(Publishers)
  /\ dropped \subseteq Events /\ exposed \subseteq Events
  /\ resumed \in [from : Nat, to : Nat]

\* A replay is what entered the ring after the client's last event, in that
\* order, and all the ring still has when that event was overwritten
\* (eventbus.go:71-108).
ReplayIsTheRest ==
  LET oldest == IF Len(log) <= RingSize THEN 1 ELSE Len(log) - RingSize + 1
  IN \A i \in DOMAIN log :
       ReplaySince(log[i]) = SubSeq(log, IF i >= oldest THEN i + 1 ELSE oldest, Len(log))

\* Whatever publishers and connections interleave, a connection never shows a
\* publisher's events out of order, across the replay and the channel.
OwnersOrderKept ==
  \A i, j \in DOMAIN got :
    i < j /\ owner[got[i]] = owner[got[j]] => got[i] <= got[j]

\* A subscribed client misses an event only if its channel was full, the ring
\* had overwritten it, or Publish had it in hand between the replay and the
\* subscription.
MissesAreAccounted ==
  client = "subscribed" =>
    \A i \in (resumed.from + 1)..Len(log) :
      LET e == log[i]
          arriving == ToSet(got) \cup ToSet(channel)
          overwritten == i <= resumed.to - RingSize
      IN e \in arriving \cup dropped \cup exposed \cup InHand \/ overwritten

\* Last-Event-ID gives gapless recovery (openapi.yaml:3176, README.md:195):
\* of the events after it nothing is missing but what the ring had overwritten
\* or a full channel dropped.
GaplessRecovery ==
  client = "subscribed" /\ lastEventID # 0 =>
    \A i \in (resumed.from + 1)..Len(log) :
      \/ log[i] \in ToSet(got) \cup ToSet(channel) \cup dropped \cup InHand
      \/ i <= resumed.to - RingSize
=============================================================================
