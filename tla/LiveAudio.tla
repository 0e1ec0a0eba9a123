----------------------------- MODULE LiveAudio -----------------------------
(***************************************************************************)
(* Live audio (internal/audio): packets of several recorders reach the     *)
(* router over UDP, which finds out whose they are, passes on one site of  *)
(* each talkgroup and publishes its frames on the bus, from where a client *)
(* gets them over a WebSocket (internal/api/audio_stream.go).              *)
(*                                                                         *)
(* One talkgroup of one system, received at one site of every recorder.    *)
(* A recorder is its address, its instance and its site at once: what the  *)
(* router has to learn is sourceMap, which instance is behind an address.  *)
(***************************************************************************)
EXTENDS Naturals, Sequences, FiniteSets, Functions

CONSTANTS
  Recorder,
  StreamInstanceID,   \* the configured default instance: a recorder's, or of none
  IdleTimeout,        \* of a stream (30 s), in ticks
  InputSize,          \* of the router's channel (256)
  BufferSize,         \* of a subscriber's channel (256)
  ControlSize,        \* of the channel of control messages (4)
  MaxTime, MaxPackets, MaxAsks

VARIABLES
  now,
  known,      \* recorders the identity cache knows, all by one short name
  input,      \* the router's channel
  sourceMap,  \* the instance learned for each address
  stream,     \* the active stream: the site it is heard from, and its last chunk
  packets,    \* packets sent so far
  ch,         \* the client's channel of frames
  filter,     \* whether the client's filter lets the talkgroup through
  control,    \* control messages read and not yet applied
  asks,       \* control messages sent so far
  got         \* the frame the client was sent last, and the one before

vars == <<now, known, input, sourceMap, stream, packets, ch, filter, control, asks, got>>
clientVars == <<ch, filter, control, asks, got>>

Nobody == "nobody"
NoStream == [site |-> Nobody, last |-> 0]
NoFrame == [from |-> Nobody, stamp |-> 0, aired |-> 0, learned |-> FALSE]
Frame == [from : Recorder \cup {Nobody}, stamp : 0 .. MaxTime, aired : 0 .. MaxTime,
          learned : BOOLEAN]

TypeOK ==
  /\ now \in 0 .. MaxTime
  /\ known \subseteq Recorder
  /\ Len(input) <= InputSize
  /\ sourceMap \in [Recorder -> Recorder \cup {Nobody}]
  /\ stream \in [site : Recorder \cup {Nobody}, last : 0 .. MaxTime]
  /\ ch \in Seq(Frame) /\ Len(ch) <= BufferSize
  /\ filter \in BOOLEAN /\ control \in Seq(BOOLEAN) /\ Len(control) <= ControlSize
  /\ got \in [cur : Frame, prev : Frame]

Init ==
  /\ now = 0
  /\ known \in SUBSET Recorder
  /\ input = <<>>
  /\ sourceMap = [r \in Recorder |-> Nobody]
  /\ stream = NoStream
  /\ packets = 0
  /\ ch = <<>> /\ filter = FALSE /\ control = <<>> /\ asks = 0
  /\ got = [cur |-> NoFrame, prev |-> NoFrame]

Tick ==
  /\ now < MaxTime /\ now' = now + 1
  /\ UNCHANGED <<known, input, sourceMap, stream, packets, clientVars>>

\* The first message of an instance over MQTT makes it known.
BecomesKnown(r) ==
  /\ r \notin known /\ known' = known \cup {r}
  /\ UNCHANGED <<now, input, sourceMap, stream, packets, clientVars>>

-----------------------------------------------------------------------------
(* The source and the router.                                              *)

\* A packet with metadata names the system; one with the talkgroup alone does not.
Named(format) == format = "sendJSON"

\* A packet that does not fit into the router's channel is dropped.
ReceivePacket(r, format) ==
  /\ packets < MaxPackets
  /\ packets' = packets + 1
  /\ input' = IF Len(input) < InputSize
                THEN Append(input, [from |-> r, stamp |-> now, named |-> Named(format)])
                ELSE input
  /\ UNCHANGED <<now, known, sourceMap, stream, clientVars>>

\* A slip: instances learned for other addresses are not left out.
ClaimedToo == known

\* An instance that is not known yet has no system and site.
LookupByShortName(instance) == instance \in known

\* LookupByShortNameAny: the instances no address has been learned for.
Unclaimed == known \ Range(sourceMap)

\* resolveInstanceID: what was learned for the address, else any unclaimed instance, which
\* is learned, else the configured one, which is not.
ResolveInstanceID(r, i) ==
  \/ i = sourceMap[r] /\ UNCHANGED sourceMap
  \/ /\ sourceMap[r] = Nobody /\ i \in Unclaimed
     /\ sourceMap' = [sourceMap EXCEPT ![r] = i]
  \/ sourceMap[r] = Nobody /\ Unclaimed = {} /\ i = StreamInstanceID /\ UNCHANGED sourceMap

\* AudioBus.Publish: a frame that does not fit is dropped.
Publish(frame) == ch' = IF filter /\ Len(ch) < BufferSize THEN Append(ch, frame) ELSE ch

\* A chunk of another site is heard only when the stream's last one, by its time of
\* receipt, is longer ago than the timeout.
Taken(site) == stream.site \in {Nobody, site} \/ now - stream.last > IdleTimeout

ProcessChunk ==
  LET c == Head(input) IN
  /\ input # <<>>
  /\ input' = Tail(input)
  /\ \/ /\ c.named
        /\ \E site \in Recorder \cup {StreamInstanceID} :
             /\ ResolveInstanceID(c.from, site)
             /\ IF LookupByShortName(site) /\ Taken(site)
                  THEN /\ stream' = [site |-> site, last |-> c.stamp]
                       /\ Publish([from |-> c.from, stamp |-> c.stamp, aired |-> now,
                                   learned |-> sourceMap'[c.from] # Nobody])
                  ELSE UNCHANGED <<stream, ch>>
     \/ ~c.named /\ UNCHANGED <<sourceMap, stream, ch>>
  /\ UNCHANGED <<now, known, packets, filter, control, asks, got>>

CleanupIdle ==
  /\ stream # NoStream /\ now - stream.last > IdleTimeout
  /\ stream' = NoStream
  /\ UNCHANGED <<now, known, input, sourceMap, packets, clientVars>>

-----------------------------------------------------------------------------
(* The client's WebSocket.                                                 *)

\* The reader goroutine: a control message that does not fit is dropped.
ReadControl(wants) ==
  /\ asks < MaxAsks /\ asks' = asks + 1
  /\ control' = IF Len(control) < ControlSize THEN Append(control, wants) ELSE control
  /\ UNCHANGED <<now, known, input, sourceMap, stream, packets, ch, filter, got>>

UpdateFilter ==
  /\ control # <<>>
  /\ filter' = Head(control) /\ control' = Tail(control)
  /\ UNCHANGED <<now, known, input, sourceMap, stream, packets, ch, asks, got>>

WriteFrame ==
  /\ ch # <<>>
  /\ ch' = Tail(ch)
  /\ got' = [cur |-> Head(ch), prev |-> got.cur]
  /\ UNCHANGED <<now, known, input, sourceMap, stream, packets, filter, control, asks>>

\* With a filter that lets nothing through.
Subscribe == ch' = <<>> /\ filter' = FALSE

\* The client goes and comes again: nothing it was sent or asked for remains.
Reconnect ==
  /\ Subscribe /\ control' = <<>>
  /\ got' = [cur |-> NoFrame, prev |-> NoFrame]
  /\ UNCHANGED <<now, known, input, sourceMap, stream, packets, asks>>

Next ==
  \/ Tick
  \/ \E r \in Recorder : BecomesKnown(r)
  \/ \E r \in Recorder, f \in {"sendJSON", "sendTGID"} : ReceivePacket(r, f)
  \/ ProcessChunk \/ CleanupIdle
  \/ \E wants \in BOOLEAN : ReadControl(wants)
  \/ UpdateFilter \/ WriteFrame \/ Reconnect

Spec == Init /\ [][Next]_vars

-----------------------------------------------------------------------------
\* A client hears a talkgroup from one recorder until that has been silent for longer than
\* the timeout: in whatever order recorders were learned, became known and queued up, and
\* whatever the client missed or filtered.  Both must have been learned; before that both
\* may be taken for the default one.
OneVoice ==
  LET f == got.cur  e == got.prev IN
  f.learned /\ e.learned /\ e.from # f.from => f.aired > e.stamp + IdleTimeout
=============================================================================
