--------------------------- MODULE Streams_proofs ---------------------------
(***************************************************************************)
(* Proofs about the parts of MCStreams, for every value of their constants *)
(* that StreamsAssumption allows: files in both tiers (Storage), streams   *)
(* of voice (LiveAudio), events to a subscriber (EventBus), edits of a     *)
(* talkgroup's name and its CSV file (Tags), and a recording in a          *)
(* directory (Watcher).                                                    *)
(*                                                                         *)
(* Each part has an inductive invariant of its own (StorageInv, AudioInv,  *)
(* EventsInv, TagsInv with VersionsInv and CsvInv, WatcherInv); a theorem  *)
(* says that it holds while its part is followed.                          *)
(***************************************************************************)
EXTENDS MCStreams, FiniteSetTheorems, SequenceTheorems, TLAPS

-----------------------------------------------------------------------------
(* Storage.                                                                *)

\* What is about to be written, to the disk or to S3, is a version of the file; the
\* pruner is about to remove the file only if it is in S3.
StoreInv ==
  /\ \A w \in {"save", "open"} :
       writer[w].pc \in {"mkdir", "temp", "rename", "send", "s3"} => writer[w].v # 0
  /\ recon.pc = "put" => recon.v # 0
  /\ pruner = "remove" => s3 # 0

StorageInv == S!TypeOK /\ StoreInv /\ S!SavedStays

LEMMA StorageNumbers ==
  /\ MaxVersions \in Nat
  /\ 0 \in S!Maybe
  /\ S!Version \subseteq S!Maybe
  /\ \A v \in S!Maybe : v # 0 => v \in S!Version
  /\ \A v \in S!Maybe : v < MaxVersions => v + 1 \in S!Maybe /\ v + 1 # 0
  /\ \A v \in S!Version : v # 0
BY StreamsAssumption DEF S!Maybe, S!Version

LEMMA StorageInit == S!Init => StorageInv
<1> SUFFICES ASSUME S!Init PROVE StorageInv
  OBVIOUS
<1>1. S!NoUploads \in [ch : Seq(S!Version), closed : BOOLEAN, work : [Workers -> S!Maybe]]
  BY StorageNumbers DEF S!NoUploads
<1> QED
  BY <1>1, StorageNumbers DEF S!Init, StorageInv, S!TypeOK, StoreInv, S!SavedStays, S!Idle

LEMMA StorageStep == StorageInv /\ [S!Next]_storageVars => StorageInv'
<1> SUFFICES ASSUME StorageInv, [S!Next]_storageVars PROVE StorageInv'
  OBVIOUS
<1> USE StorageNumbers
<1> DEFINE
    Pcs == {"idle", "fetch", "mkdir", "temp", "rename", "send", "s3"}
    Writers == [{"save", "open"} -> [pc : Pcs, v : S!Maybe]]
    Up == [ch : Seq(S!Version), closed : BOOLEAN, work : [Workers -> S!Maybe]]
    Recons == [pc : {"idle", "ask", "read", "put"}, v : S!Maybe]
<1>a. /\ mode \in {"async", "sync"}
      /\ local \in S!Maybe /\ s3 \in S!Maybe /\ saves \in S!Maybe /\ saved \in S!Maybe
      /\ dirStorage \in BOOLEAN /\ over \in BOOLEAN
      /\ temps \subseteq {"save", "open"}
      /\ writer \in Writers /\ upload \in Up
      /\ pruner \in {"idle", "ask", "remove", "dirs"}
      /\ recon \in Recons
      /\ StoreInv /\ S!SavedStays
  BY DEF StorageInv, S!TypeOK
<1>b. SUFFICES
      /\ mode' \in {"async", "sync"}
      /\ local' \in S!Maybe /\ s3' \in S!Maybe /\ saves' \in S!Maybe /\ saved' \in S!Maybe
      /\ dirStorage' \in BOOLEAN /\ over' \in BOOLEAN
      /\ temps' \subseteq {"save", "open"}
      /\ writer' \in Writers /\ upload' \in Up
      /\ pruner' \in {"idle", "ask", "remove", "dirs"}
      /\ recon' \in Recons
      /\ StoreInv' /\ S!SavedStays'
  BY DEF StorageInv, S!TypeOK
<1>c. S!Idle \in [pc : Pcs, v : S!Maybe] /\ S!Idle \in Recons /\ S!Idle.pc = "idle"
  BY DEF S!Idle
<1>d. S!NoUploads \in Up
  BY DEF S!NoUploads
<1>e. \A w \in {"save", "open"} : S!Stops(w) =>
        /\ writer' \in Writers
        /\ \A x \in {"save", "open"} : writer'[x] = writer[x] \/ writer'[x].pc = "idle"
  BY <1>a, <1>c DEF S!Stops
<1>f. ASSUME NEW w \in {"save", "open"}, NEW p \in Pcs, S!Goto(w, p)
      PROVE  /\ writer' \in Writers
             /\ writer'[w].pc = p /\ writer'[w].v = writer[w].v
             /\ \A x \in {"save", "open"} \ {w} : writer'[x] = writer[x]
  BY <1>a, <1>f DEF S!Goto
<1> HIDE DEF Pcs, Writers, Up, Recons
<1>w. \A w \in {"save", "open"} : writer[w].v \in S!Maybe
  BY <1>a DEF Writers
<1>1. CASE S!SaveAudio
  <2>1. saves' \in S!Maybe /\ saves + 1 # 0
    <3>1. saves < MaxVersions
      BY <1>1 DEF S!SaveAudio
    <3> QED
      BY <1>a, <1>1, <3>1 DEF S!SaveAudio
  <2>2. [pc |-> "mkdir", v |-> saves + 1] \in [pc : Pcs, v : S!Maybe]
    BY <1>1, <2>1 DEF S!SaveAudio, Pcs
  <2>3. writer' \in Writers /\ StoreInv'
    BY <1>a, <1>1, <2>1, <2>2 DEF S!SaveAudio, Writers, StoreInv
  <2> QED
    BY <1>a, <1>1, <2>1, <2>3 DEF S!SaveAudio, S!SavedStays
<1>2. CASE \E w \in {"save", "open"} : S!MakeDir(w)
  <2>w. PICK w \in {"save", "open"} : S!MakeDir(w)
    BY <1>2
  <2>1. writer' \in Writers /\ StoreInv'
    BY <1>a, <2>w, <1>f DEF S!MakeDir, StoreInv, Pcs
  <2> QED
    BY <1>a, <2>w, <2>1 DEF S!MakeDir, S!SavedStays
<1>3. CASE \E w \in {"save", "open"} : S!CreateTemp(w)
  <2>w. PICK w \in {"save", "open"} : S!CreateTemp(w)
    BY <1>3
  <2>1. writer' \in Writers /\ StoreInv'
    BY <1>a, <2>w, <1>e, <1>f DEF S!CreateTemp, StoreInv, Pcs
  <2> QED
    BY <1>a, <2>w, <2>1 DEF S!CreateTemp, S!SavedStays
<1>4. CASE \E w \in {"save", "open"} : S!Rename(w)
  <2>w. PICK w \in {"save", "open"} : S!Rename(w)
    BY <1>4
  <2>1. writer' \in Writers /\ StoreInv'
    BY <1>a, <2>w, <1>e, <1>f DEF S!Rename, StoreInv, Pcs
  <2>2. local' \in S!Maybe /\ local' # 0 /\ saved' \in S!Maybe
    BY <1>a, <2>w, <1>w DEF S!Rename, StoreInv
  <2> QED
    BY <1>a, <2>w, <2>1, <2>2 DEF S!Rename, S!SavedStays
<1>5. CASE \E w \in {"save", "open"} : S!WriteFails(w)
  <2>w. PICK w \in {"save", "open"} : S!WriteFails(w)
    BY <1>5
  <2>1. writer' \in Writers /\ StoreInv'
    BY <1>a, <2>w, <1>e DEF S!WriteFails, StoreInv
  <2> QED
    BY <1>a, <2>w, <2>1 DEF S!WriteFails, S!SavedStays
<1>6. CASE S!SaveToS3
  <2>1. s3' \in S!Maybe /\ (s3' = s3 \/ s3' # 0)
    BY <1>a, <1>6, <1>w DEF S!SaveToS3, StoreInv
  <2>2. writer' \in Writers /\ StoreInv'
    BY <1>a, <1>6, <1>e, <2>1 DEF S!SaveToS3, StoreInv
  <2> QED
    BY <1>a, <1>6, <2>1, <2>2 DEF S!SaveToS3, S!SavedStays
<1>7. CASE S!OpenFile
  <2>1. writer' \in Writers /\ StoreInv'
    BY <1>a, <1>7, <1>f DEF S!OpenFile, StoreInv, Pcs
  <2> QED
    BY <1>a, <1>7, <2>1 DEF S!OpenFile, S!SavedStays
<1>8. CASE S!FetchFromS3
  <2>1. [pc |-> "mkdir", v |-> s3] \in [pc : Pcs, v : S!Maybe]
    BY <1>a DEF Pcs
  <2>2. writer' \in Writers /\ StoreInv'
    BY <1>a, <1>8, <1>e, <2>1 DEF S!FetchFromS3, StoreInv, Writers
  <2> QED
    BY <1>a, <1>8, <2>2 DEF S!FetchFromS3, S!SavedStays
<1>9. CASE S!Enqueue
  <2>1. writer' \in Writers /\ StoreInv'
    BY <1>a, <1>9, <1>e DEF S!Enqueue, StoreInv
  <2>2. writer["save"].v \in S!Version
    BY <1>a, <1>9, <1>w DEF S!Enqueue, StoreInv
  <2>3. upload' \in Up
    BY <1>a, <1>9, <2>2 DEF S!Enqueue, Up
  <2> QED
    BY <1>a, <1>9, <2>1, <2>3 DEF S!Enqueue, S!SavedStays
<1>10. CASE S!StopUploader
  <2>1. upload' \in Up
    BY <1>a, <1>10 DEF S!StopUploader, Up
  <2> QED
    BY <1>a, <1>10, <2>1 DEF S!StopUploader, S!SavedStays, StoreInv
<1>11. CASE \E w \in Workers : S!TakeJob(w)
  <2>w. PICK w \in Workers : S!TakeJob(w)
    BY <1>11
  <2>1. Head(upload.ch) \in S!Version /\ Tail(upload.ch) \in Seq(S!Version)
    BY <1>a, <1>11 DEF S!TakeJob, Up
  <2>2. upload' \in Up
    BY <1>a, <2>w, <2>1 DEF S!TakeJob, Up
  <2> QED
    BY <1>a, <2>w, <2>2 DEF S!TakeJob, S!SavedStays, StoreInv
<1>12. CASE \E w \in Workers : S!UploadJob(w)
  <2>w. PICK w \in Workers : S!UploadJob(w)
    BY <1>12
  <2>1. upload' \in Up /\ upload.work[w] \in S!Maybe
    BY <1>a, <1>12 DEF S!UploadJob, Up
  <2>2. s3' \in S!Maybe /\ (s3' = s3 \/ s3' # 0)
    BY <1>a, <2>w, <2>1 DEF S!UploadJob
  <2> QED
    BY <1>a, <2>w, <2>1, <2>2 DEF S!UploadJob, S!SavedStays, StoreInv
<1>13. CASE S!Restart
  <2>1. writer' \in Writers /\ StoreInv'
    BY <1>a, <1>13, <1>c DEF S!Restart, StoreInv, Writers
  <2> QED
    BY <1>a, <1>13, <1>c, <1>d, <2>1 DEF S!Restart, S!SavedStays
<1>14. CASE S!WalkCache \/ S!AskBeforeRemove \/ S!RemoveFile
  <2>1. /\ pruner' \in {"idle", "ask", "remove", "dirs"} /\ local' \in S!Maybe
        /\ pruner' = "remove" => s3 # 0
        /\ local' = local \/ s3 # 0
    BY <1>a, <1>14 DEF S!WalkCache, S!AskBeforeRemove, S!RemoveFile, StoreInv
  <2>2. UNCHANGED <<mode, s3, dirStorage, temps, over, writer, upload, recon, saves, saved>>
    BY <1>14 DEF S!WalkCache, S!AskBeforeRemove, S!RemoveFile
  <2> QED
    BY <1>a, <2>1, <2>2 DEF S!SavedStays, StoreInv
<1>15. CASE S!RemoveEmptyDirs
  <2>1. dirStorage' \in BOOLEAN
    BY <1>15, Zenon DEF S!RemoveEmptyDirs
  <2> QED
    BY <1>a, <1>15, <2>1 DEF S!RemoveEmptyDirs, S!SavedStays, StoreInv
<1>16. CASE S!Reconcile \/ S!AskBeforeUpload \/ S!ReadFile \/ S!UploadAgain
  <2>1. recon' \in Recons /\ (recon'.pc = "put" => recon'.v # 0)
    BY <1>a, <1>c, <1>16
    DEF S!Reconcile, S!AskBeforeUpload, S!ReadFile, S!UploadAgain, Recons
  <2>2. s3' \in S!Maybe /\ (s3' = s3 \/ s3' # 0)
    BY <1>a, <1>16
    DEF S!Reconcile, S!AskBeforeUpload, S!ReadFile, S!UploadAgain, Recons, StoreInv
  <2>3. UNCHANGED <<mode, local, dirStorage, temps, over, writer, upload, pruner, saves, saved>>
    BY <1>16 DEF S!Reconcile, S!AskBeforeUpload, S!ReadFile, S!UploadAgain
  <2> QED
    BY <1>a, <2>1, <2>2, <2>3 DEF S!SavedStays, StoreInv
<1>17. CASE S!Midnight
  BY <1>a, <1>17 DEF S!Midnight, S!SavedStays, StoreInv
<1>18. CASE UNCHANGED storageVars
  BY <1>a, <1>18 DEF storageVars, S!SavedStays, StoreInv
<1> QED
  BY <1>1, <1>2, <1>3, <1>4, <1>5, <1>6, <1>7, <1>8, <1>9, <1>10, <1>11, <1>12, <1>13, <1>14,
     <1>15, <1>16, <1>17, <1>18
  DEF S!Next, S!Reconciler

\* A file that a handler was told is saved is on the disk or in S3, for every number of
\* workers, of versions, failing calls and restarts (LocalStore.Save, TieredStore,
\* CachePruner, AsyncUploader, Reconciler).
THEOREM SavedAlwaysStays == StreamsSpec => []SavedStays
<1> DEFINE Inv == part = "storage" => StorageInv
<1>1. StreamsInit => Inv
  BY StorageInit DEF StreamsInit
<1>2. Inv /\ [StreamsNext]_streamsVars => Inv'
  BY StorageStep DEF StreamsNext, streamsVars
<1>3. Inv => SavedStays
  BY DEF StorageInv, SavedStays
<1> QED
  BY <1>1, <1>2, <1>3, PTL DEF StreamsSpec

-----------------------------------------------------------------------------
(* Live audio.                                                             *)

Packet == [from : Recorder, stamp : 0 .. MaxTime, named : BOOLEAN]

\* Packets are queued up in the order they were received in.
PacketsInv ==
  /\ input \in Seq(Packet)
  /\ \A i \in DOMAIN input : input[i].stamp <= now
  /\ \A i, j \in DOMAIN input : i < j => input[i].stamp <= input[j].stamp

\* Two addresses are never learned to be the same instance.
LearnedInv ==
  \A r, q \in Recorder : sourceMap[r] # L!Nobody /\ sourceMap[r] = sourceMap[q] => r = q

\* A frame of a learned recorder on its way or sent last: nothing in the queue is older,
\* and the stream is still its recorder's and not older, or it was longer ago than the
\* timeout.
FrameInv(e) ==
  e.learned =>
    /\ e.from \in Recorder /\ sourceMap[e.from] # L!Nobody
    /\ e.stamp <= now
    /\ \A i \in DOMAIN input : e.stamp <= input[i].stamp
    /\ \/ now > e.stamp + IdleTimeout
       \/ stream.site = sourceMap[e.from] /\ stream.last >= e.stamp

\* What OneVoice says of two frames, the one sent before the other.
PairInv(e, f) == f.learned /\ e.learned /\ e.from # f.from => f.aired > e.stamp + IdleTimeout

FramesInv ==
  /\ FrameInv(gotLiveAudio.cur)
  /\ \A i \in DOMAIN ch : FrameInv(ch[i]) /\ PairInv(gotLiveAudio.cur, ch[i])
  /\ \A i, j \in DOMAIN ch : i < j => PairInv(ch[i], ch[j])
  /\ PairInv(gotLiveAudio.prev, gotLiveAudio.cur)

AudioInv == L!TypeOK /\ PacketsInv /\ LearnedInv /\ FramesInv

LEMMA AudioNumbers ==
  /\ MaxTime \in Nat /\ IdleTimeout \in Nat
  /\ InputSize \in Nat /\ BufferSize \in Nat /\ ControlSize \in Nat
  /\ L!Nobody \notin Recorder
BY StreamsAssumption DEF L!Nobody

LEMMA AudioInit == L!Init => AudioInv
<1> SUFFICES ASSUME L!Init PROVE AudioInv
  OBVIOUS
<1>1. L!NoFrame \in L!Frame /\ L!NoFrame.learned = FALSE
  BY AudioNumbers DEF L!NoFrame, L!Frame
<1>2. L!TypeOK
  <2>1. now \in 0 .. MaxTime /\ Len(input) <= InputSize /\ Len(ch) <= BufferSize /\ Len(control) <= ControlSize
    BY AudioNumbers DEF L!Init
  <2>2. ch \in Seq(L!Frame) /\ control \in Seq(BOOLEAN)
    BY DEF L!Init
  <2>5. filter \in BOOLEAN /\ known \subseteq Recorder
    BY DEF L!Init
  <2>3. stream \in [site : Recorder \cup {L!Nobody}, last : 0 .. MaxTime]
    BY AudioNumbers DEF L!Init, L!NoStream
  <2>4. sourceMap \in [Recorder -> Recorder \cup {L!Nobody}] /\ gotLiveAudio \in [cur : L!Frame, prev : L!Frame]
    BY <1>1 DEF L!Init
  <2> QED
    BY <2>1, <2>2, <2>3, <2>4, <2>5 DEF L!TypeOK
<1>3. PacketsInv
  BY DEF L!Init, PacketsInv
<1>4. LearnedInv
  BY DEF L!Init, LearnedInv
<1>5. FramesInv
  BY <1>1 DEF L!Init, FramesInv, FrameInv, PairInv
<1> QED
  BY <1>2, <1>3, <1>4, <1>5 DEF AudioInv

\* What is appended to a sequence, and what is left of one.
LEMMA AppendedTo ==
  ASSUME NEW X, NEW q \in Seq(X), NEW x \in X, NEW n \in Nat, Len(q) < n
  PROVE  /\ Append(q, x) \in Seq(X) /\ Len(Append(q, x)) <= n
         /\ \A i \in DOMAIN Append(q, x) :
              \/ i \in DOMAIN q /\ i <= Len(q) /\ Append(q, x)[i] = q[i]
              \/ i = Len(q) + 1 /\ Append(q, x)[i] = x
         /\ \A i \in DOMAIN q : i \in DOMAIN Append(q, x) /\ i \in Nat
         /\ Len(q) \in Nat
OBVIOUS

LEMMA TailOf ==
  ASSUME NEW X, NEW q \in Seq(X), q # <<>>
  PROVE  /\ Head(q) \in X /\ Head(q) = q[1] /\ 1 \in DOMAIN q
         /\ Tail(q) \in Seq(X) /\ Len(Tail(q)) < Len(q)
         /\ \A i \in DOMAIN Tail(q) : i + 1 \in DOMAIN q /\ Tail(q)[i] = q[i + 1] /\ 1 < i + 1
OBVIOUS

LEMMA AudioStep == AudioInv /\ [L!Next]_audioVars => AudioInv'
<1> SUFFICES ASSUME AudioInv, [L!Next]_audioVars PROVE AudioInv'
  OBVIOUS
<1> USE AudioNumbers
<1> DEFINE
    Streams == [site : Recorder \cup {L!Nobody}, last : 0 .. MaxTime]
    Maps == [Recorder -> Recorder \cup {L!Nobody}]
    Gots == [cur : L!Frame, prev : L!Frame]
<1>a. /\ now \in 0 .. MaxTime /\ known \subseteq Recorder
      /\ Len(input) <= InputSize
      /\ sourceMap \in Maps /\ stream \in Streams
      /\ ch \in Seq(L!Frame) /\ Len(ch) <= BufferSize
      /\ filter \in BOOLEAN /\ control \in Seq(BOOLEAN) /\ Len(control) <= ControlSize
      /\ gotLiveAudio \in Gots
      /\ PacketsInv /\ LearnedInv /\ FramesInv
  BY DEF AudioInv, L!TypeOK
<1>b. SUFFICES
      /\ now' \in 0 .. MaxTime /\ known' \subseteq Recorder
      /\ Len(input)' <= InputSize
      /\ sourceMap' \in Maps /\ stream' \in Streams
      /\ ch' \in Seq(L!Frame) /\ Len(ch)' <= BufferSize
      /\ filter' \in BOOLEAN /\ control' \in Seq(BOOLEAN) /\ Len(control)' <= ControlSize
      /\ gotLiveAudio' \in Gots
      /\ PacketsInv' /\ LearnedInv' /\ FramesInv'
  BY DEF AudioInv, L!TypeOK
<1>c. L!NoFrame \in L!Frame /\ L!NoFrame.learned = FALSE
  BY DEF L!NoFrame, L!Frame
<1>d. /\ now \in Nat /\ stream.site \in Recorder \cup {L!Nobody} /\ stream.last \in Nat
      /\ \A e \in L!Frame : e.stamp \in Nat /\ e.aired \in Nat
      /\ \A i \in DOMAIN ch : ch[i] \in L!Frame
      /\ gotLiveAudio.cur \in L!Frame /\ gotLiveAudio.prev \in L!Frame
      /\ \A i \in DOMAIN input : input[i] \in Packet /\ input[i].stamp \in Nat
  <2>1. now \in Nat /\ stream.site \in Recorder \cup {L!Nobody} /\ stream.last \in Nat
    BY <1>a
  <2>2. \A e \in L!Frame : e.stamp \in Nat /\ e.aired \in Nat
    BY DEF L!Frame
  <2>3. \A i \in DOMAIN ch : ch[i] \in L!Frame
    BY <1>a
  <2>4. gotLiveAudio.cur \in L!Frame /\ gotLiveAudio.prev \in L!Frame
    BY <1>a
  <2>5. \A i \in DOMAIN input : input[i] \in Packet /\ input[i].stamp \in Nat
    <3>1. \A i \in DOMAIN input : input[i] \in Packet
      BY <1>a DEF PacketsInv
    <3>2. \A q \in Packet : q.stamp \in Nat
      BY DEF Packet
    <3> QED
      BY <3>1, <3>2
  <2> QED
    BY <2>1, <2>2, <2>3, <2>4, <2>5
\* The frames stay as they are, so each has to keep its own invariant only.
<1>e. ASSUME ch' = ch, gotLiveAudio' = gotLiveAudio, \A e \in L!Frame : FrameInv(e) => FrameInv(e)'
      PROVE  FramesInv'
  BY <1>a, <1>d, <1>e DEF FramesInv, PairInv
<1> HIDE DEF Streams, Maps, Gots
<1>1. CASE L!Tick
  <2>1. now' \in 0 .. MaxTime /\ now' = now + 1
    BY <1>a, <1>1 DEF L!Tick
  <2>2. PacketsInv'
    BY <1>a, <1>d, <1>1, <2>1 DEF L!Tick, PacketsInv
  <2>3. FramesInv'
    <3>1. UNCHANGED <<input, sourceMap, stream, ch, gotLiveAudio>>
      BY <1>1 DEF L!Tick, L!clientVars
    <3>2. ASSUME NEW e \in L!Frame, FrameInv(e)
          PROVE  FrameInv(e)'
      BY <1>d, <2>1, <3>1, <3>2 DEF FrameInv
    <3> QED
      BY <1>e, <3>1, <3>2
  <2>4. UNCHANGED <<known, input, sourceMap, stream, ch, filter, control, gotLiveAudio>>
    BY <1>1 DEF L!Tick, L!clientVars
  <2>5. LearnedInv'
    BY <1>a, <2>4 DEF LearnedInv
  <2> QED
    BY <1>a, <2>1, <2>2, <2>3, <2>4, <2>5
<1>2. CASE \/ \E r \in Recorder : L!BecomesKnown(r)
           \/ \E wants \in BOOLEAN : L!ReadControl(wants)
           \/ L!UpdateFilter
           \/ UNCHANGED audioVars
  <2>1. UNCHANGED <<now, input, sourceMap, stream, ch, gotLiveAudio>>
    BY <1>2 DEF L!BecomesKnown, L!ReadControl, L!UpdateFilter, L!clientVars, audioVars
  <2>2. known' \subseteq Recorder
    BY <1>a, <1>2 DEF L!BecomesKnown, L!ReadControl, L!UpdateFilter, L!clientVars, audioVars
  <2>3. control' \in Seq(BOOLEAN) /\ Len(control') <= ControlSize /\ filter' \in BOOLEAN
    <3>1. CASE \E wants \in BOOLEAN : L!ReadControl(wants)
      <4>1. PICK wants \in BOOLEAN : L!ReadControl(wants)
        BY <3>1
      <4>2. filter' = filter
        BY <4>1 DEF L!ReadControl
      <4>3. CASE Len(control) < ControlSize
        <5>1. control' = Append(control, wants)
          BY <4>1, <4>3 DEF L!ReadControl
        <5> QED
          BY <1>a, <4>2, <4>3, <5>1, AppendedTo
      <4>4. CASE ~(Len(control) < ControlSize)
        BY <1>a, <4>1, <4>2, <4>4 DEF L!ReadControl
      <4> QED
        BY <4>3, <4>4
    <3>2. CASE L!UpdateFilter
      BY <1>a, <3>2, TailOf DEF L!UpdateFilter
    <3>3. CASE UNCHANGED <<control, filter>>
      BY <1>a, <3>3
    <3> QED
      BY <1>2, <3>1, <3>2, <3>3 DEF L!BecomesKnown, L!clientVars, audioVars
  <2>4. PacketsInv' /\ LearnedInv'
    BY <1>a, <2>1 DEF PacketsInv, LearnedInv
  <2>5. FramesInv'
    BY <1>a, <2>1 DEF FramesInv, FrameInv, PairInv
  <2> QED
    BY <1>a, <2>1, <2>2, <2>3, <2>4, <2>5
<1>3. CASE \E r \in Recorder, f \in {"sendJSON", "sendTGID"} : L!ReceivePacket(r, f)
  <2>w. PICK r \in Recorder, f \in {"sendJSON", "sendTGID"} : L!ReceivePacket(r, f)
    BY <1>3
  <2>0. UNCHANGED <<now, known, sourceMap, stream, ch, filter, control, gotLiveAudio>>
    BY <2>w DEF L!ReceivePacket, L!clientVars
  <2> DEFINE p == [from |-> r, stamp |-> now, named |-> L!Named(f)]
  <2>1. p \in Packet /\ p.stamp = now
    <3>1. L!Named(f) \in BOOLEAN
      BY Zenon DEF L!Named
    <3> QED
      BY <1>a, <3>1 DEF Packet
  <2> HIDE DEF p
  <2>2. CASE Len(input) < InputSize
    <3>1. input' = Append(input, p)
      BY <2>w, <2>2 DEF L!ReceivePacket, p
    <3>2. /\ input' \in Seq(Packet) /\ Len(input') <= InputSize
          /\ \A i \in DOMAIN input' :
               \/ i \in DOMAIN input /\ i <= Len(input) /\ input'[i] = input[i]
               \/ i = Len(input) + 1 /\ input'[i] = p
          /\ \A i \in DOMAIN input : i \in Nat
          /\ Len(input) \in Nat
      BY <1>a, <2>1, <2>2, <3>1, AppendedTo DEF PacketsInv
    <3>3. PacketsInv'
      <4>1. ASSUME NEW i \in DOMAIN input'
            PROVE  input'[i].stamp <= now'
        <5>1. CASE i \in DOMAIN input /\ input'[i] = input[i]
          BY <1>a, <2>0, <5>1 DEF PacketsInv
        <5>2. CASE input'[i] = p
          BY <1>d, <2>0, <2>1, <5>2
        <5> QED
          BY <3>2, <5>1, <5>2
      <4>2. ASSUME NEW i \in DOMAIN input', NEW j \in DOMAIN input', i < j
            PROVE  input'[i].stamp <= input'[j].stamp
        BY SMTT(30), <1>a, <1>d, <2>1, <3>2, <4>2 DEF PacketsInv
      <4> QED
        BY <3>2, <4>1, <4>2 DEF PacketsInv
    <3>4. FramesInv'
      <4>1. ASSUME NEW e \in L!Frame, FrameInv(e)
            PROVE  FrameInv(e)'
        BY <1>d, <2>0, <2>1, <3>2, <4>1 DEF FrameInv
      <4> QED
        BY <1>e, <2>0, <4>1
    <3> QED
      BY <1>a, <2>0, <3>2, <3>3, <3>4 DEF LearnedInv
  <2>3. CASE ~(Len(input) < InputSize)
    <3>1. input' = input
      BY <2>w, <2>3 DEF L!ReceivePacket
    <3> QED
      BY <1>a, <2>0, <3>1 DEF PacketsInv, LearnedInv, FramesInv, FrameInv, PairInv
  <2> QED
    BY <2>2, <2>3
<1>4. CASE L!ProcessChunk
  <2> DEFINE c == Head(input)
  <2>0. UNCHANGED <<now, known, filter, control, gotLiveAudio>> /\ input # <<>> /\ input' = Tail(input)
    BY <1>4 DEF L!ProcessChunk
  <2>1. /\ input' \in Seq(Packet) /\ Len(input') <= InputSize
        /\ c \in Packet /\ c = input[1] /\ 1 \in DOMAIN input
        /\ \A i \in DOMAIN input' : i + 1 \in DOMAIN input /\ input'[i] = input[i + 1] /\ 1 < i + 1
    BY <1>a, <2>0, TailOf DEF PacketsInv
  <2>2. /\ c.from \in Recorder /\ c.stamp \in Nat /\ c.stamp \in 0 .. MaxTime /\ c.stamp <= now
        /\ \A i \in DOMAIN input' : c.stamp <= input'[i].stamp
    BY SMTT(30), <1>a, <2>1 DEF PacketsInv, Packet
  <2>3. PacketsInv'
    <3>1. \A i \in DOMAIN input' : input'[i].stamp <= now'
      BY <1>a, <2>0, <2>1 DEF PacketsInv
    <3>2. ASSUME NEW i \in DOMAIN input', NEW j \in DOMAIN input', i < j
          PROVE  input'[i].stamp <= input'[j].stamp
      <4>1. i + 1 < j + 1
        BY <2>1, <3>2
      <4> QED
        BY <1>a, <2>1, <4>1 DEF PacketsInv
    <3> QED
      BY <2>1, <3>1, <3>2 DEF PacketsInv
  <2>o. \A e \in L!Frame : FrameInv(e) /\ e.learned =>
          /\ e.stamp <= c.stamp
          /\ \A i \in DOMAIN input' : e.stamp <= input'[i].stamp
    BY <2>1 DEF FrameInv
  <2> HIDE DEF c
  <2>4. CASE UNCHANGED <<sourceMap, stream, ch>>
    <3>1. ASSUME NEW e \in L!Frame, FrameInv(e)
          PROVE  FrameInv(e)'
      BY <2>0, <2>4, <2>o, <3>1 DEF FrameInv
    <3>2. FramesInv'
      BY <1>e, <2>0, <2>4, <3>1
    <3> QED
      BY <1>a, <2>0, <2>1, <2>3, <2>4, <3>2 DEF LearnedInv
  <2>5. CASE ~UNCHANGED <<sourceMap, stream, ch>>
    <3>1. PICK site \in Recorder \cup {StreamInstanceID} :
            /\ L!ResolveInstanceID(c.from, site)
            /\ IF L!LookupByShortName(site) /\ L!Taken(site)
                 THEN /\ stream' = [site |-> site, last |-> c.stamp]
                      /\ L!Publish([from |-> c.from, stamp |-> c.stamp, aired |-> now,
                                    learned |-> sourceMap'[c.from] # L!Nobody])
                 ELSE UNCHANGED <<stream, ch>>
      BY <1>4, <2>5 DEF L!ProcessChunk, c
    <3>2. /\ sourceMap' \in Maps
          /\ \A r \in Recorder : sourceMap[r] # L!Nobody => sourceMap'[r] = sourceMap[r]
          /\ sourceMap'[c.from] # L!Nobody => site = sourceMap'[c.from]
          /\ LearnedInv'
      <4>1. CASE UNCHANGED sourceMap /\ (site = sourceMap[c.from] \/ sourceMap[c.from] = L!Nobody)
        BY <1>a, <4>1 DEF LearnedInv
      <4>2. CASE /\ sourceMap[c.from] = L!Nobody /\ site \in L!Unclaimed
                 /\ sourceMap' = [sourceMap EXCEPT ![c.from] = site]
        <5>0. site \in Recorder
          BY <1>a, <4>2 DEF L!Unclaimed
        <5>1. \A r \in Recorder : sourceMap[r] # site
          BY <1>a, <4>2 DEF L!Unclaimed, L!Range, Maps
        <5>2. /\ sourceMap' \in Maps
              /\ sourceMap'[c.from] = site
              /\ \A r \in Recorder : r # c.from => sourceMap'[r] = sourceMap[r]
          BY <1>a, <2>2, <4>2, <5>0 DEF Maps
        <5> QED
          BY <1>a, <4>2, <5>1, <5>2 DEF LearnedInv
      <4> QED
        BY <3>1, <4>1, <4>2 DEF L!ResolveInstanceID
    <3>3. CASE ~(L!LookupByShortName(site) /\ L!Taken(site))
      <4>1. UNCHANGED <<stream, ch>>
        BY <3>1, <3>3
      <4>2. ASSUME NEW e \in L!Frame, FrameInv(e)
            PROVE  FrameInv(e)'
        BY <2>0, <2>o, <3>2, <4>1, <4>2 DEF FrameInv
      <4>3. FramesInv'
        BY <1>e, <2>0, <4>1, <4>2
      <4> QED
        BY <1>a, <2>0, <2>1, <2>3, <3>2, <4>1, <4>3
    <3>4. CASE L!LookupByShortName(site) /\ L!Taken(site)
      <4>f. PICK f \in L!Frame :
              f = [from |-> c.from, stamp |-> c.stamp, aired |-> now,
                   learned |-> sourceMap'[c.from] # L!Nobody]
        <5>1. (sourceMap'[c.from] # L!Nobody) \in BOOLEAN
          BY Zenon
        <5> QED
          BY <1>a, <2>2, <5>1 DEF L!Frame
      <4>0. site \in Recorder
        BY <1>a, <3>4 DEF L!LookupByShortName
      <4>1. stream' = [site |-> site, last |-> c.stamp] /\ L!Publish(f)
        BY <3>1, <3>4, <4>f
      <4>2. stream' \in Streams /\ stream'.site = site /\ stream'.last = c.stamp
        BY <2>2, <4>0, <4>1 DEF Streams
      <4>3. /\ f.from = c.from /\ f.stamp = c.stamp /\ f.aired = now
            /\ f.learned => sourceMap'[c.from] # L!Nobody
        BY <4>f
      <4>t. stream.site \in {L!Nobody, site} \/ now > stream.last + IdleTimeout
        BY <1>d, <3>4 DEF L!Taken
      <4>4. ASSUME NEW e \in L!Frame, FrameInv(e)
            PROVE  FrameInv(e)'
        BY SMTT(30), <1>d, <2>0, <2>2, <2>o, <3>2, <4>2, <4>4, <4>t DEF FrameInv
      <4>5. FrameInv(f)'
        <5>1. ASSUME f.learned
              PROVE  /\ c.from \in Recorder /\ sourceMap'[c.from] # L!Nobody
                     /\ stream'.site = sourceMap'[c.from] /\ stream'.last >= c.stamp
          BY <2>2, <3>2, <4>2, <4>3, <5>1
        <5> QED
          BY <2>0, <2>2, <4>3, <5>1 DEF FrameInv
      <4>6. ASSUME NEW e \in L!Frame, FrameInv(e)
            PROVE  PairInv(e, f)
        <5> SUFFICES ASSUME f.learned, e.learned, e.from # f.from
                     PROVE  now > e.stamp + IdleTimeout
          BY <4>3 DEF PairInv
        <5>1. e.from \in Recorder /\ sourceMap[e.from] # L!Nobody
          BY <4>6 DEF FrameInv
        <5>2. sourceMap[e.from] # site
          BY <2>2, <3>2, <4>3, <5>1 DEF LearnedInv
        <5> QED
          BY <1>d, <4>6, <4>t, <5>1, <5>2 DEF FrameInv
      <4>7. CASE filter /\ Len(ch) < BufferSize
        <5>1. ch' = Append(ch, f)
          BY <4>1, <4>7 DEF L!Publish
        <5>2. /\ ch' \in Seq(L!Frame) /\ Len(ch') <= BufferSize
              /\ \A i \in DOMAIN ch' :
                   \/ i \in DOMAIN ch /\ i <= Len(ch) /\ ch'[i] = ch[i]
                   \/ i = Len(ch) + 1 /\ ch'[i] = f
              /\ \A i \in DOMAIN ch : i \in Nat
              /\ Len(ch) \in Nat
          BY <1>a, <4>3, <4>7, <5>1, AppendedTo
        <5>3. FrameInv(gotLiveAudio.cur)'
          <6>1. FrameInv(gotLiveAudio.cur)
            BY <1>a DEF FramesInv
          <6>2. PICK e \in L!Frame : e = gotLiveAudio.cur
            BY <1>d
          <6>3. FrameInv(e)'
            BY <4>4, <6>1, <6>2
          <6> QED
            BY <2>0, <6>2, <6>3 DEF FrameInv
        <5>4. ASSUME NEW i \in DOMAIN ch'
              PROVE  FrameInv(ch[i])' /\ PairInv(gotLiveAudio.cur, ch[i])'
          <6>1. CASE i \in DOMAIN ch /\ ch'[i] = ch[i]
            <7>1. FrameInv(ch[i]) /\ PairInv(gotLiveAudio.cur, ch[i])
              BY <1>a, <6>1 DEF FramesInv
            <7>2. PICK e \in L!Frame : e = ch[i]
              BY <1>d, <6>1
            <7>3. FrameInv(e)'
              BY <4>4, <7>1, <7>2
            <7> QED
              BY <2>0, <6>1, <7>1, <7>2, <7>3 DEF FrameInv, PairInv
          <6>2. CASE ch'[i] = f
            <7>1. PairInv(gotLiveAudio.cur, f)
              BY <1>a, <1>d, <4>6 DEF FramesInv
            <7> QED
              BY <2>0, <4>5, <6>2, <7>1 DEF FrameInv, PairInv
          <6> QED
            BY <5>2, <6>1, <6>2
        <5>5. ASSUME NEW i \in DOMAIN ch', NEW j \in DOMAIN ch', i < j
              PROVE  PairInv(ch[i], ch[j])'
          <6>1. i \in DOMAIN ch /\ ch'[i] = ch[i]
            BY <5>2, <5>5
          <6>2. FrameInv(ch[i]) /\ ch[i] \in L!Frame
            BY <1>a, <1>d, <6>1 DEF FramesInv
          <6>3. CASE j \in DOMAIN ch /\ ch'[j] = ch[j]
            BY <1>a, <5>5, <6>1, <6>3 DEF FramesInv, PairInv
          <6>4. CASE ch'[j] = f
            <7>1. PairInv(ch[i], f)
              BY <4>6, <6>2
            <7> QED
              BY <6>1, <6>4, <7>1 DEF PairInv
          <6> QED
            BY <5>2, <6>3, <6>4
        <5>6. PairInv(gotLiveAudio.prev, gotLiveAudio.cur)'
          BY <1>a, <2>0 DEF FramesInv, PairInv
        <5>7. FramesInv'
          BY <5>3, <5>4, <5>5, <5>6 DEF FramesInv
        <5> QED
          BY <1>a, <2>0, <2>1, <2>3, <3>2, <4>2, <5>2, <5>7
      <4>8. CASE ~(filter /\ Len(ch) < BufferSize)
        <5>1. ch' = ch
          BY <4>1, <4>8 DEF L!Publish
        <5>2. FramesInv'
          BY <1>e, <2>0, <4>4, <5>1
        <5> QED
          BY <1>a, <2>0, <2>1, <2>3, <3>2, <4>2, <5>1, <5>2
      <4> QED
        BY <4>7, <4>8
    <3> QED
      BY <3>3, <3>4
  <2> QED
    BY <2>4, <2>5
<1>5. CASE L!CleanupIdle
  <2>1. stream' \in Streams
    BY <1>5 DEF L!CleanupIdle, L!NoStream, Streams
  <2>2. UNCHANGED <<now, known, input, sourceMap, ch, filter, control, gotLiveAudio>>
    BY <1>5 DEF L!CleanupIdle, L!clientVars
  <2>3. FramesInv'
    <3>1. now > stream.last + IdleTimeout
      BY <1>d, <1>5 DEF L!CleanupIdle
    <3>2. ASSUME NEW e \in L!Frame, FrameInv(e)
          PROVE  FrameInv(e)'
      BY <1>d, <2>2, <3>1, <3>2 DEF FrameInv
    <3> QED
      BY <1>e, <2>2, <3>2
  <2> QED
    BY <1>a, <2>1, <2>2, <2>3 DEF PacketsInv, LearnedInv
<1>6. CASE L!WriteFrame
  <2>0. UNCHANGED <<now, known, input, sourceMap, stream, filter, control>>
    BY <1>6 DEF L!WriteFrame
  <2>1. /\ ch' \in Seq(L!Frame) /\ Len(ch') <= BufferSize
        /\ Head(ch) \in L!Frame /\ Head(ch) = ch[1] /\ 1 \in DOMAIN ch
        /\ \A i \in DOMAIN ch' : i + 1 \in DOMAIN ch /\ ch'[i] = ch[i + 1] /\ 1 < i + 1
    BY <1>a, <1>6, TailOf DEF L!WriteFrame
  <2>2. gotLiveAudio' \in Gots /\ gotLiveAudio'.cur = ch[1] /\ gotLiveAudio'.prev = gotLiveAudio.cur
    BY <1>a, <1>6, <2>1 DEF L!WriteFrame, Gots
  <2>3. \A e : FrameInv(e) => FrameInv(e)'
    BY <2>0 DEF FrameInv
  <2>4. FramesInv'
    <3>1. FrameInv(ch[1]) /\ PairInv(gotLiveAudio.cur, ch[1])
      BY <1>a, <2>1 DEF FramesInv
    <3>2. FrameInv(gotLiveAudio.cur)'
      BY <2>0, <2>2, <3>1 DEF FrameInv
    <3>3. PairInv(gotLiveAudio.prev, gotLiveAudio.cur)'
      BY <2>2, <3>1 DEF PairInv
    <3>4. ASSUME NEW i \in DOMAIN ch'
          PROVE  FrameInv(ch[i])' /\ PairInv(gotLiveAudio.cur, ch[i])'
      <4>1. FrameInv(ch[i + 1]) /\ PairInv(ch[1], ch[i + 1])
        BY <1>a, <2>1 DEF FramesInv
      <4>2. ch'[i] = ch[i + 1]
        BY <2>1
      <4>3. FrameInv(ch[i])'
        BY <2>0, <4>1, <4>2 DEF FrameInv
      <4> QED
        BY <2>2, <4>1, <4>2, <4>3 DEF PairInv
    <3>5. ASSUME NEW i \in DOMAIN ch', NEW j \in DOMAIN ch', i < j
          PROVE  PairInv(ch[i], ch[j])'
      <4>1. i + 1 < j + 1
        BY <1>a, <2>1, <3>5
      <4>2. PairInv(ch[i + 1], ch[j + 1])
        BY <1>a, <2>1, <4>1 DEF FramesInv
      <4> QED
        BY <2>1, <4>2 DEF PairInv
    <3> QED
      BY <3>2, <3>3, <3>4, <3>5 DEF FramesInv
  <2> QED
    BY <1>a, <2>0, <2>1, <2>2, <2>4 DEF PacketsInv, LearnedInv
<1>7. CASE L!Reconnect
  <2>0. UNCHANGED <<now, known, input, sourceMap, stream>>
    BY <1>7 DEF L!Reconnect
  <2>1. ch' = <<>> /\ filter' = FALSE /\ control' = <<>>
    BY <1>7 DEF L!Reconnect, L!Subscribe
  <2>2. gotLiveAudio' \in Gots /\ gotLiveAudio'.cur = L!NoFrame /\ gotLiveAudio'.prev = L!NoFrame
    BY <1>c, <1>7 DEF L!Reconnect, Gots
  <2>3. FramesInv'
    BY <1>c, <2>1, <2>2 DEF FramesInv, FrameInv, PairInv
  <2>4. Len(ch') <= BufferSize /\ Len(control') <= ControlSize
    BY <2>1
  <2>5. ch' \in Seq(L!Frame) /\ control' \in Seq(BOOLEAN)
    BY <2>1
  <2>6. filter' \in BOOLEAN
    BY <2>1
  <2> QED
    BY <1>a, <2>0, <2>2, <2>3, <2>4, <2>5, <2>6 DEF PacketsInv, LearnedInv
<1> QED
  BY <1>1, <1>2, <1>3, <1>4, <1>5, <1>6, <1>7 DEF L!Next

\* A client hears a talkgroup from one learned recorder until that one has been silent for
\* longer than the timeout, for every number of recorders and packets and every size of
\* the channels (router.go, bus.go, audio_stream.go).
THEOREM OneVoiceAlways == StreamsSpec => []OneVoice
<1> DEFINE Inv == part = "audio" => AudioInv
<1>1. StreamsInit => Inv
  BY AudioInit DEF StreamsInit
<1>2. Inv /\ [StreamsNext]_streamsVars => Inv'
  BY AudioStep DEF StreamsNext, streamsVars
<1>3. Inv => OneVoice
  BY DEF AudioInv, FramesInv, PairInv, OneVoice, L!OneVoice
<1> QED
  BY <1>1, <1>2, <1>3, PTL DEF StreamsSpec

-----------------------------------------------------------------------------
(* The event bus.                                                          *)

InLog(e) == \E i \in DOMAIN log : log[i] = e

\* Of one publisher, the smaller one was published first.
InOrder(e, f) == owner[e] = owner[f] => e <= f

\* What a publisher has in hand is its latest event, which is in the log once it is stored.
HandInv(p) ==
  LET e == publisher[p].event IN
  /\ publisher[p].pc = "idle" => e = 0
  /\ publisher[p].pc # "idle" =>
       e \in 1..seq /\ owner[e] = p /\ \A f \in 1..seq : owner[f] = p => f <= e
  /\ publisher[p].pc = "store" => ~InLog(e)
  /\ publisher[p].pc = "send" => InLog(e)

\* The log has every event once, and those of a publisher in order.
BusInv ==
  /\ Len(owner) = seq
  /\ \A p \in Publishers : HandInv(p)
  /\ \A i \in DOMAIN log : log[i] \in 1..seq
  /\ \A i, j \in DOMAIN log : i < j => log[i] # log[j] /\ InOrder(log[i], log[j])

\* The ring is the end of the log, behind the slots that are still empty.
SlotInv(i) ==
  /\ Len(log) + i > RingSize => E!Slot(i) = log[Len(log) - RingSize + i]
  /\ Len(log) + i <= RingSize => E!Slot(i) = 0

RingInv == \A i \in 1..RingSize : SlotInv(i)

\* What a client has received, and then what is on its way, comes from the log and is in
\* order.
ArrivingInv ==
  /\ lastEventID # 0 => InLog(lastEventID)
  /\ \A i \in DOMAIN gotEventBus : InLog(gotEventBus[i])
  /\ \A i \in DOMAIN channel : InLog(channel[i])
  /\ \A i, j \in DOMAIN gotEventBus : i < j => InOrder(gotEventBus[i], gotEventBus[j])
  /\ \A i, j \in DOMAIN channel : i < j => InOrder(channel[i], channel[j])
  /\ \A i \in DOMAIN gotEventBus, j \in DOMAIN channel : InOrder(gotEventBus[i], channel[j])

\* Between the replay and the subscription what is in hand counts as exposed, and what the
\* replay does not have was overwritten.
ReplayedInv ==
  client = "replayed" =>
    /\ E!InHand \subseteq exposed
    /\ \A i \in (resumed.from + 1)..Len(log) :
         log[i] \in E!ToSet(gotEventBus) \cup exposed \/ i <= resumed.to - RingSize

EventsInv ==
  E!TypeOK /\ BusInv /\ RingInv /\ ArrivingInv /\ ReplayedInv /\ E!MissesAreAccounted

LEMMA EventsNumbers ==
  /\ MaxEvents \in Nat /\ MaxConnects \in Nat /\ ChanSize \in Nat /\ RingSize \in Nat \ {0}
  /\ \A e \in E!Events : e \in Nat \ {0}
BY StreamsAssumption DEF E!Events

LEMMA CardinalityIs == \A X : E!Cardinality(X) = Cardinality(X)
BY DEF E!Cardinality, Cardinality

LEMMA SmallMod ==
  ASSUME NEW n \in Nat \ {0}
  PROVE  /\ \A a \in 0 .. n - 1 : a % n = a
         /\ \A a \in n .. 2 * n - 1 : a % n = a - n
OBVIOUS

\* Where the i-th slot from the head on is.
LEMMA SlotAt ==
  ASSUME NEW h \in 0..(RingSize - 1), NEW i \in 1..RingSize
  PROVE  (h + i - 1) % RingSize = IF h + i - 1 < RingSize THEN h + i - 1 ELSE h + i - 1 - RingSize
<1>1. RingSize \in Nat \ {0}
  BY EventsNumbers
<1>2. CASE h + i - 1 < RingSize
  <2>1. h + i - 1 \in 0 .. RingSize - 1
    BY <1>1, <1>2
  <2> QED
    BY <1>1, <1>2, <2>1, SmallMod
<1>3. CASE ~(h + i - 1 < RingSize)
  <2>1. h + i - 1 \in RingSize .. 2 * RingSize - 1
    BY <1>1, <1>3
  <2> QED
    BY SMTT(30), <1>1, <1>3, <2>1, SmallMod
<1> QED
  BY <1>2, <1>3

LEMMA EventsInit == E!Init => EventsInv
<1> SUFFICES ASSUME E!Init PROVE EventsInv
  OBVIOUS
<1> USE EventsNumbers
<1>1. E!TypeOK
  BY DEF E!Init, E!TypeOK, E!Idle
<1>2. BusInv
  BY DEF E!Init, BusInv, HandInv, E!Idle
<1>3. RingInv
  <2> SUFFICES ASSUME NEW i \in 1..RingSize PROVE E!Slot(i) = 0
    BY DEF E!Init, RingInv, SlotInv
  <2>1. (0 + i - 1) % RingSize \in 0..(RingSize - 1)
    BY SlotAt
  <2> QED
    BY <2>1 DEF E!Init, E!Slot
<1>4. ArrivingInv /\ ReplayedInv /\ E!MissesAreAccounted
  BY DEF E!Init, ArrivingInv, ReplayedInv, E!MissesAreAccounted
<1> QED
  BY <1>1, <1>2, <1>3, <1>4 DEF EventsInv

-----------------------------------------------------------------------------
Oldest == IF Len(log) <= RingSize THEN 1 ELSE Len(log) - RingSize + 1

\* The ring in its order is the log from the oldest event on.
LEMMA BufferedIsTheEnd ==
  ASSUME E!TypeOK, BusInv, RingInv
  PROVE  /\ Oldest \in 1..(Len(log) + 1)
         /\ E!Buffered = [k \in 1..(Len(log) - Oldest + 1) |-> log[Oldest + k - 1]]
<1> USE EventsNumbers
<1> DEFINE m == IF Len(log) <= RingSize THEN RingSize - Len(log) + 1 ELSE 1
<1>1. Len(log) \in Nat /\ \A i \in 1..Len(log) : log[i] # 0 /\ i \in DOMAIN log
  BY DEF E!TypeOK, BusInv
<1>2. /\ m \in 1..(RingSize + 1) /\ Oldest = Len(log) - RingSize + m
      /\ Oldest \in 1..(Len(log) + 1)
      /\ RingSize - m + 1 = Len(log) - Oldest + 1
      /\ \A i \in 1..RingSize : i >= m <=> Len(log) + i > RingSize
  <2>1. CASE Len(log) <= RingSize
    BY <1>1, <2>1 DEF Oldest
  <2>2. CASE ~(Len(log) <= RingSize)
    BY <1>1, <2>2 DEF Oldest
  <2> QED
    BY <2>1, <2>2
<1> HIDE DEF m
<1>3. \A i \in 1..RingSize : E!Slot(i) # 0 <=> i >= m
  <2> SUFFICES ASSUME NEW i \in 1..RingSize PROVE E!Slot(i) # 0 <=> i >= m
    OBVIOUS
  <2>1. CASE i >= m
    <3>1. Len(log) - RingSize + i \in 1..Len(log) /\ Len(log) + i > RingSize
      BY <1>1, <1>2, <2>1
    <3> QED
      BY <1>1, <2>1, <3>1 DEF RingInv, SlotInv
  <2>2. CASE ~(i >= m)
    BY <1>1, <1>2, <2>2 DEF RingInv, SlotInv
  <2> QED
    BY <2>1, <2>2
<1>4. E!Filled = m .. RingSize
  BY <1>2, <1>3 DEF E!Filled
<1>5. Cardinality(E!Filled) = Len(log) - Oldest + 1
  <2>1. m \in Int /\ RingSize \in Int /\ (m > RingSize => RingSize - m + 1 = 0)
    BY <1>2
  <2> QED
    BY <1>2, <1>4, <2>1, FS_Interval
<1>6. ASSUME NEW k \in 1..(Len(log) - Oldest + 1)
      PROVE  E!NthFilled(k) = m + k - 1
  <2>1. \A i \in E!Filled : Cardinality({j \in E!Filled : j <= i}) = i - m + 1
    <3> SUFFICES ASSUME NEW i \in m .. RingSize
                 PROVE  Cardinality({j \in E!Filled : j <= i}) = i - m + 1
      BY <1>4
    <3>1. {j \in E!Filled : j <= i} = m .. i
      BY <1>2, <1>4
    <3>2. m \in Int /\ i \in Int /\ m <= i
      BY <1>2
    <3>3. Cardinality(m .. i) = i - m + 1
      <4>1. Cardinality(m .. i) = IF m > i THEN 0 ELSE i - m + 1
        BY <3>2, FS_Interval
      <4> QED
        BY <3>2, <4>1
    <3> QED
      BY <3>1, <3>3
  <2>2. m + k - 1 \in E!Filled
    BY <1>1, <1>2, <1>4
  <2>3. \A i \in E!Filled : Cardinality({j \in E!Filled : j <= i}) = k <=> i = m + k - 1
    BY <1>1, <1>2, <1>4, <2>1
  <2> QED
    BY <2>2, <2>3, CardinalityIs DEF E!NthFilled
<1>7. ASSUME NEW k \in 1..(Len(log) - Oldest + 1)
      PROVE  E!Slot(E!NthFilled(k)) = log[Oldest + k - 1]
  <2>1. m + k - 1 \in 1..RingSize /\ m + k - 1 >= m /\ Len(log) - RingSize + (m + k - 1) = Oldest + k - 1
    BY <1>1, <1>2
  <2> QED
    BY <1>2, <1>6, <2>1 DEF RingInv, SlotInv
<1> QED
  BY <1>2, <1>5, <1>7, CardinalityIs DEF E!Buffered

LEMMA SubSeqIs ==
  ASSUME NEW q, NEW a \in Nat, NEW b \in Nat
  PROVE  SubSeq(q, a, b) = [k \in 1..(b - a + 1) |-> q[a + k - 1]]
OBVIOUS

\* A replay is the log from behind the event on, or from the oldest one in the ring on.
LEMMA ReplayIs ==
  ASSUME E!TypeOK, BusInv, RingInv, NEW n \in DOMAIN log
  PROVE  E!ReplaySince(log[n]) = SubSeq(log, IF n >= Oldest THEN n + 1 ELSE Oldest, Len(log))
<1> DEFINE B == E!Buffered
           at == {i \in DOMAIN B : B[i] = log[n]}
<1>1. Len(log) \in Nat /\ log \in Seq(E!Events) /\ n \in 1..Len(log)
  BY DEF E!TypeOK
<1>2. /\ Oldest \in 1..(Len(log) + 1)
      /\ B = [k \in 1..(Len(log) - Oldest + 1) |-> log[Oldest + k - 1]]
  BY BufferedIsTheEnd
<1>3. \A i, j \in 1..Len(log) : log[i] = log[j] => i = j
  BY <1>1 DEF BusInv
<1>4. B = SubSeq(log, Oldest, Len(log)) /\ DOMAIN B = 1..(Len(log) - Oldest + 1)
      /\ Len(B) = Len(log) - Oldest + 1
  BY <1>1, <1>2
<1>5. \A i \in DOMAIN B : B[i] = log[n] <=> Oldest + i - 1 = n
  BY <1>1, <1>2, <1>3
<1>6. CASE n >= Oldest
  <2>1. at = {n - Oldest + 1}
    <3>1. n - Oldest + 1 \in DOMAIN B
      BY <1>1, <1>2, <1>4, <1>6
    <3>2. ASSUME NEW i \in DOMAIN B
          PROVE  B[i] = log[n] <=> i = n - Oldest + 1
      <4>1. i \in Int /\ Oldest \in Int /\ n \in Int
        BY <1>1, <1>2, <1>4
      <4>2. Oldest + i - 1 = n <=> i = n - Oldest + 1
        BY <4>1
      <4> QED
        BY <1>5, <4>2
    <3> QED
      BY <3>1, <3>2
  <2>2. E!ReplaySince(log[n]) = SubSeq(B, n - Oldest + 2, Len(B))
    <3>1. at # {} /\ (CHOOSE i \in at : TRUE) = n - Oldest + 1
      BY <2>1
    <3>2. (n - Oldest + 1) + 1 = n - Oldest + 2
      BY <1>1, <1>2
    <3> QED
      BY <3>1, <3>2 DEF E!ReplaySince
  <2>3. SubSeq(B, n - Oldest + 2, Len(B)) = SubSeq(log, n + 1, Len(log))
    <3>1. SubSeq(B, n - Oldest + 2, Len(B)) = [k \in 1..(Len(log) - n) |-> B[n - Oldest + 2 + k - 1]]
      <4>1. n - Oldest + 2 \in Nat /\ Len(B) \in Nat /\ Len(B) - (n - Oldest + 2) + 1 = Len(log) - n
        BY <1>1, <1>2, <1>4, <1>6
      <4> QED
        BY SMTT(30), <4>1, SubSeqIs
    <3>2. SubSeq(log, n + 1, Len(log)) = [k \in 1..(Len(log) - n) |-> log[n + 1 + k - 1]]
      <4>1. n + 1 \in Nat /\ Len(log) - (n + 1) + 1 = Len(log) - n
        BY <1>1
      <4> QED
        BY SMTT(30), <1>1, <4>1, SubSeqIs
    <3>3. ASSUME NEW k \in 1..(Len(log) - n)
          PROVE  B[n - Oldest + 2 + k - 1] = log[n + 1 + k - 1]
      <4>1. /\ n - Oldest + 2 + k - 1 \in 1..(Len(log) - Oldest + 1)
            /\ Oldest + (n - Oldest + 2 + k - 1) - 1 = n + 1 + k - 1
        BY SMTT(30), <1>1, <1>2, <1>6
      <4> QED
        BY <1>2, <4>1
    <3> QED
      BY <3>1, <3>2, <3>3
  <2> QED
    BY <1>6, <2>2, <2>3
<1>7. CASE ~(n >= Oldest)
  <2>1. at = {}
    BY SMTT(30), <1>1, <1>2, <1>4, <1>5, <1>7
  <2> QED
    BY <1>4, <1>7, <2>1 DEF E!ReplaySince
<1> QED
  BY <1>6, <1>7

\* The head moves on by one slot: what it leaves is the last one, the others move up.
LEMMA HeadMoves ==
  ASSUME NEW h \in 0..(RingSize - 1), NEW g, g = (h + 1) % RingSize
  PROVE  /\ g \in 0..(RingSize - 1)
         /\ (g + RingSize - 1) % RingSize = h
         /\ \A i \in 1..(RingSize - 1) :
              /\ (g + i - 1) % RingSize = (h + (i + 1) - 1) % RingSize
              /\ (g + i - 1) % RingSize \in 0..(RingSize - 1)
              /\ (g + i - 1) % RingSize # h
<1> USE EventsNumbers
<1>1. CASE h + 1 < RingSize
  <2>1. g = h + 1
    <3>1. h + 1 \in 0 .. RingSize - 1
      BY <1>1
    <3> QED
      BY <3>1, SmallMod
  <2>2. g \in 0..(RingSize - 1) /\ RingSize \in 1..RingSize
    BY <1>1, <2>1
  <2>3. (g + RingSize - 1) % RingSize = h
    BY <2>1, <2>2, SlotAt
  <2>4. ASSUME NEW i \in 1..(RingSize - 1)
        PROVE  /\ (g + i - 1) % RingSize = (h + (i + 1) - 1) % RingSize
               /\ (g + i - 1) % RingSize \in 0..(RingSize - 1)
               /\ (g + i - 1) % RingSize # h
    <3>1. i \in 1..RingSize /\ g + i - 1 = h + (i + 1) - 1
      BY <2>1
    <3>2. (g + i - 1) % RingSize = IF g + i - 1 < RingSize THEN g + i - 1 ELSE g + i - 1 - RingSize
      BY <2>2, <3>1, SlotAt
    <3> QED
      BY <2>1, <3>1, <3>2
  <2> QED
    BY <2>2, <2>3, <2>4
<1>2. CASE ~(h + 1 < RingSize)
  <2>1. g = 0 /\ h = RingSize - 1
    <3>1. h = RingSize - 1 /\ h + 1 \in RingSize .. 2 * RingSize - 1
      BY <1>2
    <3> QED
      BY <3>1, SmallMod
  <2>2. g \in 0..(RingSize - 1) /\ RingSize \in 1..RingSize
    BY <2>1
  <2>3. (g + RingSize - 1) % RingSize = h
    BY <2>1, <2>2, SlotAt
  <2>4. ASSUME NEW i \in 1..(RingSize - 1)
        PROVE  /\ (g + i - 1) % RingSize = (h + (i + 1) - 1) % RingSize
               /\ (g + i - 1) % RingSize \in 0..(RingSize - 1)
               /\ (g + i - 1) % RingSize # h
    <3>1. i \in 1..RingSize /\ i + 1 \in 1..RingSize
      OBVIOUS
    <3>2. (g + i - 1) % RingSize = i - 1
      BY <2>1, <2>2, <3>1, SlotAt
    <3>3. (h + (i + 1) - 1) % RingSize = i - 1
      BY <2>1, <3>1, SlotAt
    <3> QED
      BY <2>1, <3>1, <3>2, <3>3
  <2> QED
    BY <2>2, <2>3, <2>4
<1> QED
  BY <1>1, <1>2

\* An event a client has received, or that is on its way to it, or accounted for.
Seen(e) ==
  e \in E!ToSet(gotEventBus) \cup E!ToSet(channel) \cup dropped \cup exposed \cup E!InHand

LEMMA MissesAre ==
  LET Misses ==
        client = "subscribed" =>
          \A i \in (resumed.from + 1)..Len(log) : Seen(log[i]) \/ i <= resumed.to - RingSize
  IN  (E!MissesAreAccounted <=> Misses) /\ (E!MissesAreAccounted' <=> Misses')
BY DEF E!MissesAreAccounted, Seen

\* A publisher that has an event in hand, and the events in hand.
LEMMA InHandIs ==
  ASSUME E!TypeOK, BusInv
  PROVE  /\ \A p \in Publishers : publisher[p].pc # "idle" => publisher[p].event \in E!InHand
         /\ \A e \in E!InHand : \E p \in Publishers : publisher[p].pc # "idle" /\ publisher[p].event = e
<1> USE EventsNumbers
<1>1. ASSUME NEW p \in Publishers, publisher[p].pc # "idle"
      PROVE  publisher[p].event \in E!InHand
  <2>1. publisher[p].event \in 1..seq
    BY <1>1 DEF BusInv, HandInv
  <2>2. publisher[p].event # 0
    BY <2>1 DEF E!TypeOK
  <2> QED
    BY <2>2 DEF E!InHand
<1>2. ASSUME NEW e \in E!InHand
      PROVE  \E p \in Publishers : publisher[p].pc # "idle" /\ publisher[p].event = e
  BY DEF E!InHand, BusInv, HandInv
<1> QED
  BY <1>1, <1>2

LEMMA EventsOrder == EventsInv => E!ReplayIsTheRest /\ E!OwnersOrderKept
<1> SUFFICES ASSUME EventsInv PROVE E!ReplayIsTheRest /\ E!OwnersOrderKept
  OBVIOUS
<1> USE EventsNumbers
<1>1. E!ReplayIsTheRest
  <2>1. ASSUME NEW n \in DOMAIN log
        PROVE  E!ReplaySince(log[n]) = SubSeq(log, IF n >= Oldest THEN n + 1 ELSE Oldest, Len(log))
    BY ReplayIs DEF EventsInv
  <2> QED
    BY <2>1 DEF E!ReplayIsTheRest, Oldest
<1>2. E!OwnersOrderKept
  BY DEF EventsInv, ArrivingInv, InOrder, E!OwnersOrderKept
<1> QED
  BY <1>1, <1>2

-----------------------------------------------------------------------------
Phases == [pc : {"idle", "store", "send"}, event : {0} \cup E!Events]

LEMMA EventsTypes ==
  ASSUME EventsInv
  PROVE  /\ seq \in 0..MaxEvents
         /\ publisher \in [Publishers -> Phases]
         /\ ring \in [0..(RingSize - 1) -> {0} \cup E!Events] /\ ringHead \in 0..(RingSize - 1)
         /\ channel \in Seq(E!Events) /\ Len(channel) <= ChanSize
         /\ client \in {"off", "replayed", "subscribed"}
         /\ client # "subscribed" => channel = <<>>
         /\ lastEventID \in {0} \cup E!Events /\ connects \in 0..MaxConnects
         /\ gotEventBus \in Seq(E!Events) /\ log \in Seq(E!Events) /\ owner \in Seq(Publishers)
         /\ dropped \subseteq E!Events /\ exposed \subseteq E!Events
         /\ resumed \in [from : Nat, to : Nat]
BY DEF EventsInv, E!TypeOK, Phases

LEMMA EventsKept ==
  /\ BusInv /\ UNCHANGED <<seq, publisher, owner, log>> => BusInv'
  /\ RingInv /\ UNCHANGED <<ring, ringHead, log>> => RingInv'
  /\ ArrivingInv /\ UNCHANGED <<lastEventID, gotEventBus, channel, log, owner>> => ArrivingInv'
BY DEF BusInv, HandInv, RingInv, SlotInv, ArrivingInv, InLog, InOrder, E!Slot

LEMMA EventsNumber ==
  ASSUME EventsInv, NEW p \in Publishers, E!Number(p)
  PROVE  EventsInv'
<1> USE EventsNumbers
<1>a. E!TypeOK /\ BusInv /\ RingInv /\ ArrivingInv /\ ReplayedInv /\ E!MissesAreAccounted
  BY DEF EventsInv
<1>t. /\ seq \in 0..MaxEvents /\ publisher \in [Publishers -> Phases]
      /\ log \in Seq(E!Events) /\ owner \in Seq(Publishers) /\ exposed \subseteq E!Events
  BY EventsTypes
<1>0. /\ UNCHANGED <<ring, ringHead, log, channel, dropped, client, lastEventID, connects,
                     gotEventBus, resumed>>
      /\ publisher[p] = E!Idle
      /\ publisher' = [publisher EXCEPT ![p] = [pc |-> "store", event |-> seq']]
      /\ owner' = Append(owner, p)
      /\ exposed' = IF client = "replayed" THEN exposed \cup {seq'} ELSE exposed
  BY DEF E!Number
<1>1. seq' = seq + 1 /\ seq' \in 0..MaxEvents /\ seq' \in E!Events
  BY <1>t DEF E!Number, E!Events
<1>2. /\ publisher' \in [Publishers -> Phases]
      /\ publisher'[p].pc = "store" /\ publisher'[p].event = seq'
      /\ \A q \in Publishers \ {p} : publisher'[q] = publisher[q]
  <2>1. [pc |-> "store", event |-> seq'] \in Phases
    BY <1>1 DEF Phases
  <2> QED
    BY <1>0, <1>t, <2>1
<1>3. /\ owner' \in Seq(Publishers) /\ Len(owner') = seq'
      /\ owner'[seq'] = p /\ \A e \in 1..seq : owner'[e] = owner[e]
  <2>1. Len(owner) = seq
    BY <1>a DEF BusInv
  <2> QED
    BY <1>0, <1>1, <1>t, <2>1
<1>4. E!TypeOK'
  <2>1. exposed' \subseteq E!Events
    BY <1>0, <1>1, <1>t
  <2> QED
    BY <1>a, <1>0, <1>1, <1>2, <1>3, <2>1 DEF E!TypeOK, Phases
<1>5. \A e : InLog(e) => e \in 1..seq
  BY <1>a DEF InLog, BusInv
<1>6. BusInv'
  <2>1. ASSUME NEW q \in Publishers
        PROVE  HandInv(q)'
    <3>1. CASE q = p
      <4>1. ~InLog(publisher[p].event)'
        <5>1. ~InLog(seq + 1)
          BY <1>5, <1>t
        <5> QED
          BY <1>0, <1>1, <1>2, <5>1 DEF InLog
      <4>2. seq' \in 1..seq' /\ \A f \in 1..seq' : f <= seq'
        BY <1>1, <1>t
      <4> QED
        BY <1>2, <1>3, <3>1, <4>1, <4>2 DEF HandInv
    <3>2. CASE q # p
      <4> DEFINE e == publisher[q].event
      <4>1. /\ publisher[q].pc = "idle" => e = 0
            /\ publisher[q].pc # "idle" =>
                 e \in 1..seq /\ owner[e] = q /\ \A f \in 1..seq : owner[f] = q => f <= e
            /\ publisher[q].pc = "store" => ~InLog(e)
            /\ publisher[q].pc = "send" => InLog(e)
        BY <1>a DEF BusInv, HandInv
      <4>2. publisher'[q] = publisher[q]
        BY <1>2, <3>2
      <4>3. \A f \in 1..seq' : owner'[f] = q => f \in 1..seq /\ owner[f] = q
        BY <1>1, <1>3, <1>t, <3>2
      <4>4. (InLog(publisher[q].event))' <=> InLog(e)
        BY <1>0, <4>2 DEF InLog
      <4>5. publisher[q].pc # "idle" => e \in 1..seq' /\ owner'[e] = q
        BY <1>1, <1>3, <1>t, <4>1
      <4> HIDE DEF e
      <4> QED
        BY <4>1, <4>2, <4>3, <4>4, <4>5 DEF e, HandInv
    <3> QED
      BY <3>1, <3>2
  <2>2. \A i \in DOMAIN log : log[i] \in 1..seq /\ log[i] \in 1..seq'
    BY <1>a, <1>1, <1>t DEF BusInv
  <2>3. ASSUME NEW i \in DOMAIN log', NEW j \in DOMAIN log', i < j
        PROVE  log'[i] # log'[j] /\ InOrder(log[i], log[j])'
    BY <1>a, <1>0, <1>3, <2>2, <2>3 DEF BusInv, InOrder
  <2> QED
    BY <1>0, <1>3, <2>1, <2>2, <2>3 DEF BusInv
<1>7. RingInv'
  BY <1>a, <1>0, EventsKept
<1>8. ArrivingInv'
  <2>1. ASSUME NEW e, NEW f, InLog(e), InLog(f), InOrder(e, f)
        PROVE  InOrder(e, f)'
    BY <1>3, <1>5, <2>1 DEF InOrder
  <2>2. \A e : InLog(e) => InLog(e)'
    BY <1>0 DEF InLog
  <2> HIDE DEF InLog, InOrder
  <2>3. ASSUME NEW i \in DOMAIN gotEventBus', NEW j \in DOMAIN gotEventBus', i < j
        PROVE  InOrder(gotEventBus[i], gotEventBus[j])'
    <3>1. InLog(gotEventBus[i]) /\ InLog(gotEventBus[j]) /\ InOrder(gotEventBus[i], gotEventBus[j])
      BY <1>a, <1>0, <2>3 DEF ArrivingInv
    <3> QED
      BY <1>0, <1>3, <1>5, <3>1 DEF InOrder
  <2>4. ASSUME NEW i \in DOMAIN channel', NEW j \in DOMAIN channel', i < j
        PROVE  InOrder(channel[i], channel[j])'
    <3>1. InLog(channel[i]) /\ InLog(channel[j]) /\ InOrder(channel[i], channel[j])
      BY <1>a, <1>0, <2>4 DEF ArrivingInv
    <3> QED
      BY <1>0, <1>3, <1>5, <3>1 DEF InOrder
  <2>5. ASSUME NEW i \in DOMAIN gotEventBus', NEW j \in DOMAIN channel'
        PROVE  InOrder(gotEventBus[i], channel[j])'
    <3>1. InLog(gotEventBus[i]) /\ InLog(channel[j]) /\ InOrder(gotEventBus[i], channel[j])
      BY <1>a, <1>0 DEF ArrivingInv
    <3> QED
      BY <1>0, <1>3, <1>5, <3>1 DEF InOrder
  <2>6. (lastEventID # 0 => InLog(lastEventID))'
        /\ (\A i \in DOMAIN gotEventBus : InLog(gotEventBus[i]))'
        /\ (\A i \in DOMAIN channel : InLog(channel[i]))'
    BY <1>a, <1>0 DEF ArrivingInv, InLog
  <2> QED
    BY <2>3, <2>4, <2>5, <2>6 DEF ArrivingInv
<1>9. E!InHand \subseteq E!InHand' /\ E!InHand' \subseteq E!InHand \cup {seq'}
  BY <1>0, <1>2 DEF E!InHand, E!Idle
<1>10. ReplayedInv'
  BY <1>a, <1>0, <1>9 DEF ReplayedInv, E!ToSet
<1>11. E!MissesAreAccounted'
  <2>1. exposed \subseteq exposed'
    BY <1>0
  <2>2. \A e : Seen(e) => Seen(e)'
    BY <1>0, <1>9, <2>1 DEF Seen, E!ToSet
  <2>3. UNCHANGED <<client, log, resumed>>
    BY <1>0
  <2> HIDE DEF Seen
  <2>4. ASSUME client' = "subscribed", NEW i \in (resumed'.from + 1)..Len(log')
        PROVE  Seen(log[i])' \/ i <= resumed'.to - RingSize
    <3>1. Seen(log[i]) \/ i <= resumed.to - RingSize
      BY <1>a, <2>3, <2>4, MissesAre
    <3> QED
      BY <1>0, <1>9, <2>1, <3>1 DEF Seen, E!ToSet
  <2> QED
    BY <2>4, MissesAre
<1> QED
  BY <1>4, <1>6, <1>7, <1>8, <1>10, <1>11 DEF EventsInv

LEMMA EventsStore ==
  ASSUME EventsInv, NEW p \in Publishers, E!Store(p)
  PROVE  EventsInv'
<1> USE EventsNumbers
<1> DEFINE n == Len(log)
<1>a. E!TypeOK /\ BusInv /\ RingInv /\ ArrivingInv /\ ReplayedInv /\ E!MissesAreAccounted
  BY DEF EventsInv
<1>t. /\ seq \in 0..MaxEvents /\ publisher \in [Publishers -> Phases]
      /\ ring \in [0..(RingSize - 1) -> {0} \cup E!Events] /\ ringHead \in 0..(RingSize - 1)
      /\ log \in Seq(E!Events) /\ n \in Nat /\ DOMAIN log = 1..n
      /\ resumed \in [from : Nat, to : Nat]
  BY EventsTypes
<1>0. /\ UNCHANGED <<seq, owner, channel, dropped, client, lastEventID, connects, gotEventBus,
                     exposed, resumed>>
      /\ publisher[p].pc = "store"
      /\ publisher' = [publisher EXCEPT ![p].pc = "send"]
      /\ ringHead' = (ringHead + 1) % RingSize
  BY DEF E!Store, E!clientVars
<1>e. PICK e \in 1..seq :
        /\ publisher[p].event = e /\ owner[e] = p /\ ~InLog(e)
        /\ \A f \in 1..seq : owner[f] = p => f <= e
        /\ ring' = [ring EXCEPT ![ringHead] = e] /\ log' = Append(log, e)
  BY <1>a DEF BusInv, HandInv, E!Store
<1>1. /\ e \in E!Events
      /\ log' \in Seq(E!Events) /\ Len(log') = n + 1 /\ DOMAIN log' = 1..(n + 1)
      /\ log'[n + 1] = e /\ \A i \in 1..n : log'[i] = log[i]
  BY <1>t, <1>e DEF E!Events
<1>2. /\ publisher' \in [Publishers -> Phases]
      /\ publisher'[p].pc = "send" /\ publisher'[p].event = e
      /\ \A q \in Publishers \ {p} : publisher'[q] = publisher[q]
  BY <1>0, <1>e, <1>t DEF Phases
<1>3. /\ ringHead' \in 0..(RingSize - 1)
      /\ (ringHead' + RingSize - 1) % RingSize = ringHead
      /\ \A i \in 1..(RingSize - 1) :
           /\ (ringHead' + i - 1) % RingSize = (ringHead + (i + 1) - 1) % RingSize
           /\ (ringHead' + i - 1) % RingSize \in 0..(RingSize - 1)
           /\ (ringHead' + i - 1) % RingSize # ringHead
  BY <1>0, <1>t, HeadMoves
<1>4. E!TypeOK'
  <2>1. ring' \in [0..(RingSize - 1) -> {0} \cup E!Events]
    BY <1>1, <1>e, <1>t
  <2> QED
    BY <1>a, <1>0, <1>1, <1>2, <1>3, <2>1 DEF E!TypeOK, Phases
<1> HIDE DEF n
<1>5. /\ \A i \in 1..n : log[i] # e /\ log[i] \in 1..seq
      /\ \A f : InLog(f) => InLog(f)'
      /\ InLog(e)'
      /\ \A f : f # e => (InLog(f)' <=> InLog(f))
  <2>1. \A i \in 1..n : log[i] # e /\ log[i] \in 1..seq
    BY <1>a, <1>e, <1>t DEF BusInv, InLog
  <2>2. ASSUME NEW f, InLog(f)
        PROVE  InLog(f)'
    <3>1. PICK i \in 1..n : log[i] = f
      BY <1>t, <2>2 DEF InLog
    <3>2. i \in DOMAIN log' /\ log'[i] = f
      BY <1>1, <1>t, <3>1
    <3> QED
      BY <3>2 DEF InLog
  <2>3. InLog(e)'
    <3>1. n + 1 \in DOMAIN log'
      BY <1>1, <1>t
    <3> QED
      BY <1>1, <3>1 DEF InLog
  <2>4. ASSUME NEW f, f # e, InLog(f)'
        PROVE  InLog(f)
    <3>1. PICK i \in 1..(n + 1) : log'[i] = f
      BY <1>1, <2>4 DEF InLog
    <3>2. i \in 1..n
      BY <1>1, <1>t, <2>4, <3>1
    <3> QED
      BY <1>1, <1>t, <3>1, <3>2 DEF InLog
  <2> QED
    BY <2>1, <2>2, <2>3, <2>4
<1>6. BusInv'
  <2>1. ASSUME NEW q \in Publishers
        PROVE  HandInv(q)'
    <3>1. CASE q = p
      BY <1>0, <1>2, <1>5, <1>e, <3>1 DEF HandInv
    <3>2. CASE q # p
      <4>1. HandInv(q)
        BY <1>a DEF BusInv
      <4>2. PICK x : x = publisher[q].event
        OBVIOUS
      <4>3. publisher'[q] = publisher[q]
        BY <1>2, <3>2
      <4>4. publisher[q].pc # "idle" => x # e
        BY <1>e, <3>2, <4>1, <4>2 DEF HandInv
      <4>5. publisher[q].pc # "idle" => (InLog(x)' <=> InLog(x))
        BY <1>5, <4>4
      <4>6. (InLog(publisher[q].event))' <=> InLog(x)'
        BY <4>2, <4>3 DEF InLog
      <4> QED
        BY <1>0, <4>1, <4>2, <4>3, <4>5, <4>6 DEF HandInv
    <3> QED
      BY <3>1, <3>2
  <2>2. ASSUME NEW i \in DOMAIN log'
        PROVE  log'[i] \in 1..seq'
    <3>1. CASE i = n + 1
      BY <1>0, <1>1, <3>1
    <3>2. CASE i \in 1..n
      BY <1>0, <1>1, <1>5, <3>2
    <3> QED
      BY <1>1, <1>t, <3>1, <3>2
  <2>3. ASSUME NEW i \in DOMAIN log', NEW j \in DOMAIN log', i < j
        PROVE  log'[i] # log'[j] /\ InOrder(log[i], log[j])'
    <3>1. i \in 1..n /\ log'[i] = log[i]
      BY <1>1, <1>t, <2>3
    <3>2. CASE j = n + 1
      <4>1. log[i] # e /\ (owner[log[i]] = p => log[i] <= e)
        BY <1>5, <1>e, <3>1
      <4> QED
        BY <1>0, <1>1, <1>e, <3>1, <3>2, <4>1 DEF InOrder
    <3>3. CASE j \in 1..n
      <4>1. log[i] # log[j] /\ InOrder(log[i], log[j]) /\ log'[j] = log[j]
        BY <1>a, <1>1, <1>t, <2>3, <3>1, <3>3 DEF BusInv
      <4> QED
        BY <1>0, <3>1, <4>1 DEF InOrder
    <3> QED
      BY <1>1, <1>t, <3>2, <3>3
  <2> QED
    BY <1>a, <1>0, <2>1, <2>2, <2>3 DEF BusInv
<1>7. RingInv'
  <2> SUFFICES ASSUME NEW i \in 1..RingSize
               PROVE  SlotInv(i)'
    BY DEF RingInv
  <2>0. SUFFICES /\ n + 1 + i > RingSize => E!Slot(i)' = log'[n + 1 - RingSize + i]
                 /\ n + 1 + i <= RingSize => E!Slot(i)' = 0
    <3>1. Len(log') = n + 1 /\ n \in Nat
      BY <1>1, <1>t
    <3> QED
      BY <3>1 DEF SlotInv
  <2>1. CASE i = RingSize
    <3>1. E!Slot(i)' = e
      BY <1>3, <1>e, <1>t, <2>1 DEF E!Slot
    <3>2. n + 1 - RingSize + i = n + 1 /\ n + 1 + i > RingSize
      BY <1>t, <2>1
    <3> QED
      BY <1>1, <3>1, <3>2
  <2>2. CASE i # RingSize
    <3>1. i \in 1..(RingSize - 1) /\ i + 1 \in 1..RingSize
      BY <2>2
    <3>2. E!Slot(i)' = E!Slot(i + 1)
      BY <1>3, <1>e, <1>t, <3>1 DEF E!Slot
    <3>3. /\ n + (i + 1) > RingSize => E!Slot(i + 1) = log[n - RingSize + (i + 1)]
          /\ n + (i + 1) <= RingSize => E!Slot(i + 1) = 0
      BY <1>a, <3>1 DEF RingInv, SlotInv, n
    <3>4. CASE n + 1 + i > RingSize
      <4>1. /\ n + (i + 1) > RingSize /\ n - RingSize + (i + 1) = n + 1 - RingSize + i
            /\ n + 1 - RingSize + i \in 1..n
        BY <1>t, <3>1, <3>4
      <4> QED
        BY <1>1, <3>2, <3>3, <3>4, <4>1
    <3>5. CASE ~(n + 1 + i > RingSize)
      <4>1. n + (i + 1) <= RingSize
        BY <1>t, <3>1, <3>5
      <4> QED
        BY <3>2, <3>3, <3>5, <4>1
    <3> QED
      BY <3>4, <3>5
  <2> QED
    BY <2>1, <2>2
<1>8. ArrivingInv'
  <2>1. ASSUME NEW i \in DOMAIN gotEventBus'
        PROVE  InLog(gotEventBus[i])'
    <3>1. PICK x : x = gotEventBus[i]
      OBVIOUS
    <3>2. InLog(x)'
      BY <1>a, <1>0, <1>5, <3>1 DEF ArrivingInv
    <3> QED
      BY <1>0, <3>1, <3>2 DEF InLog
  <2>2. ASSUME NEW i \in DOMAIN channel'
        PROVE  InLog(channel[i])'
    <3>1. PICK x : x = channel[i]
      OBVIOUS
    <3>2. InLog(x)'
      BY <1>a, <1>0, <1>5, <3>1 DEF ArrivingInv
    <3> QED
      BY <1>0, <3>1, <3>2 DEF InLog
  <2>3. (lastEventID # 0 => InLog(lastEventID))'
    <3>1. PICK x : x = lastEventID
      OBVIOUS
    <3>2. x # 0 => InLog(x)'
      BY <1>a, <1>5, <3>1 DEF ArrivingInv
    <3> QED
      BY <1>0, <3>1, <3>2 DEF InLog
  <2> QED
    BY <1>a, <1>0, <2>1, <2>2, <2>3 DEF ArrivingInv, InOrder
<1>9. E!InHand' = E!InHand /\ e \in E!InHand
  <2>1. \A q \in Publishers : publisher'[q].event = publisher[q].event
    BY <1>2, <1>e
  <2>2. E!InHand' = E!InHand
    BY <2>1 DEF E!InHand
  <2>3. e # 0
    BY <1>t
  <2> QED
    BY <1>e, <2>2, <2>3 DEF E!InHand
<1>f. resumed.from \in Nat
  BY <1>t
<1>10. ReplayedInv'
  <2> SUFFICES ASSUME client = "replayed"
               PROVE  /\ E!InHand' \subseteq exposed
                      /\ \A i \in (resumed.from + 1)..(n + 1) :
                           log'[i] \in E!ToSet(gotEventBus) \cup exposed \/ i <= resumed.to - RingSize
    BY <1>0, <1>1 DEF ReplayedInv, E!ToSet
  <2>1. E!InHand \subseteq exposed
    BY <1>a DEF ReplayedInv
  <2>2. ASSUME NEW i \in (resumed.from + 1)..(n + 1)
        PROVE  log'[i] \in E!ToSet(gotEventBus) \cup exposed \/ i <= resumed.to - RingSize
    <3>1. CASE i = n + 1
      BY <1>1, <1>9, <2>1, <3>1
    <3>2. CASE i # n + 1
      <4>1. i \in (resumed.from + 1)..n /\ i \in 1..n
        BY <1>t, <1>f, <3>2
      <4> QED
        BY <1>a, <1>1, <4>1 DEF ReplayedInv, n
    <3> QED
      BY <3>1, <3>2
  <2> QED
    BY <1>9, <2>1, <2>2
<1>11. E!MissesAreAccounted'
  <2>1. ASSUME client' = "subscribed", NEW i \in (resumed'.from + 1)..Len(log')
        PROVE  Seen(log[i])' \/ i <= resumed'.to - RingSize
    <3>1. CASE i = n + 1
      BY <1>1, <1>9, <3>1 DEF Seen
    <3>2. CASE i # n + 1
      <4>1. i \in (resumed.from + 1)..n /\ i \in 1..n
        <5>1. i \in (resumed.from + 1)..(n + 1)
          BY <1>0, <1>1, <2>1
        <5>2. n \in Nat
          BY <1>t
        <5> QED
          BY <1>f, <3>2, <5>1, <5>2
      <4>2. Seen(log[i]) \/ i <= resumed.to - RingSize
        BY <1>a, <1>0, <2>1, <4>1, MissesAre DEF n
      <4> QED
        BY <1>0, <1>1, <1>9, <4>1, <4>2 DEF Seen, E!ToSet
    <3> QED
      BY <3>1, <3>2
  <2> QED
    BY <2>1, MissesAre
<1> QED
  BY <1>4, <1>6, <1>7, <1>8, <1>10, <1>11 DEF EventsInv

LEMMA EventsSend ==
  ASSUME EventsInv, NEW p \in Publishers, E!Send(p)
  PROVE  EventsInv'
<1> USE EventsNumbers
<1>a. E!TypeOK /\ BusInv /\ RingInv /\ ArrivingInv /\ ReplayedInv /\ E!MissesAreAccounted
  BY DEF EventsInv
<1>t. /\ seq \in 0..MaxEvents /\ publisher \in [Publishers -> Phases]
      /\ channel \in Seq(E!Events) /\ Len(channel) <= ChanSize
      /\ gotEventBus \in Seq(E!Events) /\ dropped \subseteq E!Events
      /\ client # "subscribed" => channel = <<>>
  BY EventsTypes
<1>0. /\ UNCHANGED <<seq, ring, ringHead, log, owner, client, lastEventID, connects, gotEventBus,
                     exposed, resumed>>
      /\ publisher[p].pc = "send"
      /\ publisher' = [publisher EXCEPT ![p] = E!Idle]
  BY DEF E!Send, E!clientVars
<1>e. PICK e \in 1..seq :
        /\ publisher[p].event = e /\ InLog(e)
        /\ \A f \in 1..seq : owner[f] = p => f <= e
        /\ owner[e] = p
        /\ \/ client # "subscribed" /\ UNCHANGED <<channel, dropped>>
           \/ /\ client = "subscribed" /\ Len(channel) < ChanSize
              /\ channel' = Append(channel, e) /\ UNCHANGED dropped
           \/ client = "subscribed" /\ dropped' = dropped \cup {e} /\ UNCHANGED channel
  BY <1>a DEF BusInv, HandInv, E!Send
<1>1. e \in E!Events
  BY <1>t, <1>e DEF E!Events
<1>2. /\ publisher' \in [Publishers -> Phases]
      /\ publisher'[p] = E!Idle
      /\ \A q \in Publishers \ {p} : publisher'[q] = publisher[q]
  <2>1. E!Idle \in Phases
    BY DEF E!Idle, Phases
  <2> QED
    BY <1>0, <1>t, <2>1
<1>3. /\ channel' \in Seq(E!Events) /\ Len(channel') <= ChanSize
      /\ client # "subscribed" => channel' = <<>>
      /\ \A i \in DOMAIN channel' :
           \/ i \in DOMAIN channel /\ i <= Len(channel) /\ channel'[i] = channel[i]
           \/ i = Len(channel) + 1 /\ channel'[i] = e
      /\ \A i \in DOMAIN channel : i \in DOMAIN channel' /\ channel'[i] = channel[i]
      /\ \A i \in DOMAIN channel : i \in Nat
      /\ Len(channel) \in Nat
  <2>1. CASE UNCHANGED channel
    BY <1>t, <2>1
  <2>2. CASE client = "subscribed" /\ Len(channel) < ChanSize /\ channel' = Append(channel, e)
    BY <1>1, <1>t, <2>2, AppendedTo
  <2> QED
    BY <1>e, <2>1, <2>2
<1>4. E!TypeOK'
  <2>1. dropped' \subseteq E!Events
    BY <1>1, <1>e, <1>t
  <2> QED
    BY <1>a, <1>0, <1>2, <1>3, <2>1 DEF E!TypeOK, Phases
<1>5. BusInv'
  <2>1. ASSUME NEW q \in Publishers
        PROVE  HandInv(q)'
    <3>1. CASE q = p
      BY <1>2, <3>1 DEF HandInv, E!Idle
    <3>2. CASE q # p
      <4>1. HandInv(q) /\ publisher'[q] = publisher[q]
        BY <1>a, <1>2, <3>2 DEF BusInv
      <4> QED
        BY <1>0, <4>1 DEF HandInv, InLog
    <3> QED
      BY <3>1, <3>2
  <2> QED
    BY <1>a, <1>0, <2>1 DEF BusInv, InOrder
<1>6. RingInv'
  BY <1>a, <1>0, EventsKept
<1>7. ArrivingInv'
  <2>1. \A f : InLog(f) => InOrder(f, e)
    BY <1>a, <1>e DEF InLog, InOrder, BusInv
  <2>2. ASSUME NEW i \in DOMAIN channel'
        PROVE  InLog(channel[i])'
    <3>1. InLog(channel'[i])
      BY <1>a, <1>3, <1>e DEF ArrivingInv
    <3> QED
      BY <1>0, <3>1 DEF InLog
  <2>3. ASSUME NEW i \in DOMAIN channel', NEW j \in DOMAIN channel', i < j
        PROVE  InOrder(channel[i], channel[j])'
    <3>1. i \in DOMAIN channel /\ channel'[i] = channel[i]
      BY <1>3, <2>3
    <3>2. InOrder(channel[i], channel'[j])
      <4>1. CASE j \in DOMAIN channel /\ channel'[j] = channel[j]
        BY <1>a, <2>3, <3>1, <4>1 DEF ArrivingInv
      <4>2. CASE channel'[j] = e
        BY <1>a, <2>1, <3>1, <4>2 DEF ArrivingInv
      <4> QED
        BY <1>3, <4>1, <4>2
    <3> QED
      BY <1>0, <3>1, <3>2 DEF InOrder
  <2>4. ASSUME NEW i \in DOMAIN gotEventBus', NEW j \in DOMAIN channel'
        PROVE  InOrder(gotEventBus[i], channel[j])'
    <3>1. i \in DOMAIN gotEventBus /\ gotEventBus' = gotEventBus
      BY <1>0
    <3>2. InOrder(gotEventBus[i], channel'[j])
      <4>1. CASE j \in DOMAIN channel /\ channel'[j] = channel[j]
        BY <1>a, <3>1, <4>1 DEF ArrivingInv
      <4>2. CASE channel'[j] = e
        BY <1>a, <2>1, <3>1, <4>2 DEF ArrivingInv
      <4> QED
        BY <1>3, <4>1, <4>2
    <3> QED
      BY <1>0, <3>1, <3>2 DEF InOrder
  <2>5. /\ (lastEventID # 0 => InLog(lastEventID))'
        /\ (\A i \in DOMAIN gotEventBus : InLog(gotEventBus[i]))'
        /\ (\A i, j \in DOMAIN gotEventBus : i < j => InOrder(gotEventBus[i], gotEventBus[j]))'
    BY <1>a, <1>0 DEF ArrivingInv, InLog, InOrder
  <2> QED
    BY <2>2, <2>3, <2>4, <2>5 DEF ArrivingInv
<1>8. E!InHand' \subseteq E!InHand /\ E!InHand \subseteq E!InHand' \cup {e}
  <2>1. \A q \in Publishers : q # p => publisher'[q].event = publisher[q].event
    BY <1>2
  <2>2. publisher'[p].event = 0
    BY <1>2 DEF E!Idle
  <2> QED
    BY <1>e, <2>1, <2>2 DEF E!InHand
<1>9. ReplayedInv'
  BY <1>a, <1>0, <1>8 DEF ReplayedInv, E!ToSet
<1>10. E!MissesAreAccounted'
  <2>1. ASSUME client' = "subscribed", NEW i \in (resumed'.from + 1)..Len(log')
        PROVE  Seen(log[i])' \/ i <= resumed'.to - RingSize
    <3>1. Seen(log[i]) \/ i <= resumed.to - RingSize
      BY <1>a, <1>0, <2>1, MissesAre
    <3>2. E!ToSet(channel) \subseteq E!ToSet(channel)' /\ dropped \subseteq dropped'
      BY <1>3, <1>e DEF E!ToSet
    <3>3. e \in E!ToSet(channel)' \cup dropped'
      <4>1. CASE channel' = Append(channel, e)
        <5>1. Len(channel) + 1 \in DOMAIN channel' /\ channel'[Len(channel) + 1] = e
          BY <1>t, <4>1
        <5> QED
          BY <5>1 DEF E!ToSet
      <4>2. CASE dropped' = dropped \cup {e}
        BY <4>2
      <4> QED
        BY <1>0, <1>e, <2>1, <4>1, <4>2
    <3>4. CASE Seen(log[i])
      BY <1>0, <1>8, <3>2, <3>3, <3>4 DEF Seen, E!ToSet
    <3> QED
      BY <1>0, <3>1, <3>4
  <2> QED
    BY <2>1, MissesAre
<1> QED
  BY <1>4, <1>5, <1>6, <1>7, <1>9, <1>10 DEF EventsInv

LEMMA EventsConnect ==
  ASSUME EventsInv, E!Connect
  PROVE  EventsInv'
<1> USE EventsNumbers
<1> DEFINE n == Len(log)
           last == IF lastEventID = 0 THEN n ELSE CHOOSE i \in DOMAIN log : log[i] = lastEventID
           first == IF last >= Oldest THEN last + 1 ELSE Oldest
<1>a. E!TypeOK /\ BusInv /\ RingInv /\ ArrivingInv /\ ReplayedInv /\ E!MissesAreAccounted
  BY DEF EventsInv
<1>t. /\ log \in Seq(E!Events) /\ n \in Nat /\ DOMAIN log = 1..n
      /\ client # "subscribed" => channel = <<>>
      /\ connects \in 0..MaxConnects
  BY EventsTypes
<1>0. /\ UNCHANGED <<seq, publisher, ring, ringHead, log, owner, channel, dropped, lastEventID>>
      /\ client = "off" /\ client' = "replayed"
      /\ channel = <<>>
      /\ exposed' = E!InHand
      /\ connects' \in 0..MaxConnects
  BY <1>t DEF E!Connect, E!busVars
<1>1. last \in 0..n /\ (lastEventID # 0 => last \in DOMAIN log /\ log[last] = lastEventID)
  <2>1. CASE lastEventID = 0
    BY <1>t, <2>1
  <2>2. CASE lastEventID # 0
    <3>1. \E i \in DOMAIN log : log[i] = lastEventID
      BY <1>a, <2>2 DEF ArrivingInv, InLog
    <3> QED
      BY <1>t, <2>2, <3>1
  <2> QED
    BY <2>1, <2>2
<1>2. resumed' = [from |-> last, to |-> n]
  BY DEF E!Connect
<1> HIDE DEF last
<1>3. Oldest \in 1..(n + 1)
  BY <1>a, BufferedIsTheEnd
<1>4. first \in 1..(n + 1)
  BY <1>1, <1>3, <1>t
\* What the client has got is a piece of the log.
<1>5. \/ gotEventBus' = <<>> /\ last = n
      \/ gotEventBus' = [k \in 1..(n - first + 1) |-> log[first + k - 1]]
  <2>1. CASE lastEventID = 0
    BY <2>1 DEF E!Connect, last
  <2>2. CASE lastEventID # 0
    <3>1. gotEventBus' = SubSeq(log, first, n)
      BY <1>1, <1>a, <2>2, ReplayIs DEF E!Connect
    <3>2. first \in Nat /\ n \in Nat
      BY <1>4, <1>t
    <3> HIDE DEF first, n
    <3> QED
      BY <3>1, <3>2, SubSeqIs
  <2> QED
    BY <2>1, <2>2
<1> HIDE DEF n, first
<1>6. /\ gotEventBus' \in Seq(E!Events)
      /\ \A i \in DOMAIN gotEventBus' :
           i \in Nat /\ first + i - 1 \in 1..n /\ gotEventBus'[i] = log[first + i - 1]
  <2>1. CASE gotEventBus' = <<>>
    BY <2>1
  <2>2. CASE gotEventBus' = [k \in 1..(n - first + 1) |-> log[first + k - 1]]
    <3>1. \A k \in 1..(n - first + 1) : first + k - 1 \in 1..n
      BY <1>4, <1>t
    <3>2. \A k \in 1..(n - first + 1) : log[first + k - 1] \in E!Events
      BY <1>t, <3>1
    <3>3. n - first + 1 \in Nat
      BY <1>4, <1>t
    <3>4. gotEventBus' \in Seq(E!Events) /\ DOMAIN gotEventBus' = 1..(n - first + 1)
      BY <2>2, <3>2, <3>3
    <3> QED
      BY <2>2, <3>1, <3>4
  <2> QED
    BY <1>5, <2>1, <2>2
<1>7. E!InHand \subseteq E!Events
  <2>1. \A e \in E!InHand : \E p \in Publishers : publisher[p].event = e /\ e # 0
    BY DEF E!InHand
  <2>2. \A p \in Publishers : publisher[p].event \in {0} \cup E!Events
    BY EventsTypes DEF Phases
  <2> QED
    BY <2>1, <2>2
<1>8. E!TypeOK'
  <2>1. resumed' \in [from : Nat, to : Nat]
    BY <1>1, <1>2, <1>t
  <2> QED
    BY <1>a, <1>0, <1>6, <1>7, <2>1 DEF E!TypeOK
<1>9. BusInv' /\ RingInv'
  BY <1>a, <1>0, EventsKept
<1>10. ArrivingInv'
  <2>1. ASSUME NEW i \in DOMAIN gotEventBus'
        PROVE  InLog(gotEventBus[i])'
    BY <1>0, <1>6, <1>t DEF InLog
  <2>2. ASSUME NEW i \in DOMAIN gotEventBus', NEW j \in DOMAIN gotEventBus', i < j
        PROVE  InOrder(gotEventBus[i], gotEventBus[j])'
    <3>1. PICK x, y : x = first + i - 1 /\ y = first + j - 1
      OBVIOUS
    <3>2. x \in DOMAIN log /\ y \in DOMAIN log /\ x < y
      BY SMTT(30), <1>4, <1>6, <1>t, <2>2, <3>1
    <3>3. InOrder(log[x], log[y])
      BY <1>a, <3>2 DEF BusInv
    <3>4. gotEventBus'[i] = log[x] /\ gotEventBus'[j] = log[y]
      BY <1>6, <3>1
    <3> QED
      BY <1>0, <3>3, <3>4 DEF InOrder
  <2>3. (lastEventID # 0 => InLog(lastEventID))'
    BY <1>a, <1>0 DEF ArrivingInv, InLog
  <2>4. channel' = <<>>
    BY <1>0
  <2> QED
    BY <2>1, <2>2, <2>3, <2>4 DEF ArrivingInv
<1>11. ReplayedInv'
  <2>1. E!InHand' = E!InHand
    BY <1>0 DEF E!InHand
  <2>2. ASSUME NEW i \in (last + 1)..n
        PROVE  log[i] \in E!ToSet(gotEventBus)' \/ i <= n - RingSize
    <3>1. CASE i >= first
      <4>1. gotEventBus' = [k \in 1..(n - first + 1) |-> log[first + k - 1]]
        BY <1>1, <1>5, <1>t, <2>2
      <4>2. i - first + 1 \in 1..(n - first + 1) /\ first + (i - first + 1) - 1 = i
        BY <1>1, <1>4, <1>t, <3>1
      <4>3. i - first + 1 \in DOMAIN gotEventBus' /\ gotEventBus'[i - first + 1] = log[i]
        BY <4>1, <4>2
      <4> QED
        BY <4>3 DEF E!ToSet
    <3>2. CASE ~(i >= first)
      <4>1. i < Oldest /\ i \in Nat /\ i >= 1
        BY <1>1, <1>3, <1>t, <2>2, <3>2 DEF first
      <4> QED
        BY <1>t, <4>1 DEF Oldest, n
    <3> QED
      BY <3>1, <3>2
  <2>3. resumed'.from = last /\ resumed'.to = n /\ Len(log') = n /\ log' = log
    BY <1>0, <1>2 DEF n
  <2> QED
    BY <1>0, <2>1, <2>2, <2>3 DEF ReplayedInv
<1>12. E!MissesAreAccounted'
  BY <1>0 DEF E!MissesAreAccounted
<1> QED
  BY <1>8, <1>9, <1>10, <1>11, <1>12 DEF EventsInv

LEMMA EventsClient ==
  ASSUME EventsInv, E!Subscribe \/ E!Receive \/ E!Disconnect
  PROVE  EventsInv'
<1> USE EventsNumbers
<1>a. E!TypeOK /\ BusInv /\ RingInv /\ ArrivingInv /\ ReplayedInv /\ E!MissesAreAccounted
  BY DEF EventsInv
<1>t. /\ channel \in Seq(E!Events) /\ Len(channel) <= ChanSize
      /\ lastEventID \in {0} \cup E!Events
      /\ gotEventBus \in Seq(E!Events)
  BY EventsTypes
<1>0. UNCHANGED <<seq, publisher, ring, ringHead, log, owner, connects, exposed, resumed>>
  BY DEF E!Subscribe, E!Receive, E!Disconnect, E!busVars
<1>1. BusInv' /\ RingInv'
  BY <1>a, <1>0, EventsKept
<1>h. E!InHand' = E!InHand
  BY <1>0 DEF E!InHand
<1>2. CASE E!Subscribe
  <2>1. /\ UNCHANGED <<lastEventID, gotEventBus>> /\ client = "replayed"
        /\ client' = "subscribed" /\ channel' = <<>> /\ dropped' = {}
    BY <1>2 DEF E!Subscribe
  <2>2. E!TypeOK'
    BY <1>a, <1>0, <2>1 DEF E!TypeOK
  <2>3. ArrivingInv'
    BY <1>a, <1>0, <2>1 DEF ArrivingInv, InLog, InOrder
  <2>4. ReplayedInv'
    BY <2>1 DEF ReplayedInv
  <2>5. E!MissesAreAccounted'
    <3>1. ASSUME NEW i \in (resumed.from + 1)..Len(log)
          PROVE  Seen(log[i])' \/ i <= resumed.to - RingSize
      BY <1>a, <1>0, <2>1 DEF ReplayedInv, Seen, E!ToSet
    <3> QED
      BY <1>0, <3>1, MissesAre
  <2> QED
    BY <1>1, <2>2, <2>3, <2>4, <2>5 DEF EventsInv
<1>3. CASE E!Receive
  <2>1. /\ UNCHANGED <<lastEventID, dropped, client>> /\ client = "subscribed" /\ channel # <<>>
        /\ channel' = Tail(channel) /\ gotEventBus' = Append(gotEventBus, Head(channel))
    BY <1>3 DEF E!Receive
  <2>2. /\ channel' \in Seq(E!Events) /\ Len(channel') <= ChanSize
        /\ Head(channel) \in E!Events /\ Head(channel) = channel[1] /\ 1 \in DOMAIN channel
        /\ \A i \in DOMAIN channel' :
             i + 1 \in DOMAIN channel /\ channel'[i] = channel[i + 1] /\ 1 < i + 1
        /\ \A i \in DOMAIN channel : i = 1 \/ (i - 1 \in DOMAIN channel' /\ channel'[i - 1] = channel[i])
    BY <1>t, <2>1, TailOf
  <2>3. /\ gotEventBus' \in Seq(E!Events)
        /\ \A i \in DOMAIN gotEventBus' :
             \/ i \in DOMAIN gotEventBus /\ i <= Len(gotEventBus) /\ gotEventBus'[i] = gotEventBus[i]
             \/ i = Len(gotEventBus) + 1 /\ gotEventBus'[i] = channel[1]
        /\ \A i \in DOMAIN gotEventBus :
             i \in Nat /\ i \in DOMAIN gotEventBus' /\ gotEventBus'[i] = gotEventBus[i]
        /\ Len(gotEventBus) \in Nat
        /\ Len(gotEventBus) + 1 \in DOMAIN gotEventBus'
        /\ gotEventBus'[Len(gotEventBus) + 1] = channel[1]
    BY SMTT(30), <1>t, <2>1, <2>2
  <2>4. E!TypeOK'
    BY <1>a, <1>0, <2>1, <2>2, <2>3 DEF E!TypeOK
  <2>5. ArrivingInv'
    <3>1. \A e : InLog(e)' <=> InLog(e)
      BY <1>0 DEF InLog
    <3>2. ASSUME NEW i \in DOMAIN gotEventBus'
          PROVE  InLog(gotEventBus[i])'
      <4>1. InLog(gotEventBus'[i])
        BY <1>a, <2>2, <2>3 DEF ArrivingInv
      <4> QED
        BY <1>0, <4>1 DEF InLog
    <3>3. ASSUME NEW i \in DOMAIN channel'
          PROVE  InLog(channel[i])'
      <4>1. InLog(channel'[i])
        BY <1>a, <2>2 DEF ArrivingInv
      <4> QED
        BY <1>0, <4>1 DEF InLog
    <3>4. ASSUME NEW i \in DOMAIN gotEventBus', NEW j \in DOMAIN gotEventBus', i < j
          PROVE  InOrder(gotEventBus[i], gotEventBus[j])'
      <4>1. i \in DOMAIN gotEventBus /\ gotEventBus'[i] = gotEventBus[i]
        BY <2>3, <3>4
      <4>2. InOrder(gotEventBus[i], gotEventBus'[j])
        BY <1>a, <2>2, <2>3, <3>4, <4>1 DEF ArrivingInv
      <4> QED
        BY <1>0, <4>1, <4>2 DEF InOrder
    <3>5. ASSUME NEW i \in DOMAIN channel', NEW j \in DOMAIN channel', i < j
          PROVE  InOrder(channel[i], channel[j])'
      <4>1. i + 1 < j + 1
        BY <2>2, <3>5
      <4>2. InOrder(channel[i + 1], channel[j + 1])
        BY <1>a, <2>2, <4>1 DEF ArrivingInv
      <4> QED
        BY <1>0, <2>2, <4>2 DEF InOrder
    <3>6. ASSUME NEW i \in DOMAIN gotEventBus', NEW j \in DOMAIN channel'
          PROVE  InOrder(gotEventBus[i], channel[j])'
      <4>1. InOrder(gotEventBus'[i], channel[j + 1])
        <5>1. CASE i \in DOMAIN gotEventBus /\ gotEventBus'[i] = gotEventBus[i]
          BY <1>a, <2>2, <5>1 DEF ArrivingInv
        <5>2. CASE gotEventBus'[i] = channel[1]
          BY <1>a, <2>2, <5>2 DEF ArrivingInv
        <5> QED
          BY <2>3, <5>1, <5>2
      <4> QED
        BY <1>0, <2>2, <4>1 DEF InOrder
    <3>7. (lastEventID # 0 => InLog(lastEventID))'
      BY <1>a, <1>0, <2>1 DEF ArrivingInv, InLog
    <3> QED
      BY <3>2, <3>3, <3>4, <3>5, <3>6, <3>7 DEF ArrivingInv
  <2>6. ReplayedInv'
    BY <2>1 DEF ReplayedInv
  <2>7. E!MissesAreAccounted'
    <3>1. E!ToSet(gotEventBus) \cup E!ToSet(channel) \subseteq E!ToSet(gotEventBus)' \cup E!ToSet(channel)'
      <4>1. ASSUME NEW i \in DOMAIN gotEventBus
            PROVE  gotEventBus[i] \in E!ToSet(gotEventBus)'
        BY <2>3 DEF E!ToSet
      <4>2. ASSUME NEW i \in DOMAIN channel
            PROVE  channel[i] \in E!ToSet(gotEventBus)' \cup E!ToSet(channel)'
        <5>1. CASE i = 1
          BY <2>3, <5>1 DEF E!ToSet
        <5>2. CASE i # 1
          BY <2>2, <5>2 DEF E!ToSet
        <5> QED
          BY <5>1, <5>2
      <4> QED
        BY <4>1, <4>2 DEF E!ToSet
    <3>2. ASSUME NEW i \in (resumed.from + 1)..Len(log)
          PROVE  Seen(log[i])' \/ i <= resumed.to - RingSize
      <4>1. Seen(log[i]) \/ i <= resumed.to - RingSize
        BY <1>a, <2>1, MissesAre
      <4> QED
        BY <1>0, <1>h, <2>1, <3>1, <4>1 DEF Seen
    <3> QED
      BY <1>0, <3>2, MissesAre
  <2> QED
    BY <1>1, <2>4, <2>5, <2>6, <2>7 DEF EventsInv
<1>4. CASE E!Disconnect
  <2>1. /\ client' = "off" /\ channel' = <<>> /\ gotEventBus' = <<>> /\ UNCHANGED dropped
        /\ lastEventID' = lastEventID \/ \E i \in DOMAIN gotEventBus : lastEventID' = gotEventBus[i]
    <3>1. PICK i \in 0..Len(gotEventBus) :
            lastEventID' = IF i = 0 THEN lastEventID ELSE gotEventBus[i]
      BY <1>4 DEF E!Disconnect
    <3>2. i = 0 \/ i \in DOMAIN gotEventBus
      BY <1>t
    <3> QED
      BY <1>4, <3>1, <3>2 DEF E!Disconnect
  <2>2. lastEventID' \in {0} \cup E!Events /\ (lastEventID' # 0 => InLog(lastEventID'))
    BY <1>a, <1>t, <2>1 DEF ArrivingInv
  <2>3. E!TypeOK'
    BY <1>a, <1>0, <2>1, <2>2 DEF E!TypeOK
  <2>4. ArrivingInv'
    BY <1>0, <2>1, <2>2 DEF ArrivingInv, InLog
  <2>5. ReplayedInv' /\ E!MissesAreAccounted'
    BY <2>1 DEF ReplayedInv, E!MissesAreAccounted
  <2> QED
    BY <1>1, <2>3, <2>4, <2>5 DEF EventsInv
<1> QED
  BY <1>2, <1>3, <1>4

LEMMA EventsStep == EventsInv /\ [E!Next]_eventsVars => EventsInv'
<1> SUFFICES ASSUME EventsInv, [E!Next]_eventsVars PROVE EventsInv'
  OBVIOUS
<1>1. CASE UNCHANGED eventsVars
  BY SMTT(30), <1>1
  DEF eventsVars, EventsInv, E!TypeOK, BusInv, HandInv, RingInv, SlotInv, E!Slot, ArrivingInv,
      ReplayedInv, E!MissesAreAccounted, E!InHand, InLog, InOrder, E!ToSet
<1> QED
  BY <1>1, EventsNumber, EventsStore, EventsSend, EventsConnect, EventsClient
  DEF E!Next, E!Publish, E!StreamEvents

\* A replay is the rest of the ring, a connection shows no publisher's events out of order,
\* and an event a subscribed client misses was dropped by its full channel, overwritten, or
\* in Publish's hands while it connected: for every number of publishers and connections and
\* every size of the ring and the channel (EventBus.Publish, EventBus.ReplaySince,
\* StreamEvents).
THEOREM EventsAlwaysDelivered == StreamsSpec => []EventsDelivered
<1> DEFINE Inv == part = "events" => EventsInv
<1>1. StreamsInit => Inv
  BY EventsInit DEF StreamsInit
<1>2. Inv /\ [StreamsNext]_streamsVars => Inv'
  BY EventsStep DEF StreamsNext, streamsVars
<1>3. Inv => EventsDelivered
  BY EventsOrder DEF EventsInv, EventsDelivered
<1> QED
  BY <1>1, <1>2, <1>3, PTL DEF StreamsSpec

-----------------------------------------------------------------------------
(* The names.                                                              *)

\* Once the fixup is done: a row has a name, it is the user's exactly if there is an edit,
\* and then it is the edit.
KeptInv(r, e) ==
  /\ r \in T!Row /\ e \in T!Tag \cup {T!None}
  /\ r.tag = T!Empty => r = T!Absent
  /\ e # T!Empty
  /\ r.src = "manual" <=> e # T!None
  /\ e # T!None => r.tag = e

\* Before that nothing has happened to the rows, and nothing is under way.
OldInv ==
  /\ \A s \in T!Sys : row[s] \in T!OldRow
  /\ \A s \in T!Sys : edit[s] = IF row[s].tag = T!Edited THEN T!Edited ELSE T!None
  /\ phaseTags = "fixup" /\ imp.pc = "idle" /\ heard.pc = "idle" /\ patch.pc = "idle"
  /\ fileTags.tag # T!Edited /\ disc.tag # T!Edited

NamesInv ==
  /\ fixed => \A s \in T!Sys : KeptInv(row[s], edit[s])
  /\ ~fixed => OldInv
  /\ imp.pc = "units" => imp.tag # T!Empty
  /\ patch.pc # "idle" => patch.tag = T!Edited

TagsInv == T!TypeOK /\ NamesInv

\* The names and sources are different from each other.
LEMMA Names ==
  /\ T!Empty \in T!Tag /\ T!Heard \in T!Tag /\ T!Edited \in T!Tag /\ T!Archived \in T!Tag
  /\ T!FileTag \subseteq T!Tag /\ T!None \notin T!Tag
  /\ T!Heard # T!Empty /\ T!Edited # T!Empty /\ T!Archived # T!Empty /\ T!Empty \notin T!FileTag
  /\ T!Edited \notin T!FileTag /\ T!Edited # T!Heard /\ T!Broken \notin T!Tag
  /\ T!Broken # T!Edited /\ T!None # T!Empty
  /\ T!Absent \in T!Row /\ T!Absent.tag = T!Empty /\ T!Absent.src = "absent"
  /\ T!OldRow \subseteq T!Row
  /\ \A r \in T!OldRow :
       /\ r.src # "manual"
       /\ r.tag = T!Empty => r = T!Absent
       /\ r.tag = T!Edited => r.src = "csv"
BY DEF T!Empty, T!Heard, T!Edited, T!Archived, T!FileTag, T!None, T!Broken, T!Tag, T!Absent, T!Row,
       T!Source, T!OldRow

LEMMA NamesKept ==
  ASSUME NEW r, NEW e, KeptInv(r, e)
  PROVE  /\ KeptInv(T!UpsertHeard(r), e)
         /\ \A tag \in T!Tag : KeptInv(T!Enrich(r, tag), e)
         /\ \A tag \in T!Tag \ {T!Empty} : KeptInv(T!ImportUnit(r, tag), e)
         /\ \A src \in {T!Empty, "mqtt", "csv", "manual"} :
              KeptInv(T!ImportArchived(r, src), IF src = "manual" THEN T!Archived ELSE e)
<1> USE Names DEF KeptInv, T!Row, T!Source, T!Or
<1>1. KeptInv(T!UpsertHeard(r), e)
  BY DEF T!UpsertHeard, T!Empty, T!Absent
<1>2. ASSUME NEW tag \in T!Tag
      PROVE  KeptInv(T!Enrich(r, tag), e)
  BY DEF T!Enrich
<1>3. ASSUME NEW tag \in T!Tag \ {T!Empty}
      PROVE  KeptInv(T!ImportUnit(r, tag), e)
  BY DEF T!ImportUnit
<1>4. ASSUME NEW src \in {T!Empty, "mqtt", "csv", "manual"}
      PROVE  KeptInv(T!ImportArchived(r, src), IF src = "manual" THEN T!Archived ELSE e)
  BY DEF T!ImportArchived, T!Empty
<1> QED
  BY <1>1, <1>2, <1>3, <1>4

LEMMA NamesMerged ==
  ASSUME NEW r, NEW e, KeptInv(r, e), NEW q, NEW d, KeptInv(q, d)
  PROVE  KeptInv(T!MergeRow(r, q), IF e # T!None THEN e ELSE d) /\ KeptInv(T!Absent, T!None)
<1> USE Names DEF KeptInv, T!Row, T!Source
<1>1. KeptInv(T!Absent, T!None)
  OBVIOUS
<1>2. CASE r = T!Absent \/ q = T!Absent
  BY <1>1, <1>2 DEF T!MergeRow
<1>3. CASE r # T!Absent /\ q # T!Absent
  <2>1. r.tag # T!Empty /\ q.tag # T!Empty
    BY <1>3
  <2>2. /\ T!Or(r.tag, q.tag) = r.tag /\ T!Or(q.tag, r.tag) = q.tag
    BY <2>1 DEF T!Or
  <2>3. T!MergeRow(r, q) = [tag |-> r.tag, src |-> r.src] \/ T!MergeRow(r, q) = [tag |-> q.tag, src |-> q.src]
    BY <1>3, <2>1, <2>2 DEF T!MergeRow
  <2>4. r.src = "manual" => T!MergeRow(r, q) = [tag |-> r.tag, src |-> r.src]
    <3>1. r.src = "manual" => T!Rank(r.src) >= T!Rank(q.src)
      BY DEF T!Rank
    <3> QED
      BY <1>3, <2>1, <2>2, <3>1 DEF T!MergeRow
  <2>5. r.src # "manual" /\ q.src = "manual" => T!MergeRow(r, q) = [tag |-> q.tag, src |-> q.src]
    <3>1. r.src # "manual" /\ q.src = "manual" => ~(T!Rank(r.src) >= T!Rank(q.src))
      BY DEF T!Rank
    <3> QED
      BY <1>3, <2>1, <2>2, <3>1 DEF T!MergeRow
  <2> QED
    BY <1>1, <2>1, <2>3, <2>4, <2>5
<1> QED
  BY <1>1, <1>2, <1>3

Files == [tag : T!FileTag \cup {T!Edited, T!Broken}, stamp : T!Stamp]
Watches == [seen : T!Stamp, imported : T!Stamp, sys : T!Sys, on : BOOLEAN]
Imports == [pc : {"idle", "load", "directory", "enrich", "units"},
            tag : T!FileTag \cup {T!Edited, T!Empty}, stamp : T!Stamp, failed : BOOLEAN]
Messages == [pc : {"idle", "enrich"}, sys : T!Sys]
Patches == [pc : {"idle", "file", "directory"}, sys : T!Sys, tag : T!Tag]

LEMMA TagsNumbers ==
  /\ MaxWrites \in Nat \ {0}
  /\ 1 \in T!Stamp
  /\ \A n \in T!Stamp : n < MaxWrites => n + 1 \in T!Stamp
BY StreamsAssumption DEF T!Stamp

LEMMA TagsTypes ==
  T!TypeOK <=>
    /\ kind \in {"talkgroup", "unit"}
    /\ row \in [T!Sys -> T!Row] /\ dirTags \in [T!Sys -> T!Tag]
    /\ edit \in [T!Sys -> T!Tag \cup {T!None}]
    /\ fileTags \in Files /\ disc \in Files
    /\ fixed \in BOOLEAN /\ phaseTags \in {"fixup", "import", "run"}
    /\ watch \in Watches /\ imp \in Imports /\ heard \in Messages /\ patch \in Patches
    /\ merged \in BOOLEAN /\ missed \in BOOLEAN
BY DEF T!TypeOK, Files, Watches, Imports, Messages, Patches

LEMMA TagsReady ==
  /\ T!Ready \in Imports /\ T!Ready.pc = "idle"
  /\ T!NoMessage \in Messages /\ T!NoMessage.pc = "idle"
  /\ T!NoPatch \in Patches /\ T!NoPatch.pc = "idle"
BY Names, TagsNumbers
DEF T!Ready, T!NoMessage, T!NoPatch, Imports, Messages, Patches, T!Sys

LEMMA TagsInit == T!Init => TagsInv
<1> SUFFICES ASSUME T!Init PROVE TagsInv
  OBVIOUS
<1> USE Names, TagsNumbers, TagsReady
<1>1. row \in [T!Sys -> T!Row] /\ dirTags \in [T!Sys -> T!Tag]
  BY DEF T!Init, T!FileTag, T!Tag
<1>2. edit \in [T!Sys -> T!Tag \cup {T!None}]
  BY DEF T!Init
<1>3. fileTags \in Files /\ disc \in Files
  BY DEF T!Init, Files, T!FileTag
<1>4. watch \in Watches
  BY DEF T!Init, Watches, T!Sys
<1>5. OldInv
  BY DEF T!Init, OldInv, T!FileTag
<1>6. kind \in {"talkgroup", "unit"} /\ fixed = FALSE /\ phaseTags \in {"fixup", "import", "run"}
      /\ imp \in Imports /\ heard \in Messages /\ patch \in Patches
      /\ merged \in BOOLEAN /\ missed \in BOOLEAN
  BY DEF T!Init
<1>7. fixed \in BOOLEAN
  BY <1>6
<1>8. T!TypeOK
  BY <1>1, <1>2, <1>3, <1>4, <1>6, <1>7, TagsTypes
<1> QED
  BY <1>5, <1>6, <1>8 DEF TagsInv, NamesInv, T!Init

\* With the fixup done, a step that changes the rows has to keep each with its edit.
LEMMA TagsStepRows ==
  ASSUME TagsInv, fixed, fixed' = fixed,
         row' \in [T!Sys -> T!Row], edit' \in [T!Sys -> T!Tag \cup {T!None}],
         \A s \in T!Sys : KeptInv(row'[s], edit'[s]),
         dirTags' \in [T!Sys -> T!Tag], fileTags' \in Files, disc' \in Files, kind' = kind,
         phaseTags' \in {"fixup", "import", "run"}, watch' \in Watches, imp' \in Imports,
         heard' \in Messages, patch' \in Patches, merged' \in BOOLEAN, missed' \in BOOLEAN,
         imp'.pc = "units" => imp'.tag # T!Empty, patch'.pc # "idle" => patch'.tag = T!Edited
  PROVE  TagsInv'
<1>1. kind' \in {"talkgroup", "unit"} /\ fixed' \in BOOLEAN
  BY TagsTypes DEF TagsInv
<1>2. T!TypeOK'
  BY <1>1 DEF T!TypeOK, Files, Watches, Imports, Messages, Patches
<1>3. (\A s \in T!Sys : KeptInv(row[s], edit[s]))'
  BY DEF KeptInv
<1> QED
  BY <1>2, <1>3 DEF TagsInv, NamesInv

LEMMA TagsStep == TagsInv /\ [T!Next]_tagsVars => TagsInv'
<1> SUFFICES ASSUME TagsInv, [T!Next]_tagsVars PROVE TagsInv'
  OBVIOUS
<1> USE Names, TagsNumbers, TagsReady
<1>a. /\ kind \in {"talkgroup", "unit"}
      /\ row \in [T!Sys -> T!Row] /\ dirTags \in [T!Sys -> T!Tag]
      /\ edit \in [T!Sys -> T!Tag \cup {T!None}]
      /\ fileTags \in Files /\ disc \in Files
      /\ fixed \in BOOLEAN /\ phaseTags \in {"fixup", "import", "run"}
      /\ watch \in Watches /\ imp \in Imports /\ heard \in Messages /\ patch \in Patches
      /\ merged \in BOOLEAN /\ missed \in BOOLEAN
  BY TagsTypes DEF TagsInv
<1>b. NamesInv
  BY DEF TagsInv
<1>k. fixed => \A s \in T!Sys : KeptInv(row[s], edit[s])
  BY <1>b DEF NamesInv
<1>s. watch.sys \in T!Sys /\ heard.sys \in T!Sys /\ patch.sys \in T!Sys /\ patch.tag \in T!Tag
  BY <1>a DEF Watches, Messages, Patches
<1>i. /\ imp.tag \in T!Tag /\ (imp.pc = "units" => imp.tag # T!Empty)
      /\ patch.pc # "idle" => patch.tag = T!Edited
  BY <1>a, <1>b DEF Imports, NamesInv
<1>o. ~fixed => phaseTags = "fixup" /\ imp.pc = "idle" /\ heard.pc = "idle" /\ patch.pc = "idle"
  BY <1>b DEF NamesInv, OldInv
<1>p. T!Parses(fileTags) => fileTags.tag \in T!FileTag \cup {T!Edited}
  BY <1>a DEF T!Parses, Files
<1>q. T!Parses(disc) => disc.tag \in T!FileTag \cup {T!Edited}
  BY <1>a DEF T!Parses, Files
<1>1. CASE T!KeepPreUpgradeTagEdits
  <2>0. /\ UNCHANGED <<kind, dirTags, fileTags, disc, imp, heard, patch, merged, missed>>
        /\ fixed' = TRUE /\ phaseTags' = "import" /\ watch' = [watch EXCEPT !.on = FALSE]
    BY <1>1 DEF T!KeepPreUpgradeTagEdits
  <2> DEFINE pinned == {s \in T!Sys : /\ ~fixed /\ row[s].src = "csv" /\ row[s].tag # T!Empty
                                      /\ ~T!Confirmed(s)}
  <2>1. /\ row' = [s \in T!Sys |-> IF s \in pinned THEN [row[s] EXCEPT !.src = "manual"] ELSE row[s]]
        /\ edit' = [s \in T!Sys |-> IF s \in pinned THEN row[s].tag ELSE edit[s]]
    BY <1>1 DEF T!KeepPreUpgradeTagEdits
  <2>2. ASSUME NEW s \in T!Sys
        PROVE  KeptInv(row'[s], edit'[s])
    <3>1. CASE fixed
      BY <1>k, <2>1, <3>1
    <3>2. CASE ~fixed
      <4>1. /\ row[s] \in T!OldRow
            /\ edit[s] = IF row[s].tag = T!Edited THEN T!Edited ELSE T!None
            /\ disc.tag # T!Edited
        BY <1>b, <3>2 DEF NamesInv, OldInv
      <4>2. CASE s \in pinned
        <5>1. row[s].tag # T!Empty /\ row[s] \in T!Row
          BY <4>1, <4>2
        <5>2. row'[s] = [tag |-> row[s].tag, src |-> "manual"] /\ edit'[s] = row[s].tag
          BY <2>1, <4>2, <5>1 DEF T!Row
        <5> QED
          BY <5>1, <5>2 DEF KeptInv, T!Row, T!Source
      <4>3. CASE s \notin pinned
        <5>1. row[s].tag # T!Edited
          <6>1. row[s].tag = T!Edited => row[s].src = "csv"
            BY <4>1
          <6>2. row[s].tag = T!Edited => ~T!Confirmed(s)
            BY <4>1 DEF T!Confirmed
          <6> QED
            BY <3>2, <4>3, <6>1, <6>2
        <5>2. row[s].src # "manual" /\ (row[s].tag = T!Empty => row[s] = T!Absent)
          BY <4>1
        <5> QED
          BY <2>1, <4>1, <4>3, <5>1, <5>2 DEF KeptInv
      <4> QED
        BY <4>2, <4>3
    <3> QED
      BY <3>1, <3>2
  <2>3. row' \in [T!Sys -> T!Row] /\ edit' \in [T!Sys -> T!Tag \cup {T!None}]
    BY <2>1, <2>2 DEF KeptInv
  <2>4. watch' \in Watches
    BY <1>a, <2>0 DEF Watches
  <2>5. T!TypeOK'
    <3>1. fixed' \in BOOLEAN
      BY <2>0
    <3> QED
      BY <1>a, <2>0, <2>3, <2>4, <3>1 DEF T!TypeOK, Files, Watches, Imports, Messages, Patches
  <2>6. NamesInv'
    BY <1>i, <2>0, <2>2 DEF NamesInv, KeptInv
  <2> QED
    BY <2>5, <2>6 DEF TagsInv
<1>2. CASE T!Restart
  <2>1. /\ UNCHANGED <<kind, row, dirTags, edit, fileTags, fixed, watch, merged>>
        /\ phaseTags' = "fixup" /\ disc' = fileTags /\ missed' = FALSE
        /\ imp' = T!Ready /\ heard' = T!NoMessage /\ patch' = T!NoPatch
    BY <1>2 DEF T!Restart
  <2>2. missed' \in BOOLEAN
    BY <2>1
  <2>3. T!TypeOK'
    BY <1>a, <2>1, <2>2 DEF T!TypeOK, Files, Watches, Imports, Messages, Patches
  <2>4. NamesInv'
    BY <1>b, <2>1 DEF NamesInv, OldInv, KeptInv
  <2> QED
    BY <2>3, <2>4 DEF TagsInv
<1>3. CASE T!EditFile
  <2>1. UNCHANGED <<kind, row, dirTags, edit, disc, fixed, phaseTags, watch, imp, heard, patch,
                    merged, missed>>
    BY <1>3 DEF T!EditFile
  <2>2. fileTags' \in Files /\ fileTags'.tag # T!Edited
    BY <1>3, <1>a DEF T!EditFile, Files
  <2>3. T!TypeOK'
    BY <1>a, <2>1, <2>2 DEF T!TypeOK, Files, Watches, Imports, Messages, Patches
  <2>4. NamesInv'
    BY <1>b, <2>1, <2>2 DEF NamesInv, OldInv, KeptInv
  <2> QED
    BY <2>3, <2>4 DEF TagsInv
<1>4. CASE UNCHANGED tagsVars
  <2>1. UNCHANGED <<kind, row, dirTags, edit, fileTags, disc, fixed, phaseTags, watch, imp, heard,
                    patch, merged, missed>>
    BY <1>4 DEF tagsVars
  <2> QED
    BY <1>a, <1>b, <2>1
    DEF TagsInv, T!TypeOK, Files, Watches, Imports, Messages, Patches, NamesInv, OldInv, KeptInv
\* The start of the import, and the watch.
<1>5. CASE T!StartImport \/ T!Poll \/ T!LoadCSV
  <2>0. UNCHANGED <<kind, row, dirTags, edit, fileTags, disc, fixed, heard, patch, merged, missed>>
    BY <1>5 DEF T!StartImport, T!Poll, T!LoadCSV
  <2>1. fixed
    BY <1>5, <1>o DEF T!StartImport, T!Poll, T!LoadCSV
  <2>2. phaseTags' \in {"fixup", "import", "run"}
    BY <1>5, <1>a DEF T!StartImport, T!Poll, T!LoadCSV
  <2>3. /\ watch' \in Watches /\ imp' \in Imports
        /\ imp'.pc = "units" => imp'.tag # T!Empty
    <3>1. CASE T!StartImport
      <4>1. CASE ~T!Parses(disc)
        BY <1>a, <1>i, <3>1, <4>1 DEF T!StartImport
      <4>2. CASE T!Parses(disc)
        <5>1. watch' = [seen |-> disc.stamp, imported |-> disc.stamp, sys |-> T!Home, on |-> TRUE]
          BY <3>1, <4>2 DEF T!StartImport
        <5>2. PICK p \in {"units", "directory"} :
                imp' = [pc |-> p, tag |-> disc.tag, stamp |-> disc.stamp, failed |-> FALSE]
          BY <3>1, <4>2 DEF T!StartImport
        <5>3. disc.stamp \in T!Stamp /\ T!Home \in T!Sys
          BY <1>a DEF Files, T!Home, T!Sys
        <5>4. watch' \in Watches
          BY <5>1, <5>3 DEF Watches
        <5>5. imp' \in Imports
          BY <1>q, <4>2, <5>2, <5>3 DEF Imports
        <5> QED
          BY <1>q, <4>2, <5>2, <5>4, <5>5
      <4> QED
        BY <4>1, <4>2
    <3>2. CASE T!Poll
      BY <1>a, <1>i, <3>2 DEF T!Poll, Watches, Imports, Files
    <3>3. CASE T!LoadCSV
      <4>1. CASE ~T!Parses(fileTags)
        BY <1>a, <3>3, <4>1 DEF T!LoadCSV, Watches, Imports
      <4>2. CASE T!Parses(fileTags)
        <5>1. PICK p \in {"units", "directory"} :
                imp' = [imp EXCEPT !.pc = p, !.tag = fileTags.tag]
          BY <3>3, <4>2 DEF T!LoadCSV
        <5>2. imp' = [pc |-> p, tag |-> fileTags.tag, stamp |-> imp.stamp, failed |-> imp.failed]
          BY <1>a, <5>1 DEF Imports
        <5>3. imp.stamp \in T!Stamp /\ imp.failed \in BOOLEAN
          BY <1>a DEF Imports
        <5>4. imp' \in Imports /\ imp'.tag # T!Empty
          BY <1>p, <4>2, <5>2, <5>3 DEF Imports
        <5>5. UNCHANGED watch
          BY <3>3, <4>2 DEF T!LoadCSV
        <5> QED
          BY <1>a, <5>4, <5>5
      <4> QED
        BY <4>1, <4>2
    <3> QED
      BY <1>5, <3>1, <3>2, <3>3
  <2> QED
    BY <1>a, <1>i, <1>k, <2>0, <2>1, <2>2, <2>3, TagsStepRows
\* The statements of the import.
<1>6. CASE T!UpsertTalkgroupDirectory \/ T!EnrichTalkgroups \/ T!ImportUnitTags
  <2>0. UNCHANGED <<kind, edit, fileTags, disc, fixed, heard, patch, merged>>
    BY <1>6 DEF T!UpsertTalkgroupDirectory, T!EnrichTalkgroups, T!ImportUnitTags
  <2>1. fixed
    BY <1>6, <1>o DEF T!UpsertTalkgroupDirectory, T!EnrichTalkgroups, T!ImportUnitTags
  <2>2. ASSUME NEW ok \in BOOLEAN, T!ImportEnds(ok)
        PROVE  /\ imp' \in Imports /\ imp'.pc = "idle" /\ phaseTags' \in {"fixup", "import", "run"}
               /\ watch' \in Watches /\ missed' \in BOOLEAN
    <3>1. missed' \in BOOLEAN
      BY <1>a, <2>2, Zenon DEF T!ImportEnds
    <3>2. watch' \in Watches
      BY <1>a, <2>2 DEF T!ImportEnds, Watches, Imports
    <3> QED
      BY <2>2, <3>1, <3>2 DEF T!ImportEnds
  <2>3. CASE T!UpsertTalkgroupDirectory
    <3>1. UNCHANGED <<row, phaseTags, watch, missed>>
      BY <2>3 DEF T!UpsertTalkgroupDirectory
    <3>2. dirTags' \in [T!Sys -> T!Tag]
      BY <1>a, <1>i, <1>s, <2>3 DEF T!UpsertTalkgroupDirectory
    <3>3. imp' \in Imports /\ imp'.pc = "enrich"
      BY <1>a, <2>3 DEF T!UpsertTalkgroupDirectory, Imports
    <3> QED
      BY <1>a, <1>i, <1>k, <2>0, <2>1, <3>1, <3>2, <3>3, TagsStepRows
  <2>4. CASE T!EnrichTalkgroups
    <3>1. UNCHANGED dirTags /\ \E ok \in BOOLEAN : T!ImportEnds(ok)
      <4>1. (~imp.failed) \in BOOLEAN
        BY Zenon
      <4> QED
        BY <2>4, <4>1 DEF T!EnrichTalkgroups
    <3>2. row' = row \/ row' = [row EXCEPT ![watch.sys] = T!Enrich(@, dirTags[watch.sys])]
      BY <2>4 DEF T!EnrichTalkgroups
    <3>3. /\ \A s \in T!Sys : KeptInv(row'[s], edit[s])
          /\ row' \in [T!Sys -> T!Row]
      <4>1. dirTags[watch.sys] \in T!Tag
        BY <1>a, <1>s
      <4>2. KeptInv(T!Enrich(row[watch.sys], dirTags[watch.sys]), edit[watch.sys])
        BY <1>k, <1>s, <2>1, <4>1, NamesKept
      <4>3. T!Enrich(row[watch.sys], dirTags[watch.sys]) \in T!Row
        BY <4>2 DEF KeptInv
      <4> QED
        BY <1>a, <1>k, <1>s, <2>1, <3>2, <4>2, <4>3
    <3> QED
      BY <1>a, <1>i, <2>0, <2>1, <2>2, <3>1, <3>3, TagsStepRows
  <2>5. CASE T!ImportUnitTags
    <3>1. UNCHANGED dirTags /\ \E ok \in BOOLEAN : T!ImportEnds(ok)
      BY <2>5 DEF T!ImportUnitTags
    <3>2. row' = row \/ row' = [row EXCEPT ![watch.sys] = T!ImportUnit(@, imp.tag)]
      BY <2>5 DEF T!ImportUnitTags
    <3>3. /\ \A s \in T!Sys : KeptInv(row'[s], edit[s])
          /\ row' \in [T!Sys -> T!Row]
      <4>1. imp.tag \in T!Tag \ {T!Empty}
        BY <1>i, <2>5 DEF T!ImportUnitTags
      <4>2. KeptInv(T!ImportUnit(row[watch.sys], imp.tag), edit[watch.sys])
        BY <1>k, <1>s, <2>1, <4>1, NamesKept
      <4>3. T!ImportUnit(row[watch.sys], imp.tag) \in T!Row
        BY <4>2 DEF KeptInv
      <4> QED
        BY <1>a, <1>k, <1>s, <2>1, <3>2, <4>2, <4>3
    <3> QED
      BY <1>a, <1>i, <2>0, <2>1, <2>2, <3>1, <3>3, TagsStepRows
  <2> QED
    BY <1>6, <2>3, <2>4, <2>5
<1>7. CASE \E s \in T!Sys : T!Upsert(s)
  <2>w. PICK s \in T!Sys : T!Upsert(s)
    BY <1>7
  <2>0. UNCHANGED <<kind, dirTags, edit, fileTags, disc, fixed, phaseTags, watch, imp, patch,
                    merged, missed>>
    BY <2>w DEF T!Upsert
  <2>1. fixed
    BY <1>o, <2>w DEF T!Upsert
  <2>2. heard' \in Messages
    BY <1>a, <2>w DEF T!Upsert, Messages
  <2>3. KeptInv(T!UpsertHeard(row[s]), edit[s]) /\ T!UpsertHeard(row[s]) \in T!Row
    BY <1>k, <2>1, NamesKept DEF KeptInv
  <2>4. row' = [row EXCEPT ![s] = T!UpsertHeard(@)]
    BY <2>w DEF T!Upsert
  <2>5. \A x \in T!Sys : KeptInv(row'[x], edit'[x])
    BY <1>a, <1>k, <2>0, <2>1, <2>3, <2>4
  <2>6. row' \in [T!Sys -> T!Row]
    BY <1>a, <2>3, <2>4
  <2> QED
    BY <1>a, <1>i, <2>0, <2>1, <2>2, <2>5, <2>6, TagsStepRows
<1>8. CASE T!EnrichHeard
  <2>0. /\ UNCHANGED <<kind, dirTags, edit, fileTags, disc, fixed, phaseTags, watch, imp, patch,
                       merged, missed>>
        /\ heard' = T!NoMessage
    BY <1>8 DEF T!EnrichHeard
  <2>1. fixed
    BY <1>o, <1>8 DEF T!EnrichHeard
  <2>2. row' = row \/ row' = [row EXCEPT ![heard.sys] = T!Enrich(@, dirTags[heard.sys])]
    BY <1>8 DEF T!EnrichHeard
  <2>3. dirTags[heard.sys] \in T!Tag
    BY <1>a, <1>s
  <2>4. /\ KeptInv(T!Enrich(row[heard.sys], dirTags[heard.sys]), edit[heard.sys])
        /\ T!Enrich(row[heard.sys], dirTags[heard.sys]) \in T!Row
    <3>1. KeptInv(T!Enrich(row[heard.sys], dirTags[heard.sys]), edit[heard.sys])
      BY <1>k, <1>s, <2>1, <2>3, NamesKept
    <3> QED
      BY <3>1 DEF KeptInv
  <2>5. \A x \in T!Sys : KeptInv(row'[x], edit'[x])
    BY <1>a, <1>k, <1>s, <2>0, <2>1, <2>2, <2>4
  <2>6. row' \in [T!Sys -> T!Row]
    BY <1>a, <1>s, <2>2, <2>4
  <2> QED
    BY <1>a, <1>i, <2>0, <2>1, <2>5, <2>6, TagsStepRows
<1>9. CASE \E s \in T!Sys, does \in {"name", "describe", "csv", "mqtt"} : T!Patch(s, does)
  <2>w. PICK s \in T!Sys, does \in {"name", "describe", "csv", "mqtt"} : T!Patch(s, does)
    BY <1>9
  <2>0. UNCHANGED <<kind, dirTags, fileTags, disc, fixed, phaseTags, watch, imp, heard, merged,
                    missed>>
    BY <2>w DEF T!Patch
  <2>1. fixed /\ row[s] # T!Absent
    BY <1>o, <2>w DEF T!Patch
  <2>2. patch' \in Patches /\ (patch'.pc # "idle" => patch'.tag = T!Edited)
    BY <2>w DEF T!Patch, Patches
  <2>3. KeptInv(row[s], edit[s]) /\ row[s].tag # T!Empty /\ row[s] \in T!Row
    BY <1>k, <2>1 DEF KeptInv
  <2>4. PICK r \in T!Row, e \in T!Tag \cup {T!None} :
          /\ row' = [row EXCEPT ![s] = r] /\ edit' = [edit EXCEPT ![s] = e]
          /\ KeptInv(r, e)
    <3>1. CASE does = "name"
      <4>1. /\ row' = [row EXCEPT ![s] = [tag |-> T!Edited, src |-> "manual"]]
            /\ edit' = [edit EXCEPT ![s] = T!Edited]
        BY <2>w, <3>1 DEF T!Patch
      <4> QED
        BY <4>1 DEF KeptInv, T!Row, T!Source
    <3>2. CASE does = "describe"
      <4>1. /\ row' = [row EXCEPT ![s].src = "manual"]
            /\ edit' = [edit EXCEPT ![s] = row[s].tag]
        BY <2>w, <2>3, <3>2 DEF T!Patch
      <4>2. row' = [row EXCEPT ![s] = [tag |-> row[s].tag, src |-> "manual"]]
        <5>1. [row[s] EXCEPT !.src = "manual"] = [tag |-> row[s].tag, src |-> "manual"]
          BY <2>3 DEF T!Row
        <5> QED
          BY <4>1, <5>1
      <4> QED
        BY <2>3, <4>1, <4>2 DEF KeptInv, T!Row, T!Source
    <3>3. CASE does \in {"csv", "mqtt"}
      <4>1. /\ row' = [row EXCEPT ![s].src = does]
            /\ edit' = [edit EXCEPT ![s] = T!None]
        BY <2>w, <3>3 DEF T!Patch
      <4>2. row' = [row EXCEPT ![s] = [tag |-> row[s].tag, src |-> does]]
        <5>1. [row[s] EXCEPT !.src = does] = [tag |-> row[s].tag, src |-> does]
          BY <2>3 DEF T!Row
        <5> QED
          BY <4>1, <5>1
      <4> QED
        BY <2>3, <3>3, <4>1, <4>2 DEF KeptInv, T!Row, T!Source
    <3> QED
      BY <3>1, <3>2, <3>3
  <2>5. \A x \in T!Sys : KeptInv(row'[x], edit'[x])
    BY <1>a, <1>k, <2>1, <2>4
  <2>6. row' \in [T!Sys -> T!Row] /\ edit' \in [T!Sys -> T!Tag \cup {T!None}]
    BY <1>a, <2>4
  <2> QED
    BY <1>a, <1>i, <2>0, <2>1, <2>2, <2>5, <2>6, TagsStepRows
<1>10. CASE T!WriteBack \/ T!WriteBackDirectory
  <2>0. UNCHANGED <<kind, row, edit, disc, fixed, phaseTags, watch, imp, heard, merged, missed>>
    BY <1>10 DEF T!WriteBack, T!WriteBackDirectory
  <2>1. fixed
    BY <1>o, <1>10 DEF T!WriteBack, T!WriteBackDirectory
  <2>2. patch' \in Patches /\ (patch'.pc # "idle" => patch'.tag = T!Edited)
    BY <1>a, <1>i, <1>10 DEF T!WriteBack, T!WriteBackDirectory, Patches
  <2>3. dirTags' \in [T!Sys -> T!Tag]
    BY <1>a, <1>10, <1>s DEF T!WriteBack, T!WriteBackDirectory
  <2>4. fileTags' \in Files
    <3>1. fileTags' = fileTags \/
            (/\ fileTags' = [tag |-> patch.tag, stamp |-> fileTags.stamp + 1]
             /\ fileTags.stamp < MaxWrites /\ patch.pc = "file")
      BY <1>10 DEF T!WriteBack, T!WriteBackDirectory
    <3>2. CASE fileTags' = [tag |-> patch.tag, stamp |-> fileTags.stamp + 1]
               /\ fileTags.stamp < MaxWrites /\ patch.pc = "file"
      <4>1. fileTags.stamp + 1 \in T!Stamp
        BY <1>a, <3>2 DEF Files
      <4> QED
        BY <1>i, <3>2, <4>1 DEF Files
    <3> QED
      BY <1>a, <3>1, <3>2
  <2> QED
    BY <1>a, <1>i, <1>k, <2>0, <2>1, <2>2, <2>3, <2>4, TagsStepRows
<1>11. CASE \E s \in T!Sys, src \in {T!Empty, "mqtt", "csv", "manual"} : T!ImportArchive(s, src)
  <2>w. PICK s \in T!Sys, src \in {T!Empty, "mqtt", "csv", "manual"} : T!ImportArchive(s, src)
    BY <1>11
  <2>0. UNCHANGED <<kind, dirTags, fileTags, disc, fixed, phaseTags, watch, imp, heard, patch,
                    merged, missed>>
    BY <2>w DEF T!ImportArchive
  <2>1. fixed
    BY <1>o, <2>w DEF T!ImportArchive
  <2> DEFINE e == IF src = "manual" THEN T!Archived ELSE edit[s]
  <2>2. row' = [row EXCEPT ![s] = T!ImportArchived(row[s], src)] /\ edit' = [edit EXCEPT ![s] = e]
    BY <1>a, <2>w DEF T!ImportArchive
  <2>3. KeptInv(T!ImportArchived(row[s], src), e)
    BY <1>k, <2>1, NamesKept
  <2>4. T!ImportArchived(row[s], src) \in T!Row /\ e \in T!Tag \cup {T!None}
    BY <2>3 DEF KeptInv
  <2> HIDE DEF e
  <2>5. \A x \in T!Sys : KeptInv(row'[x], edit'[x])
    BY <1>a, <1>k, <2>1, <2>2, <2>3
  <2>6. row' \in [T!Sys -> T!Row] /\ edit' \in [T!Sys -> T!Tag \cup {T!None}]
    BY <1>a, <2>2, <2>4
  <2> QED
    BY <1>a, <1>i, <2>0, <2>1, <2>5, <2>6, TagsStepRows
<1>12. CASE \E s \in T!Sys : T!Upload(s)
  <2>w. PICK s \in T!Sys : T!Upload(s)
    BY <1>12
  <2>0. UNCHANGED <<kind, edit, fileTags, disc, fixed, phaseTags, watch, imp, patch, merged, missed>>
    BY <2>w DEF T!Upload
  <2>1. fixed /\ "csv2" \in T!Tag \ {T!Empty}
    BY <1>o, <2>w DEF T!Upload, T!FileTag, T!Tag, T!Empty
  <2>2. KeptInv(T!ImportUnit(row[s], "csv2"), edit[s]) /\ T!ImportUnit(row[s], "csv2") \in T!Row
    <3>1. KeptInv(T!ImportUnit(row[s], "csv2"), edit[s])
      BY <1>k, <2>1, NamesKept
    <3> QED
      BY <3>1 DEF KeptInv
  <2>3. row' = row \/ row' = [row EXCEPT ![s] = T!ImportUnit(row[s], "csv2")]
    BY <1>a, <2>w DEF T!Upload
  <2>4. dirTags' \in [T!Sys -> T!Tag]
    BY <1>a, <2>1, <2>w DEF T!Upload
  <2>5. heard' \in Messages
    BY <1>a, <2>w DEF T!Upload, Messages
  <2>6. \A x \in T!Sys : KeptInv(row'[x], edit'[x])
    BY <1>a, <1>k, <2>0, <2>1, <2>2, <2>3
  <2>7. row' \in [T!Sys -> T!Row]
    BY <1>a, <2>2, <2>3
  <2> QED
    BY <1>a, <1>i, <2>0, <2>1, <2>4, <2>5, <2>6, <2>7, TagsStepRows
<1>13. CASE T!Merge
  <2>0. UNCHANGED <<kind, dirTags, fileTags, disc, fixed, phaseTags, watch, imp, heard, patch,
                    missed>>
    BY <1>13 DEF T!Merge
  <2>1. fixed
    BY <1>o, <1>13 DEF T!Merge
  <2>2. merged' \in BOOLEAN
    BY <1>13 DEF T!Merge
  <2> DEFINE r == T!MergeRow(row["s"], row["t"])
             e == IF edit["s"] # T!None THEN edit["s"] ELSE edit["t"]
  <2>3. "s" \in T!Sys /\ "t" \in T!Sys /\ \A x \in T!Sys : x = "s" \/ x = "t"
    BY DEF T!Sys
  <2>4. KeptInv(r, e) /\ KeptInv(T!Absent, T!None)
    BY <1>k, <2>1, <2>3, NamesMerged
  <2>5. r \in T!Row /\ e \in T!Tag \cup {T!None}
    BY <2>4 DEF KeptInv
  <2>6. row' = [s |-> T!Absent, t |-> r] /\ edit' = [s |-> T!None, t |-> e]
    BY <1>13 DEF T!Merge
  <2> HIDE DEF r, e
  <2>7. \A x \in T!Sys : KeptInv(row'[x], edit'[x])
    BY <2>3, <2>4, <2>6
  <2>8. row' \in [T!Sys -> T!Row] /\ edit' \in [T!Sys -> T!Tag \cup {T!None}]
    BY <2>5, <2>6 DEF T!Sys
  <2> QED
    BY <1>a, <1>i, <2>0, <2>1, <2>2, <2>7, <2>8, TagsStepRows
<1> QED
  BY <1>1, <1>2, <1>3, <1>4, <1>5, <1>6, <1>7, <1>8, <1>9, <1>10, <1>11, <1>12, <1>13
  DEF T!Next, T!Import

\* What a user named stays named so, for every number of versions of the CSV file, edits,
\* archives, failing statements and restarts, whether edits are copied to the file or not
\* (talkgroups.go, units.go, unit_tags.go, main.go).
THEOREM EditsAlwaysKept == StreamsSpec => []EditsKept
<1> DEFINE Inv == part = "tags" => TagsInv
<1>1. StreamsInit => Inv
  BY TagsInit DEF StreamsInit
<1>2. Inv /\ [StreamsNext]_streamsVars => Inv'
  BY TagsStep DEF StreamsNext, streamsVars
<1>3. Inv => EditsKept
  <2> SUFFICES ASSUME TagsInv PROVE T!TypeOK /\ T!EditsKept
    BY DEF EditsKept
  <2>1. CASE fixed
    BY <2>1 DEF TagsInv, NamesInv, KeptInv, T!EditsKept
  <2>2. CASE ~fixed
    BY <2>2 DEF TagsInv, NamesInv, OldInv, T!EditsKept
  <2> QED
    BY <2>1, <2>2
<1> QED
  BY <1>1, <1>2, <1>3, PTL DEF StreamsSpec

-----------------------------------------------------------------------------
(* The names of the CSV file.                                              *)

\* A version is loaded after it was imported and read before it was replaced; what was read
\* of the present version is its name.
VersionsInv ==
  /\ watch.imported <= fileTags.stamp
  /\ disc.stamp <= fileTags.stamp
  /\ disc.stamp = fileTags.stamp => disc.tag = fileTags.tag
  /\ phaseTags = "fixup" => imp.pc = "idle"
  /\ phaseTags = "import" /\ imp.pc = "idle" => ~watch.on
  /\ phaseTags = "import" /\ imp.pc # "idle" => watch.imported = imp.stamp /\ imp.pc # "load"
  /\ phaseTags = "run" /\ imp.pc # "idle" => watch.imported < imp.stamp
  /\ imp.pc # "idle" => imp.stamp <= fileTags.stamp
  /\ imp.pc \in {"directory", "enrich", "units"} /\ imp.stamp = fileTags.stamp => imp.tag = fileTags.tag
  /\ imp.pc \in {"directory", "enrich"} => kind = "talkgroup"
  /\ imp.pc = "units" => kind = "unit"

LEMMA VersionsInit == T!Init => VersionsInv
BY DEF T!Init, VersionsInv, T!Ready

LEMMA VersionsStep == TagsInv /\ VersionsInv /\ [T!Next]_tagsVars => VersionsInv'
<1> SUFFICES ASSUME TagsInv, VersionsInv, [T!Next]_tagsVars PROVE VersionsInv'
  OBVIOUS
<1>a. /\ fileTags \in Files /\ disc \in Files /\ watch \in Watches /\ imp \in Imports
      /\ phaseTags \in {"fixup", "import", "run"} /\ kind \in {"talkgroup", "unit"}
  BY TagsTypes DEF TagsInv
<1>b. /\ fileTags.stamp \in Nat /\ disc.stamp \in Nat /\ watch.imported \in Nat /\ imp.stamp \in Nat
  BY <1>a DEF Files, Watches, Imports, T!Stamp
<1>c. T!Ready.pc = "idle"
  BY DEF T!Ready
<1>1. CASE UNCHANGED <<kind, fileTags, disc, phaseTags, watch, imp>>
  BY <1>1 DEF VersionsInv
<1>2. CASE \/ UNCHANGED tagsVars \/ \E s \in T!Sys : T!Upsert(s) \/ T!Upload(s)
           \/ T!EnrichHeard \/ T!WriteBackDirectory \/ T!Merge
           \/ \E s \in T!Sys, does \in {"name", "describe", "csv", "mqtt"} : T!Patch(s, does)
           \/ \E s \in T!Sys, src \in {T!Empty, "mqtt", "csv", "manual"} : T!ImportArchive(s, src)
  <2>1. UNCHANGED <<kind, fileTags, disc, phaseTags, watch, imp>>
    BY <1>2
    DEF tagsVars, T!Upsert, T!Upload, T!EnrichHeard, T!WriteBackDirectory, T!Merge, T!Patch,
        T!ImportArchive
  <2> QED
    BY <1>1, <2>1
<1>3. CASE T!KeepPreUpgradeTagEdits
  <2>1. /\ UNCHANGED <<kind, fileTags, disc, imp>>
        /\ phaseTags = "fixup" /\ phaseTags' = "import" /\ watch' = [watch EXCEPT !.on = FALSE]
    BY <1>3 DEF T!KeepPreUpgradeTagEdits
  <2>2. watch'.on = FALSE /\ watch'.imported = watch.imported
    BY <1>a, <2>1 DEF Watches
  <2> QED
    BY <2>1, <2>2 DEF VersionsInv
<1>4. CASE T!Restart
  <2>1. /\ UNCHANGED <<kind, fileTags, watch>>
        /\ phaseTags' = "fixup" /\ disc' = fileTags /\ imp' = T!Ready
    BY <1>4 DEF T!Restart
  <2> QED
    BY <1>b, <1>c, <2>1 DEF VersionsInv
\* A version is replaced by a later one.
<1>5. CASE T!EditFile \/ T!WriteBack
  <2>1. UNCHANGED <<kind, disc, phaseTags, watch, imp>>
    BY <1>5 DEF T!EditFile, T!WriteBack
  <2>2. fileTags' = fileTags \/ fileTags'.stamp = fileTags.stamp + 1
    BY <1>5 DEF T!EditFile, T!WriteBack
  <2>3. CASE fileTags'.stamp = fileTags.stamp + 1
    <3>1. /\ watch'.imported <= fileTags'.stamp /\ disc'.stamp < fileTags'.stamp
          /\ imp'.pc # "idle" => imp'.stamp < fileTags'.stamp
      BY <1>b, <2>1, <2>3 DEF VersionsInv
    <3>2. disc'.stamp # fileTags'.stamp /\ (imp'.pc # "idle" => imp'.stamp # fileTags'.stamp)
          /\ disc'.stamp <= fileTags'.stamp /\ (imp'.pc # "idle" => imp'.stamp <= fileTags'.stamp)
      BY <1>b, <2>1, <2>3, <3>1
    <3> QED
      BY <2>1, <3>1, <3>2 DEF VersionsInv
  <2> QED
    BY <1>1, <2>1, <2>2, <2>3
<1>6. CASE T!StartImport
  <2>1. UNCHANGED <<kind, fileTags, disc>> /\ phaseTags = "import" /\ imp.pc = "idle"
    BY <1>6 DEF T!StartImport
  <2>2. CASE ~T!Parses(disc)
    <3>1. phaseTags' = "run" /\ UNCHANGED <<watch, imp>>
      BY <1>6, <2>2 DEF T!StartImport
    <3> QED
      BY <2>1, <3>1 DEF VersionsInv
  <2>3. CASE T!Parses(disc)
    <3>1. /\ watch' = [seen |-> disc.stamp, imported |-> disc.stamp, sys |-> T!Home, on |-> TRUE]
          /\ imp' = [pc |-> IF kind = "unit" THEN "units" ELSE "directory", tag |-> disc.tag,
                     stamp |-> disc.stamp, failed |-> FALSE]
          /\ phaseTags' = "import"
      BY <1>6, <2>1, <2>3 DEF T!StartImport
    <3>2. /\ watch'.imported = disc.stamp /\ imp'.stamp = disc.stamp /\ imp'.tag = disc.tag
          /\ imp'.pc = IF kind = "unit" THEN "units" ELSE "directory"
      BY <3>1
    <3> QED
      BY <1>a, <2>1, <3>1, <3>2 DEF VersionsInv
  <2> QED
    BY <2>2, <2>3
<1>7. CASE T!Poll
  <2>1. /\ UNCHANGED <<kind, fileTags, disc, phaseTags>> /\ phaseTags = "run" /\ imp.pc = "idle"
        /\ watch' = [watch EXCEPT !.seen = fileTags.stamp]
        /\ imp' = IF fileTags.stamp = watch.seen /\ fileTags.stamp # watch.imported
                    THEN [imp EXCEPT !.pc = "load", !.stamp = fileTags.stamp] ELSE imp
    BY <1>7 DEF T!Poll
  <2>2. watch'.imported = watch.imported
    BY <1>a, <2>1 DEF Watches
  <2>3. CASE fileTags.stamp = watch.seen /\ fileTags.stamp # watch.imported
    <3>1. imp'.pc = "load" /\ imp'.stamp = fileTags.stamp
      BY <1>a, <2>1, <2>3 DEF Imports
    <3>2. watch'.imported < imp'.stamp /\ imp'.stamp <= fileTags'.stamp
      BY <1>b, <2>1, <2>2, <2>3, <3>1 DEF VersionsInv
    <3> QED
      BY <2>1, <2>2, <3>1, <3>2 DEF VersionsInv
  <2>4. CASE ~(fileTags.stamp = watch.seen /\ fileTags.stamp # watch.imported)
    <3>1. imp' = imp
      BY <2>1, <2>4
    <3> QED
      BY <2>1, <2>2, <3>1 DEF VersionsInv
  <2> QED
    BY <2>3, <2>4
<1>8. CASE T!LoadCSV
  <2>1. /\ UNCHANGED <<kind, fileTags, disc, phaseTags>> /\ imp.pc = "load"
        /\ phaseTags = "run" /\ imp.stamp <= fileTags.stamp
    BY <1>8, <1>a DEF T!LoadCSV, VersionsInv
  <2>2. CASE ~T!Parses(fileTags)
    <3>1. watch' = [watch EXCEPT !.imported = imp.stamp] /\ imp' = T!Ready
      BY <1>8, <2>2 DEF T!LoadCSV
    <3>2. watch'.imported = imp.stamp
      BY <1>a, <3>1 DEF Watches
    <3> QED
      BY <1>c, <2>1, <3>1, <3>2 DEF VersionsInv
  <2>3. CASE T!Parses(fileTags)
    <3>1. /\ imp' = [imp EXCEPT !.pc = IF kind = "unit" THEN "units" ELSE "directory",
                                !.tag = fileTags.tag]
          /\ UNCHANGED watch
      BY <1>8, <2>3 DEF T!LoadCSV
    <3>2. /\ imp'.pc = IF kind = "unit" THEN "units" ELSE "directory"
          /\ imp'.tag = fileTags.tag /\ imp'.stamp = imp.stamp
      BY <1>a, <3>1 DEF Imports
    <3> QED
      BY <1>a, <2>1, <3>1, <3>2 DEF VersionsInv
  <2> QED
    BY <2>2, <2>3
<1>9. CASE T!UpsertTalkgroupDirectory
  <2>1. UNCHANGED <<kind, fileTags, disc, phaseTags, watch>> /\ imp.pc = "directory"
    BY <1>9 DEF T!UpsertTalkgroupDirectory
  <2>2. imp'.pc = "enrich" /\ imp'.tag = imp.tag /\ imp'.stamp = imp.stamp
    BY <1>9, <1>a DEF T!UpsertTalkgroupDirectory, Imports
  <2> QED
    BY <2>1, <2>2 DEF VersionsInv
<1>10. CASE T!EnrichTalkgroups \/ T!ImportUnitTags
  <2>1. UNCHANGED <<kind, fileTags, disc>> /\ imp.pc # "idle"
    BY <1>10 DEF T!EnrichTalkgroups, T!ImportUnitTags
  <2>2. imp' = T!Ready /\ phaseTags' = "run"
    BY <1>10 DEF T!EnrichTalkgroups, T!ImportUnitTags, T!ImportEnds
  <2>3. watch' = watch \/ watch' = [watch EXCEPT !.imported = imp.stamp]
    BY <1>10 DEF T!EnrichTalkgroups, T!ImportUnitTags, T!ImportEnds
  <2>4. watch'.imported \in {watch.imported, imp.stamp}
    BY <1>a, <2>3 DEF Watches
  <2> QED
    BY <1>c, <2>1, <2>2, <2>4 DEF VersionsInv
<1> QED
  BY <1>2, <1>3, <1>4, <1>5, <1>6, <1>7, <1>8, <1>9, <1>10 DEF T!Next, T!Import

\* Nobody but the recorder and the CSV file wrote a name, and the file was imported.
Untouched == ~merged /\ ~missed /\ patches = 0 /\ archives = 0

\* The name of the present version is in the directory and the row.
NameIsIn ==
  /\ kind = "talkgroup" => dirTags["s"] = fileTags.tag
  /\ row["s"].src = "csv" => row["s"].tag = fileTags.tag

\* What is imported of the present version is in, and half of it when the directory is.
CsvInv ==
  /\ patches \in Nat /\ archives \in Nat
  /\ patches = 0 => patch.pc = "idle"
  /\ ~merged => watch.sys = "s"
  /\ heard.pc = "enrich" => kind = "talkgroup"
  /\ Untouched /\ imp.pc = "enrich" /\ ~imp.failed => dirTags["s"] = imp.tag
  /\ phaseTags = "run" /\ watch.on /\ watch.imported = fileTags.stamp /\ T!Parses(fileTags)
       /\ Untouched => NameIsIn

LEMMA CsvInit == T!Init => CsvInv
BY DEF T!Init, CsvInv, T!Ready, T!NoMessage, T!NoPatch

\* The row of the CSV file's system after a statement that has the name of the present
\* version: it is the user's, or has that name.
LEMMA NameStaysIn ==
  ASSUME NEW r \in T!Row, NEW tag, r.src = "csv" => r.tag = tag
  PROVE  LET h == T!UpsertHeard(r) IN h.src = "csv" => h.tag = tag
<1>1. CASE r = T!Absent
  <2>1. T!UpsertHeard(r).src = T!Empty /\ T!Empty # "csv"
    BY <1>1 DEF T!UpsertHeard, T!Empty
  <2> QED
    BY <2>1
<1>2. CASE r # T!Absent /\ r.src \in {"manual", "csv"}
  BY <1>2 DEF T!UpsertHeard
<1>3. CASE r # T!Absent /\ r.src \notin {"manual", "csv"}
  <2>1. T!UpsertHeard(r).src = r.src
    BY <1>3 DEF T!UpsertHeard, T!Row
  <2> QED
    BY <1>3, <2>1
<1> QED
  BY <1>1, <1>2, <1>3

LEMMA NameGoesIn ==
  ASSUME NEW r \in T!Row, NEW tag, tag # T!Empty
  PROVE  /\ LET h == T!Enrich(r, tag) IN h.src = "csv" => h.tag = tag
         /\ LET h == T!ImportUnit(r, tag) IN h.src = "csv" => h.tag = tag
<1>1. T!Absent.src = "absent"
  BY Names
<1>2. r.src = "manual" => [r EXCEPT !.tag = T!Or(@, tag)].src = "manual"
  BY DEF T!Row
<1> QED
  BY <1>1, <1>2 DEF T!Enrich, T!ImportUnit

LEMMA CsvStep == TagsInv /\ VersionsInv /\ CsvInv /\ [T!Next]_tagsVars => CsvInv'
<1> SUFFICES ASSUME TagsInv, VersionsInv, CsvInv, [T!Next]_tagsVars PROVE CsvInv'
  OBVIOUS
<1>a. /\ kind \in {"talkgroup", "unit"}
      /\ row \in [T!Sys -> T!Row] /\ dirTags \in [T!Sys -> T!Tag]
      /\ fileTags \in Files /\ disc \in Files
      /\ watch \in Watches /\ imp \in Imports /\ heard \in Messages /\ patch \in Patches
      /\ phaseTags \in {"fixup", "import", "run"} /\ missed \in BOOLEAN
  BY TagsTypes DEF TagsInv
<1>b. /\ fileTags.stamp \in Nat /\ watch.imported \in Nat /\ imp.stamp \in Nat
      /\ patches \in Nat /\ archives \in Nat
  BY <1>a DEF Files, Watches, Imports, T!Stamp, CsvInv
<1>c. T!Ready.pc = "idle" /\ T!NoMessage.pc = "idle" /\ T!NoPatch.pc = "idle"
  BY DEF T!Ready, T!NoMessage, T!NoPatch
<1>d. /\ "s" \in T!Sys /\ row["s"] \in T!Row
      /\ T!Parses(fileTags) => fileTags.tag # T!Empty
  BY <1>a, Names DEF T!Sys, T!Parses, Files
\* With the file, the import and the directory as they are, only the row matters.
<1>e. ASSUME UNCHANGED <<kind, dirTags, fileTags, phaseTags, watch, imp, merged, missed, patches,
                         archives>>,
             patches = 0 => patch'.pc = "idle",
             heard'.pc = "enrich" => kind = "talkgroup",
             ASSUME phaseTags = "run", NameIsIn, T!Parses(fileTags)
             PROVE  row'["s"].src = "csv" => row'["s"].tag = fileTags.tag
      PROVE  CsvInv'
  BY <1>e DEF CsvInv, NameIsIn, Untouched, T!Parses
<1>f. ASSUME patches' \in Nat, archives' \in Nat, patches' > 0 \/ archives' > 0 \/ merged',
             patches' = 0 => patch'.pc = "idle",
             UNCHANGED <<kind, watch>>, merged => merged',
             heard'.pc = "enrich" => kind = "talkgroup"
      PROVE  CsvInv'
  BY <1>f DEF CsvInv, Untouched
<1>1. CASE UNCHANGED tagsVars
  <2>1. UNCHANGED <<kind, row, dirTags, fileTags, phaseTags, watch, imp, heard, patch, merged, missed,
                    patches, archives>>
    BY <1>1 DEF tagsVars
  <2> QED
    BY <2>1 DEF CsvInv, NameIsIn, Untouched, T!Parses
<1>2. CASE T!KeepPreUpgradeTagEdits
  <2>1. /\ UNCHANGED <<kind, imp, heard, patch, merged, patches, archives>>
        /\ phaseTags = "fixup" /\ phaseTags' = "import" /\ watch' = [watch EXCEPT !.on = FALSE]
    BY <1>2 DEF T!KeepPreUpgradeTagEdits, T!counters
  <2>2. imp.pc = "idle" /\ watch'.sys = watch.sys
    BY <1>a, <2>1 DEF VersionsInv, Watches
  <2> QED
    BY <2>1, <2>2 DEF CsvInv
<1>3. CASE T!Restart
  <2>1. /\ UNCHANGED <<kind, watch, merged, patches, archives>>
        /\ phaseTags' = "fixup"
        /\ imp' = T!Ready /\ heard' = T!NoMessage /\ patch' = T!NoPatch
    BY <1>3 DEF T!Restart
  <2> QED
    BY <1>c, <2>1 DEF CsvInv
<1>4. CASE T!EditFile
  <2>1. /\ UNCHANGED <<kind, dirTags, watch, imp, heard, patch, merged, missed, patches, archives>>
        /\ fileTags'.stamp = fileTags.stamp + 1
    BY <1>4 DEF T!EditFile, T!counters
  <2>2. watch'.imported # fileTags'.stamp
    BY <1>b, <2>1 DEF VersionsInv
  <2> QED
    BY <2>1, <2>2 DEF CsvInv, Untouched
<1>5. CASE T!StartImport
  <2>1. /\ UNCHANGED <<kind, dirTags, heard, patch, merged, missed, patches, archives>>
        /\ phaseTags = "import" /\ imp.pc = "idle"
    BY <1>5 DEF T!StartImport, T!counters
  <2>2. CASE ~T!Parses(disc)
    <3>1. UNCHANGED <<watch, imp>> /\ ~watch'.on
      BY <1>5, <2>1, <2>2 DEF T!StartImport, VersionsInv
    <3> QED
      BY <2>1, <3>1 DEF CsvInv, Untouched
  <2>3. CASE T!Parses(disc)
    <3>1. /\ watch' = [seen |-> disc.stamp, imported |-> disc.stamp, sys |-> T!Home, on |-> TRUE]
          /\ imp' = [pc |-> IF kind = "unit" THEN "units" ELSE "directory", tag |-> disc.tag,
                     stamp |-> disc.stamp, failed |-> FALSE]
          /\ phaseTags' = "import"
      BY <1>5, <2>1, <2>3 DEF T!StartImport
    <3>2. imp'.pc # "enrich" /\ (~merged => watch'.sys = "s")
      BY <3>1 DEF T!Home
    <3> QED
      BY <2>1, <3>1, <3>2 DEF CsvInv, Untouched
  <2> QED
    BY <2>2, <2>3
<1>6. CASE T!Poll
  <2>1. /\ UNCHANGED <<kind, row, dirTags, fileTags, phaseTags, heard, patch, merged, missed, patches,
                       archives>>
        /\ imp.pc = "idle"
        /\ watch' = [watch EXCEPT !.seen = fileTags.stamp]
        /\ imp' = imp \/ imp' = [imp EXCEPT !.pc = "load", !.stamp = fileTags.stamp]
    BY <1>6 DEF T!Poll, T!counters
  <2>2. /\ watch'.imported = watch.imported /\ watch'.on = watch.on /\ watch'.sys = watch.sys
        /\ imp'.pc # "enrich"
    BY <1>a, <2>1 DEF Watches, Imports
  <2> QED
    BY <2>1, <2>2 DEF CsvInv, NameIsIn, Untouched, T!Parses
<1>7. CASE T!LoadCSV
  <2>1. /\ UNCHANGED <<kind, row, dirTags, fileTags, phaseTags, heard, patch, merged, missed, patches,
                       archives>>
        /\ imp.pc = "load"
    BY <1>7 DEF T!LoadCSV, T!counters
  <2>2. CASE ~T!Parses(fileTags)
    <3>1. watch' = [watch EXCEPT !.imported = imp.stamp] /\ imp' = T!Ready
      BY <1>7, <2>2 DEF T!LoadCSV
    <3>2. watch'.sys = watch.sys /\ ~T!Parses(fileTags)'
      BY <1>a, <2>1, <2>2, <3>1 DEF Watches, T!Parses
    <3> QED
      BY <1>c, <2>1, <3>1, <3>2 DEF CsvInv, Untouched
  <2>3. CASE T!Parses(fileTags)
    <3>1. /\ imp' = [imp EXCEPT !.pc = IF kind = "unit" THEN "units" ELSE "directory",
                                !.tag = fileTags.tag]
          /\ UNCHANGED watch
      BY <1>7, <2>3 DEF T!LoadCSV
    <3>2. imp'.pc # "enrich"
      BY <1>a, <3>1 DEF Imports
    <3> QED
      BY <2>1, <3>1, <3>2 DEF CsvInv, NameIsIn, Untouched, T!Parses
  <2> QED
    BY <2>2, <2>3
<1>8. CASE T!UpsertTalkgroupDirectory
  <2>1. /\ UNCHANGED <<kind, row, fileTags, phaseTags, watch, heard, patch, merged, missed, patches,
                       archives>>
        /\ imp.pc = "directory"
    BY <1>8 DEF T!UpsertTalkgroupDirectory
  <2>2. ~(phaseTags' = "run" /\ watch'.imported = fileTags'.stamp)
    BY <1>b, <2>1 DEF VersionsInv
  <2>3. imp'.failed \/ (dirTags' = [dirTags EXCEPT ![watch.sys] = imp.tag] /\ imp'.tag = imp.tag)
    BY <1>8, <1>a DEF T!UpsertTalkgroupDirectory, Imports
  <2> QED
    BY <1>a, <1>d, <2>1, <2>2, <2>3 DEF CsvInv, Untouched
\* The last statement of an import: it worked, and its version is the present one, or another
\* one will be seen.
<1>9. CASE T!EnrichTalkgroups \/ T!ImportUnitTags
  <2>1. /\ UNCHANGED <<kind, dirTags, fileTags, heard, patch, merged, patches, archives>>
        /\ imp.pc \in {"enrich", "units"} /\ imp' = T!Ready /\ phaseTags' = "run"
        /\ phaseTags \in {"import", "run"}
    BY <1>9, <1>a DEF T!EnrichTalkgroups, T!ImportUnitTags, T!ImportEnds, VersionsInv
  <2>2. watch'.sys = watch.sys
    <3>1. watch' = watch \/ watch' = [watch EXCEPT !.imported = imp.stamp]
      BY <1>9 DEF T!EnrichTalkgroups, T!ImportUnitTags, T!ImportEnds
    <3> QED
      BY <1>a, <3>1 DEF Watches
  <2>3. ASSUME Untouched', watch'.imported = fileTags.stamp, T!Parses(fileTags)
        PROVE  NameIsIn'
    <3>1. ~merged /\ watch.sys = "s" /\ patches = 0 /\ archives = 0 /\ ~missed'
      BY <2>1, <2>3 DEF Untouched, CsvInv
    <3>2. CASE T!EnrichTalkgroups
      <4>1. imp.pc = "enrich" /\ kind = "talkgroup"
        BY <3>2 DEF T!EnrichTalkgroups, VersionsInv
      <4>2. \/ /\ row' = [row EXCEPT !["s"] = T!Enrich(@, dirTags["s"])]
               /\ T!ImportEnds(~imp.failed)
            \/ T!ImportEnds(FALSE)
        BY <3>1, <3>2 DEF T!EnrichTalkgroups
      <4>3. ~T!ImportEnds(FALSE)
        <5> SUFFICES ASSUME T!ImportEnds(FALSE) PROVE FALSE
          OBVIOUS
        <5>1. watch' = watch /\ phaseTags = "run"
          BY <2>1, <3>1 DEF T!ImportEnds
        <5>2. watch.imported = fileTags.stamp /\ imp.pc # "idle"
          BY <2>1, <2>3, <5>1
        <5>3. watch.imported < fileTags.stamp
          BY <1>b, <5>1, <5>2 DEF VersionsInv
        <5> QED
          BY <1>b, <5>2, <5>3
      <4>4. ~imp.failed /\ ~missed /\ imp.stamp = fileTags.stamp
        <5>1. CASE imp.failed
          <6>1. T!ImportEnds(FALSE)
            BY <4>2, <5>1 DEF T!ImportEnds
          <6> QED
            BY <4>3, <6>1
        <5>2. CASE ~imp.failed
          <6>1. ~missed
            BY <3>1, <4>2, <4>3 DEF T!ImportEnds
          <6>2. phaseTags = "run" => watch' = [watch EXCEPT !.imported = imp.stamp]
            BY <4>2, <4>3, <5>2 DEF T!ImportEnds
          <6>3. phaseTags = "import" => watch' = watch /\ watch.imported = imp.stamp
            BY <4>1, <4>2, <4>3, <2>1 DEF T!ImportEnds, VersionsInv
          <6>4. watch'.imported = imp.stamp
            BY <1>a, <2>1, <6>2, <6>3 DEF Watches
          <6> QED
            BY <2>3, <5>2, <6>1, <6>4
        <5> QED
          BY <5>1, <5>2
      <4>5. dirTags["s"] = fileTags.tag
        BY <3>1, <4>1, <4>4 DEF CsvInv, VersionsInv, Untouched
      <4>6. row'["s"] = T!Enrich(row["s"], fileTags.tag)
        BY <1>a, <1>d, <4>2, <4>3, <4>5
      <4> QED
        BY <1>d, <2>1, <2>3, <4>5, <4>6, NameGoesIn DEF NameIsIn
    <3>3. CASE T!ImportUnitTags
      <4>1. imp.pc = "units" /\ kind = "unit"
        BY <3>3 DEF T!ImportUnitTags, VersionsInv
      <4>2. \/ /\ row' = [row EXCEPT !["s"] = T!ImportUnit(@, imp.tag)]
               /\ T!ImportEnds(TRUE)
            \/ T!ImportEnds(FALSE)
        BY <3>1, <3>3 DEF T!ImportUnitTags
      <4>3. ~T!ImportEnds(FALSE)
        <5> SUFFICES ASSUME T!ImportEnds(FALSE) PROVE FALSE
          OBVIOUS
        <5>1. watch' = watch /\ phaseTags = "run"
          BY <2>1, <3>1 DEF T!ImportEnds
        <5>2. watch.imported = fileTags.stamp /\ imp.pc # "idle"
          BY <2>1, <2>3, <5>1
        <5>3. watch.imported < fileTags.stamp
          BY <1>b, <5>1, <5>2 DEF VersionsInv
        <5> QED
          BY <1>b, <5>2, <5>3
      <4>4. imp.stamp = fileTags.stamp
        <5>1. phaseTags = "run" => watch' = [watch EXCEPT !.imported = imp.stamp]
          BY <4>2, <4>3 DEF T!ImportEnds
        <5>2. phaseTags = "import" => watch' = watch /\ watch.imported = imp.stamp
          BY <2>1, <4>1, <4>2, <4>3 DEF T!ImportEnds, VersionsInv
        <5> QED
          BY <1>a, <2>1, <2>3, <5>1, <5>2 DEF Watches
      <4>5. row'["s"] = T!ImportUnit(row["s"], fileTags.tag)
        BY <1>a, <1>d, <4>1, <4>2, <4>3, <4>4 DEF VersionsInv
      <4> QED
        BY <1>d, <2>1, <2>3, <4>1, <4>5, NameGoesIn DEF NameIsIn
    <3> QED
      BY <1>9, <3>2, <3>3
  <2> QED
    BY <1>c, <2>1, <2>2, <2>3 DEF CsvInv, T!Parses
<1>10. CASE \E s \in T!Sys : T!Upsert(s)
  <2>w. PICK s \in T!Sys : T!Upsert(s)
    BY <1>10
  <2>1. /\ UNCHANGED <<kind, dirTags, fileTags, phaseTags, watch, imp, patch, merged, missed, patches,
                       archives>>
        /\ heard'.pc = "enrich" => kind = "talkgroup"
        /\ row' = [row EXCEPT ![s] = T!UpsertHeard(@)]
    BY <2>w DEF T!Upsert, T!counters
  <2>2. row'["s"] = row["s"] \/ row'["s"] = T!UpsertHeard(row["s"])
    BY <1>a, <1>d, <2>1
  <2>3. ASSUME NameIsIn PROVE row'["s"].src = "csv" => row'["s"].tag = fileTags.tag
    BY <1>d, <2>2, <2>3, NameStaysIn DEF NameIsIn
  <2>4. patches = 0 => patch'.pc = "idle"
    BY <2>1 DEF CsvInv
  <2> QED
    BY <1>e, <2>1, <2>3, <2>4
<1>11. CASE T!EnrichHeard
  <2>1. /\ UNCHANGED <<kind, dirTags, fileTags, phaseTags, watch, imp, patch, merged, missed, patches,
                       archives>>
        /\ heard' = T!NoMessage /\ heard.pc = "enrich"
        /\ row' = row \/ row' = [row EXCEPT ![heard.sys] = T!Enrich(@, dirTags[heard.sys])]
    BY <1>11 DEF T!EnrichHeard
  <2>2. row'["s"] = row["s"] \/ row'["s"] = T!Enrich(row["s"], dirTags["s"])
    BY <1>a, <1>d, <2>1
  <2>3. ASSUME NameIsIn, T!Parses(fileTags)
        PROVE  row'["s"].src = "csv" => row'["s"].tag = fileTags.tag
    <3>1. dirTags["s"] = fileTags.tag /\ fileTags.tag # T!Empty
      BY <1>d, <2>1, <2>3 DEF NameIsIn, CsvInv
    <3> QED
      BY <1>d, <2>2, <2>3, <3>1, NameGoesIn DEF NameIsIn
  <2>4. (patches = 0 => patch'.pc = "idle") /\ heard'.pc # "enrich"
    BY <1>c, <2>1 DEF CsvInv
  <2> QED
    BY <1>e, <2>1, <2>3, <2>4
\* The others leave traces.
<1>12. CASE \E s \in T!Sys, does \in {"name", "describe", "csv", "mqtt"} : T!Patch(s, does)
  <2>1. /\ UNCHANGED <<kind, watch, heard, merged, archives>> /\ patches' = patches + 1
    BY <1>12 DEF T!Patch
  <2>2. patches' \in Nat /\ patches' > 0 /\ patches' # 0
    BY <1>b, <2>1
  <2> QED
    BY <1>b, <1>f, <2>1, <2>2 DEF CsvInv
<1>13. CASE T!WriteBack \/ T!WriteBackDirectory
  <2>1. /\ UNCHANGED <<kind, watch, heard, merged, patches, archives>> /\ patch.pc # "idle"
    BY <1>13 DEF T!WriteBack, T!WriteBackDirectory, T!counters
  <2>2. patches' > 0 /\ patches' # 0
    BY <1>b, <2>1 DEF CsvInv
  <2> QED
    BY <1>b, <1>f, <2>1, <2>2 DEF CsvInv
<1>14. CASE \/ \E s \in T!Sys, src \in {T!Empty, "mqtt", "csv", "manual"} : T!ImportArchive(s, src)
            \/ \E s \in T!Sys : T!Upload(s)
  <2>1. /\ UNCHANGED <<kind, watch, patch, merged, patches>> /\ archives' = archives + 1
        /\ heard' = heard \/ kind # "unit"
    BY <1>14 DEF T!ImportArchive, T!Upload
  <2>2. archives' \in Nat /\ archives' > 0
    BY <1>b, <2>1
  <2>3. heard'.pc = "enrich" => kind = "talkgroup"
    BY <1>a, <2>1 DEF CsvInv
  <2>4. patches' = 0 => patch'.pc = "idle"
    BY <2>1 DEF CsvInv
  <2> QED
    BY <1>b, <1>f, <2>1, <2>2, <2>3, <2>4
<1>15. CASE T!Merge
  <2>1. UNCHANGED <<kind, watch, heard, patch, patches, archives>> /\ merged' = TRUE
    BY <1>15 DEF T!Merge, T!counters
  <2>2. (heard'.pc = "enrich" => kind = "talkgroup") /\ (patches' = 0 => patch'.pc = "idle")
    BY <2>1 DEF CsvInv
  <2> QED
    BY <1>b, <1>f, <2>1, <2>2
<1> QED
  BY <1>1, <1>2, <1>3, <1>4, <1>5, <1>6, <1>7, <1>8, <1>9, <1>10, <1>11, <1>12, <1>13, <1>14, <1>15
  DEF T!Next, T!Import

\* The safety behind CsvReachesRows: a version of the CSV file that counts as imported, and so is
\* never loaded again, is in the directory and the rows, whatever was saved between a poll, its
\* load and the statements of its import, and however those failed
\* (trconfig/filewatch.go, main.go, talkgroups.go, units.go).
THEOREM ImportedAlwaysThere == StreamsSpec => [](part = "tags" => T!ImportedIsThere)
<1> DEFINE Inv == part = "tags" => TagsInv /\ VersionsInv /\ CsvInv
<1>1. StreamsInit => Inv
  BY TagsInit, VersionsInit, CsvInit DEF StreamsInit
<1>2. Inv /\ [StreamsNext]_streamsVars => Inv'
  BY TagsStep, VersionsStep, CsvStep DEF StreamsNext, streamsVars
<1>3. Inv => (part = "tags" => T!ImportedIsThere)
  <2> SUFFICES ASSUME TagsInv, CsvInv PROVE T!ImportedIsThere
    OBVIOUS
  <2>1. merged \in BOOLEAN /\ missed \in BOOLEAN
    BY TagsTypes DEF TagsInv
  <2>2. patches + archives > 0 \/ (patches = 0 /\ archives = 0)
    BY DEF CsvInv
  <2> QED
    BY <2>1, <2>2 DEF CsvInv, Untouched, NameIsIn, T!ImportedIsThere
<1> QED
  BY <1>1, <1>2, <1>3, PTL DEF StreamsSpec

-----------------------------------------------------------------------------
(* Watcher.                                                                *)

\* Of the file and its directory: the directory is there when the file is, somebody will
\* add it as long as it is not watched, and the backfill begins when Start is over.
WatcherInv ==
  /\ W!TypeOK /\ faultsWatcher \in Nat /\ stops \in Nat
  /\ start # "root" /\ stops = 0 => "root" \in watched
  /\ fileWatcher # "absent" => dirWatcher
  /\ back.pc # "off" => start = "done"
  /\ start = "done" => (backfills <=> back.pc # "off")
  /\ back.found => back.pc = "work"
  /\ dirWatcher /\ "dir" \notin watched /\ stops = 0 /\ faultsWatcher = 0 => W!DirectoryInHand
  /\ W!FileInHand

Told(q, x) == \E i \in 1 .. Len(q) : q[i] = x

LEMMA EventTold ==
  ASSUME NEW q \in Seq({"dir", "file"}), NEW x \in {"dir", "file"}
  PROVE  /\ Append(q, x) \in Seq({"dir", "file"}) /\ Told(Append(q, x), x)
         /\ \A y : Told(q, y) => Told(Append(q, x), y)
<1>1. /\ Append(q, x) \in Seq({"dir", "file"}) /\ Len(q) \in Nat
      /\ Len(Append(q, x)) = Len(q) + 1 /\ Append(q, x)[Len(q) + 1] = x
      /\ \A i \in 1 .. Len(q) : Append(q, x)[i] = q[i]
  OBVIOUS
<1> QED
  BY <1>1 DEF Told

LEMMA EventTaken ==
  ASSUME NEW q \in Seq({"dir", "file"}), q # <<>>
  PROVE  /\ Tail(q) \in Seq({"dir", "file"}) /\ Head(q) \in {"dir", "file"}
         /\ \A y : Told(q, y) => y = Head(q) \/ Told(Tail(q), y)
<1>1. /\ Tail(q) \in Seq({"dir", "file"}) /\ Head(q) = q[1] /\ Head(q) \in {"dir", "file"}
      /\ Len(q) \in Nat \ {0} /\ Len(Tail(q)) = Len(q) - 1
      /\ \A i \in 1 .. Len(q) - 1 : Tail(q)[i] = q[i + 1]
  OBVIOUS
<1>2. ASSUME NEW y, NEW i \in 1 .. Len(q), q[i] = y, i # 1 PROVE Told(Tail(q), y)
  <2>1. i - 1 \in 1 .. Len(Tail(q)) /\ Tail(q)[i - 1] = y
    BY <1>1, <1>2
  <2> QED
    BY <2>1 DEF Told
<1> QED
  BY <1>1, <1>2 DEF Told

LEMMA WatcherTold ==
  /\ \A x : W!InEvents(x) <=> Told(events, x)
  /\ \A x : W!InEvents(x)' <=> Told(events', x)
BY DEF W!InEvents, Told

LEMMA WatcherInit == W!Init => WatcherInv
<1> SUFFICES ASSUME W!Init PROVE WatcherInv
  OBVIOUS
<1>1. W!TypeOK
  <2>1. /\ <<>> \in Seq({"dir", "file"})
        /\ [pc |-> "off", process |-> FALSE] \in [pc : {"off", "idle", "add", "walk"}, process : BOOLEAN]
        /\ [pc |-> "off", found |-> FALSE] \in [pc : {"off", "collect", "work", "done"}, found : BOOLEAN]
        /\ [on |-> FALSE, fired |-> 0] \in [on : BOOLEAN, fired : Nat]
    OBVIOUS
  <2> QED
    BY <2>1 DEF W!Init, W!TypeOK
<1> QED
  BY <1>1 DEF W!Init, WatcherInv, W!FileInHand, W!DirectoryInHand

\* The recorder makes the directory and writes the file, of which there is an event if
\* somebody is told.
LEMMA WatcherRecorder ==
  ASSUME WatcherInv, W!MakeDirectory \/ W!WriteFile
  PROVE  WatcherInv'
<1>1. /\ events \in Seq({"dir", "file"})
      /\ \A x \in {"dir", "file"} : /\ Append(events, x) \in Seq({"dir", "file"})
                                    /\ Told(Append(events, x), x)
                                    /\ \A y : Told(events, y) => Told(Append(events, x), y)
  BY EventTold DEF WatcherInv, W!TypeOK
<1>2. /\ UNCHANGED <<backfills, watched, start, loop, back, status, timerWatcher, ingested, passedBy,
                     faultsWatcher, stops>>
      /\ events' \in Seq({"dir", "file"}) /\ \A y : Told(events, y) => Told(events', y)
  BY <1>1 DEF W!MakeDirectory, W!WriteFile, W!Notify
<1>3. CASE W!MakeDirectory
  <2>1. /\ dirWatcher' /\ fileWatcher' = fileWatcher
        /\ "root" \in watched => Told(events', "dir")
    BY <1>1, <1>3 DEF W!MakeDirectory, W!Notify
  <2> QED
    BY <1>2, <1>3, <2>1, WatcherTold DEF W!MakeDirectory, WatcherInv, W!TypeOK, W!FileInHand,
       W!DirectoryInHand, W!FileIsFound
<1>4. CASE W!WriteFile
  <2>1. /\ dirWatcher /\ dirWatcher' = dirWatcher /\ fileWatcher' \in {"partial", "whole"}
        /\ "dir" \in watched => Told(events', "file")
    BY <1>1, <1>4 DEF W!WriteFile, W!Notify
  <2> QED
    BY <1>2, <1>4, <2>1, WatcherTold DEF WatcherInv, W!TypeOK, W!FileInHand,
       W!DirectoryInHand, W!FileIsFound
<1> QED
  BY <1>3, <1>4

\* A directory is added: it is watched, or the watcher was stopped; and what was written
\* before is passed by, looked at now, or left to the backfill.
LEMMA WatcherAdds ==
  ASSUME WatcherInv, W!StartDir \/ W!AddDirectory
  PROVE  WatcherInv'
<1>1. /\ UNCHANGED <<backfills, dirWatcher, fileWatcher, events, back, status, timerWatcher, ingested,
                     faultsWatcher, stops>>
      /\ watched' = IF stops = 0 THEN watched \cup {"dir"} ELSE watched
      /\ passedBy' \in BOOLEAN /\ (passedBy => passedBy')
  BY DEF W!StartDir, W!AddDirectory, W!AddWatch, WatcherInv, W!TypeOK
<1>2. CASE W!StartDir
  <2>1. start = "dir" /\ start' = "go" /\ loop' = loop
    BY <1>2 DEF W!StartDir
  <2>2. fileWatcher = "whole" /\ "dir" \notin watched => passedBy' \/ backfills
    BY <1>2 DEF W!StartDir, W!AddWatch, WatcherInv, W!TypeOK
  <2> QED
    BY <1>1, <2>1, <2>2, WatcherTold DEF WatcherInv, W!TypeOK, W!FileInHand, W!DirectoryInHand,
       W!FileIsFound
<1>3. CASE W!AddDirectory
  <2>1. /\ loop.pc = "add" /\ start' = start
        /\ loop' \in [pc : {"off", "idle", "add", "walk"}, process : BOOLEAN]
        /\ loop.process => loop'.pc = "walk"
    BY <1>3 DEF W!AddDirectory, WatcherInv, W!TypeOK
  <2>2. fileWatcher = "whole" /\ "dir" \notin watched /\ ~loop.process
          => passedBy' \/ (backfills /\ back.pc \in {"off", "collect"})
    BY <1>3 DEF W!AddDirectory, W!AddWatch, WatcherInv, W!TypeOK
  <2> QED
    BY <1>1, <2>1, <2>2, WatcherTold DEF WatcherInv, W!TypeOK, W!FileInHand, W!DirectoryInHand,
       W!FileIsFound
<1> QED
  BY <1>2, <1>3

\* The event loop takes an event and looks into a directory.
LEMMA WatcherLoops ==
  ASSUME WatcherInv, W!NextEvent \/ W!WalkDirectory
  PROVE  WatcherInv'
<1>1. CASE W!NextEvent
  <2>1. /\ UNCHANGED <<backfills, dirWatcher, fileWatcher, watched, start, back, status, ingested,
                       passedBy, faultsWatcher, stops>>
        /\ events' = Tail(events) /\ events # <<>>
    BY <1>1 DEF W!NextEvent
  <2>2. /\ events' \in Seq({"dir", "file"})
        /\ \A y : Told(events, y) => y = Head(events) \/ Told(events', y)
    BY <2>1, EventTaken DEF WatcherInv, W!TypeOK
  <2>3. /\ loop' \in [pc : {"off", "idle", "add", "walk"}, process : BOOLEAN]
        /\ timerWatcher' \in [on : BOOLEAN, fired : Nat]
        /\ Head(events) = "dir" => loop'.pc = "add" /\ timerWatcher' = timerWatcher
        /\ Head(events) # "dir" => timerWatcher'.on
        /\ loop.pc = "idle"
    <3>1. CASE Head(events) = "dir"
      <4>1. [pc |-> "add", process |-> status = "watching"]
              \in [pc : {"off", "idle", "add", "walk"}, process : BOOLEAN]
        OBVIOUS
      <4> QED
        BY <1>1, <3>1, <4>1 DEF W!NextEvent, WatcherInv, W!TypeOK
    <3>2. CASE Head(events) # "dir"
      BY <1>1, <3>2 DEF W!NextEvent, W!ScheduleProcess, WatcherInv, W!TypeOK
    <3> QED
      BY <3>1, <3>2
  <2> QED
    BY <2>1, <2>2, <2>3, WatcherTold DEF WatcherInv, W!TypeOK, W!FileInHand, W!DirectoryInHand,
       W!FileIsFound
<1>2. CASE W!WalkDirectory
  <2>1. /\ UNCHANGED <<backfills, dirWatcher, fileWatcher, watched, events, start, back, status,
                       ingested, passedBy, faultsWatcher, stops>>
        /\ loop' \in [pc : {"off", "idle", "add", "walk"}, process : BOOLEAN]
        /\ timerWatcher' \in [on : BOOLEAN, fired : Nat]
        /\ fileWatcher = "whole" => timerWatcher'.on
        /\ loop.pc = "walk"
        /\ timerWatcher' = timerWatcher \/ timerWatcher'.on
    BY <1>2 DEF W!WalkDirectory, W!ScheduleProcess, WatcherInv, W!TypeOK
  <2> QED
    BY <2>1, WatcherTold DEF WatcherInv, W!TypeOK, W!FileInHand, W!DirectoryInHand, W!FileIsFound
<1> QED
  BY <1>1, <1>2

\* Start goes on, the watcher is stopped, or events are lost.
LEMMA WatcherStarts ==
  ASSUME WatcherInv,
         W!StartRoot \/ W!StartList \/ W!StartLoop \/ W!StartEnds \/ W!Stop \/ W!LoseEvents
  PROVE  WatcherInv'
<1>1. CASE W!StartRoot \/ W!StartList
  <2>1. /\ UNCHANGED <<backfills, dirWatcher, fileWatcher, events, loop, back, status, timerWatcher,
                       ingested, passedBy, faultsWatcher, stops>>
        /\ start \in {"root", "list"} /\ start' \in {"list", "dir", "go"}
        /\ dirWatcher => start' # "go"
    BY <1>1 DEF W!StartRoot, W!StartList
  <2>2. watched' = watched \cup {"root"} \/ (watched' = watched /\ start # "root")
    BY <1>1 DEF W!StartRoot, W!StartList
  <2>3. W!TypeOK'
    <3>1. watched' \subseteq {"root", "dir"} /\ start' \in {"root", "list", "dir", "go", "done"}
      BY <2>1, <2>2 DEF WatcherInv, W!TypeOK
    <3> QED
      BY <2>1, <3>1 DEF WatcherInv, W!TypeOK
  <2> QED
    BY <2>1, <2>2, <2>3 DEF WatcherInv, W!TypeOK, W!FileInHand, W!DirectoryInHand, W!FileIsFound,
       W!InEvents
<1>2. CASE W!StartLoop \/ W!StartEnds
  BY <1>2, WatcherTold DEF W!StartLoop, W!StartEnds, WatcherInv, W!TypeOK, W!FileInHand,
     W!DirectoryInHand, W!FileIsFound
<1>3. CASE W!Stop
  <2>1. <<>> \in Seq({"dir", "file"}) /\ stops' \in Nat /\ stops' # 0
    BY <1>3 DEF W!Stop, WatcherInv
  <2> QED
    BY <1>3, <2>1 DEF W!Stop, WatcherInv, W!TypeOK, W!FileInHand
<1>4. CASE W!LoseEvents
  <2>1. <<>> \in Seq({"dir", "file"}) /\ faultsWatcher' \in Nat /\ faultsWatcher' # 0
    BY <1>4 DEF W!LoseEvents, WatcherInv
  <2> QED
    BY <1>4, <2>1 DEF W!LoseEvents, WatcherInv, W!TypeOK, W!FileInHand
<1> QED
  BY <1>1, <1>2, <1>3, <1>4

\* The timers and the backfill: a whole file that is processed is ingested, or a statement
\* fails for it.
LEMMA WatcherProcesses ==
  ASSUME WatcherInv, W!Timer \/ W!Backfilling
  PROVE  WatcherInv'
<1>1. /\ UNCHANGED <<backfills, dirWatcher, fileWatcher, watched, events, start, loop, passedBy, stops>>
      /\ UNCHANGED W!DirectoryInHand
  BY DEF W!Timer, W!TimerRunsOut, W!TimerProcesses, W!Backfilling, W!BackfillBegins,
     W!BackfillCollects, W!BackfillProcesses, W!BackfillEnds, W!DirectoryInHand, W!InEvents
<1>2. CASE W!TimerRunsOut
  BY <1>1, <1>2, WatcherTold DEF W!TimerRunsOut, WatcherInv, W!TypeOK, W!FileInHand, W!FileIsFound
<1>3. CASE W!BackfillBegins \/ W!BackfillCollects \/ W!BackfillEnds
  BY <1>1, <1>3, WatcherTold DEF W!BackfillBegins, W!BackfillCollects, W!BackfillEnds, WatcherInv,
     W!TypeOK, W!FileInHand, W!FileIsFound
<1>4. CASE W!TimerProcesses \/ W!BackfillProcesses
  <2>1. /\ faultsWatcher' \in Nat /\ ingested' \in BOOLEAN /\ (ingested => ingested')
        /\ faultsWatcher' # 0 \/ faultsWatcher' = faultsWatcher
        /\ fileWatcher = "whole" => ingested' \/ faultsWatcher' # 0
    <3>1. W!ProcessJSONFile /\ faultsWatcher \in Nat /\ ingested \in BOOLEAN
      BY <1>4 DEF W!TimerProcesses, W!BackfillProcesses, WatcherInv, W!TypeOK
    <3>2. CASE fileWatcher = "whole" /\ ingested' = TRUE /\ UNCHANGED faultsWatcher
      BY <3>1, <3>2
    <3>3. CASE fileWatcher # "whole" /\ UNCHANGED <<ingested, faultsWatcher>>
      BY <3>1, <3>3
    <3>4. CASE faultsWatcher' = faultsWatcher + 1 /\ UNCHANGED ingested
      <4>1. faultsWatcher' \in Nat /\ faultsWatcher' # 0
        BY <3>1, <3>4
      <4> QED
        BY <3>1, <3>4, <4>1
    <3> QED
      BY <3>1, <3>2, <3>3, <3>4 DEF W!ProcessJSONFile
  <2>2. /\ timerWatcher' \in [on : BOOLEAN, fired : Nat] /\ status' = status
        /\ back' \in [pc : {"off", "collect", "work", "done"}, found : BOOLEAN]
        /\ back'.pc = back.pc /\ (back'.found => back.found)
    <3>1. CASE W!TimerProcesses
      BY <3>1 DEF W!TimerProcesses, WatcherInv, W!TypeOK
    <3>2. CASE W!BackfillProcesses
      BY <3>2 DEF W!BackfillProcesses, WatcherInv, W!TypeOK
    <3> QED
      BY <1>4, <3>1, <3>2
  <2> QED
    BY <1>1, <2>1, <2>2 DEF WatcherInv, W!TypeOK, W!FileInHand
<1> QED
  BY <1>2, <1>3, <1>4 DEF W!Timer, W!Backfilling

LEMMA WatcherStep == WatcherInv /\ [W!Next]_watcherVars => WatcherInv'
<1> SUFFICES ASSUME WatcherInv, [W!Next]_watcherVars PROVE WatcherInv'
  OBVIOUS
<1>1. CASE UNCHANGED watcherVars
  BY <1>1 DEF watcherVars, WatcherInv, W!TypeOK, W!FileInHand, W!DirectoryInHand, W!FileIsFound,
     W!InEvents
<1> QED
  BY <1>1, WatcherRecorder, WatcherAdds, WatcherLoops, WatcherStarts, WatcherProcesses
  DEF W!Next, W!Starting, W!Loop

\* A whole file that was not ingested is always in somebody's hand, in whatever order its
\* writes, the directory's, Start, the backfill, the event loop and the debounce timers take
\* their steps, unless it was passed by, an event or a statement was lost, or the watcher was
\* stopped (watcher.go).
THEOREM FilesStayInHand == StreamsSpec => [](part = "watcher" => W!TypeOK /\ W!FileInHand)
<1> DEFINE Inv == part = "watcher" => WatcherInv
<1>1. StreamsInit => Inv
  BY WatcherInit DEF StreamsInit
<1>2. Inv /\ [StreamsNext]_streamsVars => Inv'
  BY WatcherStep DEF StreamsNext, streamsVars
<1>3. Inv => (part = "watcher" => W!TypeOK /\ W!FileInHand)
  BY DEF WatcherInv
<1> QED
  BY <1>1, <1>2, <1>3, PTL DEF StreamsSpec
====
