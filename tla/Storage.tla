------------------------------ MODULE Storage ------------------------------
(***************************************************************************)
(* One audio file in the tiered store (internal/storage): it is written to *)
(* the local disk, copied to S3 at once or by the uploader, looked after   *)
(* by the reconciler, removed from the local disk by the pruner, and       *)
(* fetched back when it is opened.                                         *)
(*                                                                         *)
(* A file may be written again under the same key: versions are numbers.   *)
(* An action is one call of the file system or of S3, or what a goroutine  *)
(* does with memory between two of them.                                   *)
(***************************************************************************)
EXTENDS Naturals, Sequences

CONSTANTS
  Workers,       \* of the uploader (2)
  QueueSize,     \* of the uploader (500)
  MaxVersions,   \* writes of the file
  MaxFaults,     \* failing calls
  MaxRestarts

VARIABLES
  mode,      \* UPLOAD_MODE: "async" or "sync"
  local,     \* the version on the disk, 0 when there is none
  s3,        \* the version in S3, 0 when there is none
  dir,       \* the directory of the file's date exists
  temps,     \* temporary files in it, by their writer
  over,      \* the directory's date is over
  writer,    \* the handler that saves, and the request that caches what it opened
  upload,    \* the uploader: its channel, closed or not, and what each worker has
  pruner,    \* where the pruner is
  recon,     \* where the reconciler is, with what it read
  saves,     \* writes of the file so far
  saved,     \* the newest version a handler was told is saved
  faults, restarts

vars == <<mode, local, s3, dir, temps, over, writer, upload, pruner, recon, saves, saved, faults,
          restarts>>

Version == 1 .. MaxVersions
Maybe == 0 .. MaxVersions
Idle == [pc |-> "idle", v |-> 0]
NoUploads == [ch |-> <<>>, closed |-> FALSE, work |-> [w \in Workers |-> 0]]

TypeOK ==
  /\ mode \in {"async", "sync"}
  /\ local \in Maybe /\ s3 \in Maybe /\ saves \in Maybe /\ saved \in Maybe
  /\ dir \in BOOLEAN /\ over \in BOOLEAN
  /\ temps \subseteq {"save", "open"}
  /\ writer \in [{"save", "open"} ->
                  [pc : {"idle", "fetch", "mkdir", "temp", "rename", "send", "s3"}, v : Maybe]]
  /\ upload \in [ch : Seq(Version), closed : BOOLEAN, work : [Workers -> Maybe]]
  /\ pruner \in {"idle", "ask", "remove", "dirs"}
  /\ recon \in [pc : {"idle", "ask", "read", "put"}, v : Maybe]

Init ==
  /\ mode \in {"async", "sync"}
  /\ local = 0 /\ s3 = 0 /\ saves = 0 /\ saved = 0
  /\ dir = FALSE /\ temps = {} /\ over = FALSE
  /\ writer = [w \in {"save", "open"} |-> Idle]
  /\ upload = NoUploads
  /\ pruner = "idle" /\ recon = Idle
  /\ faults = 0 /\ restarts = 0

Fault == faults < MaxFaults /\ faults' = faults + 1
Goto(w, pc) == writer' = [writer EXCEPT ![w].pc = pc]
Stops(w) == writer' = [writer EXCEPT ![w] = Idle]

-----------------------------------------------------------------------------
(* Writing to the disk: by a handler that has audio, and by Open.          *)

SaveAudio ==
  /\ writer["save"].pc = "idle" /\ saves < MaxVersions
  /\ saves' = saves + 1
  /\ writer' = [writer EXCEPT !["save"] = [pc |-> "mkdir", v |-> saves + 1]]
  /\ UNCHANGED <<mode, local, s3, dir, temps, over, upload, pruner, recon, saved, faults,
                 restarts>>

MakeDir(w) ==
  /\ writer[w].pc = "mkdir"
  /\ dir' = TRUE
  /\ Goto(w, "temp")
  /\ UNCHANGED <<mode, local, s3, temps, over, upload, pruner, recon, saves, saved, faults,
                 restarts>>

\* CreateTemp fails when the pruner has removed the directory meanwhile.
CreateTemp(w) ==
  /\ writer[w].pc = "temp"
  /\ IF dir
       THEN temps' = temps \cup {w} /\ Goto(w, "rename")
       ELSE Stops(w) /\ UNCHANGED temps
  /\ UNCHANGED <<mode, local, s3, dir, over, upload, pruner, recon, saves, saved, faults,
                 restarts>>

\* The file is there, whole; a handler goes on to S3.
Rename(w) ==
  /\ writer[w].pc = "rename"
  /\ local' = writer[w].v
  /\ temps' = temps \ {w}
  /\ IF w = "save"
       THEN /\ saved' = writer[w].v
            /\ Goto(w, IF mode = "sync" THEN "s3"
                       ELSE IF upload.closed THEN "idle" ELSE "send")
       ELSE Stops(w) /\ UNCHANGED saved
  /\ UNCHANGED <<mode, s3, dir, over, upload, pruner, recon, saves, faults, restarts>>

\* A write fails: the error is logged, the temporary file removed.
WriteFails(w) ==
  /\ writer[w].pc \in {"mkdir", "temp", "rename"} /\ Fault
  /\ temps' = temps \ {w}
  /\ Stops(w)
  /\ UNCHANGED <<mode, local, s3, dir, over, upload, pruner, recon, saves, saved, restarts>>

\* TieredStore.Save: an error of S3 is only logged.
SaveToS3 ==
  /\ writer["save"].pc = "s3"
  /\ \/ s3' = writer["save"].v /\ UNCHANGED faults
     \/ Fault /\ UNCHANGED s3
  /\ Stops("save")
  /\ UNCHANGED <<mode, local, dir, temps, over, upload, pruner, recon, saves, saved, restarts>>

\* Open: without a local file it is read from S3 and written to the disk.
OpenFile ==
  /\ writer["open"].pc = "idle" /\ saved # 0 /\ local = 0
  /\ Goto("open", "fetch")
  /\ UNCHANGED <<mode, local, s3, dir, temps, over, upload, pruner, recon, saves, saved,
                 faults, restarts>>

FetchFromS3 ==
  /\ writer["open"].pc = "fetch"
  /\ \/ /\ s3 # 0
        /\ writer' = [writer EXCEPT !["open"] = [pc |-> "mkdir", v |-> s3]]
        /\ UNCHANGED faults
     \/ s3 = 0 /\ Stops("open") /\ UNCHANGED faults
     \/ Fault /\ Stops("open")
  /\ UNCHANGED <<mode, local, s3, dir, temps, over, upload, pruner, recon, saves, saved,
                 restarts>>

-----------------------------------------------------------------------------
(* The uploader.  A file that does not fit, or comes after Stop, is left   *)
(* to the reconciler; a send on the closed channel ends the process.       *)

\* Every file but this one is in the channel, too: it may be full at any time.
Enqueue ==
  /\ writer["save"].pc = "send" /\ ~upload.closed
  /\ Stops("save")
  /\ \/ /\ Len(upload.ch) < QueueSize
        /\ upload' = [upload EXCEPT !.ch = Append(@, writer["save"].v)]
     \/ UNCHANGED upload
  /\ UNCHANGED <<mode, local, s3, dir, temps, over, pruner, recon, saves, saved, faults,
                 restarts>>

StopUploader ==
  /\ mode = "async" /\ ~upload.closed /\ restarts < MaxRestarts
  /\ upload' = [upload EXCEPT !.closed = TRUE]
  /\ UNCHANGED <<mode, local, s3, dir, temps, over, writer, pruner, recon, saves, saved,
                 faults, restarts>>

TakeJob(w) ==
  /\ upload.work[w] = 0 /\ upload.ch # <<>>
  /\ upload' = [upload EXCEPT !.ch = Tail(@), !.work[w] = Head(upload.ch)]
  /\ UNCHANGED <<mode, local, s3, dir, temps, over, writer, pruner, recon, saves, saved,
                 faults, restarts>>

UploadJob(w) ==
  /\ upload.work[w] # 0
  /\ upload' = [upload EXCEPT !.work[w] = 0]
  /\ \/ s3' = upload.work[w] /\ UNCHANGED faults
     \/ Fault /\ UNCHANGED s3
  /\ UNCHANGED <<mode, local, dir, temps, over, writer, pruner, recon, saves, saved, restarts>>

\* The process ends, by a signal, a crash or the send on the closed channel, and starts
\* again: files and S3 remain, temporary files too.
Restart ==
  /\ restarts < MaxRestarts
  /\ restarts' = restarts + 1
  /\ writer' = [w \in {"save", "open"} |-> Idle]
  /\ upload' = NoUploads
  /\ pruner' = "idle" /\ recon' = Idle
  /\ UNCHANGED <<mode, local, s3, dir, temps, over, saves, saved, faults>>

-----------------------------------------------------------------------------
(* The pruner.  The file is too old, or the disk too full, whenever it is  *)
(* looked at.                                                              *)

WalkCache ==
  /\ pruner = "idle"
  /\ pruner' = IF local # 0 THEN "ask" ELSE "dirs"
  /\ UNCHANGED <<mode, local, s3, dir, temps, over, writer, upload, recon, saves, saved,
                 faults, restarts>>

\* A slip: the pruner does not look at S3.
RemoveAnyway ==
  /\ pruner = "ask"
  /\ pruner' = "remove"
  /\ UNCHANGED <<mode, local, s3, dir, temps, over, writer, upload, recon, saves, saved,
                 faults, restarts>>

\* Exists: an error counts as no.
AskBeforeRemove ==
  /\ pruner = "ask"
  /\ \/ pruner' = (IF s3 # 0 THEN "remove" ELSE "dirs") /\ UNCHANGED faults
     \/ Fault /\ pruner' = "dirs"
  /\ UNCHANGED <<mode, local, s3, dir, temps, over, writer, upload, recon, saves, saved,
                 restarts>>

RemoveFile ==
  /\ pruner = "remove"
  /\ local' = 0
  /\ pruner' = "dirs"
  /\ UNCHANGED <<mode, s3, dir, temps, over, writer, upload, recon, saves, saved, faults,
                 restarts>>

\* A directory is removed only if it is empty.
RemoveEmptyDirs ==
  /\ pruner = "dirs"
  /\ dir' = (dir /\ (local # 0 \/ temps # {}))
  /\ pruner' = "idle"
  /\ UNCHANGED <<mode, local, s3, temps, over, writer, upload, recon, saves, saved, faults,
                 restarts>>

-----------------------------------------------------------------------------
(* The reconciler.                                                         *)

\* Twenty-four hours after its beginning a directory's date is out of the window: when
\* the date is over, however late in it the file was written.
Midnight ==
  /\ ~over /\ over' = TRUE
  /\ UNCHANGED <<mode, local, s3, dir, temps, writer, upload, pruner, recon, saves, saved,
                 faults, restarts>>

\* A slip: the dates before the cutoff are looked at, not those after it.
ReconcileOld ==
  /\ recon.pc = "idle" /\ over /\ local # 0
  /\ recon' = [recon EXCEPT !.pc = "ask"]
  /\ UNCHANGED <<mode, local, s3, dir, temps, over, writer, upload, pruner, saves, saved,
                 faults, restarts>>

Reconcile ==
  /\ recon.pc = "idle" /\ ~over /\ local # 0
  /\ recon' = [recon EXCEPT !.pc = "ask"]
  /\ UNCHANGED <<mode, local, s3, dir, temps, over, writer, upload, pruner, saves, saved,
                 faults, restarts>>

AskBeforeUpload ==
  /\ recon.pc = "ask"
  /\ \/ recon' = (IF s3 # 0 THEN Idle ELSE [recon EXCEPT !.pc = "read"]) /\ UNCHANGED faults
     \/ Fault /\ recon' = [recon EXCEPT !.pc = "read"]
  /\ UNCHANGED <<mode, local, s3, dir, temps, over, writer, upload, pruner, saves, saved,
                 restarts>>

ReadFile ==
  /\ recon.pc = "read"
  /\ recon' = IF local = 0 THEN Idle ELSE [pc |-> "put", v |-> local]
  /\ UNCHANGED <<mode, local, s3, dir, temps, over, writer, upload, pruner, saves, saved,
                 faults, restarts>>

UploadAgain ==
  /\ recon.pc = "put"
  /\ \/ s3' = recon.v /\ UNCHANGED faults
     \/ Fault /\ UNCHANGED s3
  /\ recon' = Idle
  /\ UNCHANGED <<mode, local, dir, temps, over, writer, upload, pruner, saves, saved, restarts>>

Reconciler == Reconcile \/ AskBeforeUpload \/ ReadFile \/ UploadAgain

Next ==
  \/ SaveAudio
  \/ \E w \in {"save", "open"} : MakeDir(w) \/ CreateTemp(w) \/ Rename(w) \/ WriteFails(w)
  \/ SaveToS3 \/ Enqueue \/ StopUploader
  \/ OpenFile \/ FetchFromS3
  \/ \E w \in Workers : TakeJob(w) \/ UploadJob(w)
  \/ Restart
  \/ WalkCache \/ AskBeforeRemove \/ RemoveFile \/ RemoveEmptyDirs
  \/ Reconciler
  \/ Midnight

\* The reconciler's ticker ticks, and its calls are answered.
Fairness == WF_vars(Reconciler)

Spec == Init /\ [][Next]_vars /\ Fairness

-----------------------------------------------------------------------------
\* A file a call refers to can be opened: the pruner takes it from the disk only when it
\* is in S3, whatever was written, uploaded or fetched meanwhile.
SavedStays == saved # 0 => local # 0 \/ s3 # 0

\* A file whose upload failed, was dropped or was cut off by a restart is in S3 at last,
\* unless its date is over before the reconciler comes to it.
ReachesS3 == saved # 0 ~> s3 # 0 \/ over
=============================================================================
