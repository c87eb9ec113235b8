-------------------------------- MODULE Files --------------------------------
(***************************************************************************)
(* How the contents of a file get from a client to the processes on a      *)
(* host: the client uploads it to a file object of the master in chunks    *)
(* (testbus/calls.c), the master keeps it with a sequence number           *)
(* (server/dbus-fileset.c), a scheduled process names its files by number  *)
(* (testbus/file.c), and the agent downloads them in chunks, keeps them in *)
(* a cache and writes an instance for the process (agent/files.c).         *)
(* Files of the host itself are copied to and from the client by the       *)
(* agent's Filesystem object (agent/dbus-filesystem.c).                    *)
(***************************************************************************)
EXTENDS Integers, Sequences, SequencesExt, FiniteSets

CONSTANTS
    TmpFile,     \* file objects (inode numbers)
    Proc,        \* processes of one host
    Nothing,
    Source,      \* what clients upload: a set of sequences of bytes
    ReadOnly,    \* files created with NI_TESTBUS_FILE_READ
    Chunk,       \* bytes per append() or retrieve() call
    SizeMax,     \* NI_TESTBUS_TMPFILE_SIZE_MAX
    HostData,    \* possible contents of the file on the host
    Changes      \* how often somebody else rewrites that file

Byte == UNION {Range(s) : s \in Source \cup HostData}

ASSUME FilesAssumption ==
    /\ Chunk \in Nat \ {0} /\ SizeMax \in Nat /\ Changes \in Nat
    /\ ReadOnly \subseteq TmpFile /\ Nothing \notin Proc
    /\ Source \subseteq Seq(Byte) /\ HostData \subseteq Seq(Byte)

VARIABLES
    mfile,    \* [TmpFile -> contents and iseq on the master, whether it exists]
    upload,   \* [TmpFile -> progress of the client that uploads it]
    signals,  \* to the agent: processScheduled, deleted
    meta,     \* [Proc -> [TmpFile -> iseq at the time the process was scheduled]]
    cached,   \* [TmpFile -> the process whose file structure is in global_files]
    iseq,     \* [Proc -> [TmpFile -> iseq of the structure]]
    buf,      \* [Proc -> [TmpFile -> file->data of the structure, Nothing if NULL]]
    inst,     \* [Proc -> [TmpFile -> process whose instance file it names]]
    uses,     \* [Proc -> [TmpFile -> process whose structure it uses]]
    job,      \* the process being started: step, file, offset
    pstate,   \* [Proc -> new, scheduled, running, exited, nonstarter]
    seen,     \* [Proc -> [TmpFile -> contents of its instance, Nothing if absent]]
    hostfile, \* contents of the file on the host
    copy      \* the client that copies it: to or from the host

fvars == <<mfile, upload>>
cacheVars == <<cached, iseq, buf, inst, uses>>
filesVars == <<mfile, upload, signals, meta, cacheVars, job, pstate, seen, hostfile, copy>>

NoJob == [step |-> "idle", proc |-> Nothing, todo |-> {}, file |-> Nothing, got |-> <<>>]
CopyIdle == [op |-> "idle", rest |-> <<>>, got |-> <<>>, size |-> 0, from |-> <<>>, changed |-> 0]

FilesInit ==
    /\ mfile = [f \in TmpFile |-> [data |-> <<>>, iseq |-> 0, exists |-> FALSE]]
    /\ upload = [f \in TmpFile |-> [state |-> "new", rest |-> <<>>, src |-> <<>>]]
    /\ signals = <<>>
    /\ meta = [p \in Proc |-> <<>>]
    /\ cached = [f \in TmpFile |-> Nothing]
    /\ iseq = [p \in Proc |-> [f \in TmpFile |-> 0]]
    /\ buf = [p \in Proc |-> [f \in TmpFile |-> Nothing]]
    /\ inst = [p \in Proc |-> [f \in TmpFile |-> Nothing]]
    /\ uses = [p \in Proc |-> [f \in TmpFile |-> Nothing]]
    /\ job = NoJob
    /\ pstate = [p \in Proc |-> "new"]
    /\ seen = [p \in Proc |-> [f \in TmpFile |-> Nothing]]
    /\ hostfile \in HostData
    /\ copy = CopyIdle

-----------------------------------------------------------------------------
(* The client uploads to the master                                        *)

FirstChunk(s) == SubSeq(s, 1, IF Len(s) < Chunk THEN Len(s) ELSE Chunk)

CreateTempfile(f) ==
    /\ upload[f].state = "new"
    /\ mfile' = [mfile EXCEPT ![f].exists = TRUE]
    /\ \E data \in Source :
          upload' = [upload EXCEPT ![f] = [state |-> "append", rest |-> data, src |-> data]]
    /\ UNCHANGED <<signals, meta, cacheVars, job, pstate, seen, hostfile, copy>>

\* Tmpfile.append: all of the chunk or, past the limit, an error.
append(m, data) ==
    IF m.exists /\ Len(m.data) + Len(data) <= SizeMax
    THEN [m EXCEPT !.data = @ \o data, !.iseq = @ + 1]
    ELSE m

\* Mutant: the part that was sent is not taken off the buffer in full.
UploadChunkOverlaps(f) ==
    /\ upload[f].state = "append" /\ upload[f].rest # <<>>
    /\ LET data == FirstChunk(upload[f].rest)
           m == append(mfile[f], data)
       IN  /\ mfile' = [mfile EXCEPT ![f] = m]
           /\ upload' = [upload EXCEPT ![f] =
                 IF m = mfile[f] THEN [@ EXCEPT !.state = "failed"]
                 ELSE [@ EXCEPT !.rest = SubSeq(@, Chunk + 2, Len(@))]]
    /\ UNCHANGED <<signals, meta, cacheVars, job, pstate, seen, hostfile, copy>>

UploadChunk(f) ==
    /\ upload[f].state = "append" /\ upload[f].rest # <<>>
    /\ LET data == FirstChunk(upload[f].rest)
           m == append(mfile[f], data)
       IN  /\ mfile' = [mfile EXCEPT ![f] = m]
           /\ upload' = [upload EXCEPT ![f] =
                 IF m = mfile[f] THEN [upload[f] EXCEPT !.state = "failed"]
                 ELSE [upload[f] EXCEPT !.rest = SubSeq(@, Len(data) + 1, Len(@))]]
    /\ UNCHANGED <<signals, meta, cacheVars, job, pstate, seen, hostfile, copy>>

UploadDone(f) ==
    /\ upload[f].state = "append" /\ upload[f].rest = <<>>
    /\ upload' = [upload EXCEPT ![f].state = "done"]
    /\ UNCHANGED <<mfile, signals, meta, cacheVars, job, pstate, seen, hostfile, copy>>

\* The container of the file is deleted; the agent is told with a signal.
DeleteFile(f) ==
    /\ mfile[f].exists
    /\ mfile' = [mfile EXCEPT ![f].exists = FALSE]
    /\ signals' = Append(signals, <<"deleted", f>>)
    /\ UNCHANGED <<upload, meta, cacheVars, job, pstate, seen, hostfile, copy>>

\* processScheduled carries name, number and sequence number, no contents.
Schedule(p) ==
    /\ pstate[p] = "new" /\ \E f \in TmpFile : mfile[f].exists
    /\ meta' = [meta EXCEPT ![p] =
          [f \in {g \in TmpFile : mfile[g].exists} |-> [iseq |-> mfile[f].iseq, len |-> Len(mfile[f].data)]]]
    /\ signals' = Append(signals, <<"processScheduled", p>>)
    /\ pstate' = [pstate EXCEPT ![p] = "scheduled"]
    /\ UNCHANGED <<mfile, upload, cacheVars, job, seen, hostfile, copy>>

-----------------------------------------------------------------------------
(* The agent starts a process                                              *)

\* The structures are made from the signal; each process uses its own.
StartProcess ==
    /\ job.step = "idle" /\ signals # <<>> /\ Head(signals)[1] = "processScheduled"
    /\ LET p == Head(signals)[2] IN
       /\ iseq' = [iseq EXCEPT ![p] = [f \in TmpFile |-> IF f \in DOMAIN meta[p] THEN meta[p][f].iseq ELSE 0]]
       /\ uses' = [uses EXCEPT ![p] = [f \in TmpFile |-> IF f \in DOMAIN meta[p] THEN p ELSE Nothing]]
       /\ job' = [step |-> "attach", proc |-> p, todo |-> DOMAIN meta[p], file |-> Nothing, got |-> <<>>]
    /\ signals' = Tail(signals)
    /\ UNCHANGED <<mfile, upload, meta, cached, buf, inst, pstate, seen, hostfile, copy>>

\* The file's contents are needed: download if it may be read.
Need(f) == IF f \in ReadOnly THEN [job EXCEPT !.step = "download", !.file = f, !.todo = @ \ {f}, !.got = <<>>]
           ELSE [job EXCEPT !.todo = @ \ {f}]

\* The instance file a structure names is removed; whoever has it loses it.
drop_cache(q, f) ==
    /\ buf' = [buf EXCEPT ![q][f] = Nothing]
    /\ inst' = [inst EXCEPT ![q][f] = Nothing]
    /\ seen' = IF inst[q][f] = Nothing THEN seen ELSE [seen EXCEPT ![inst[q][f]][f] = Nothing]

\* Mutant: the cached structure is dropped when it is unchanged.
AttachDropsUnchanged(f) ==
    /\ job.step = "attach" /\ f \in job.todo
    /\ LET p == job.proc
           g == cached[f]
       IN  IF g = Nothing
           THEN /\ cached' = [cached EXCEPT ![f] = p] /\ job' = Need(f)
                /\ UNCHANGED <<buf, inst, uses, seen>>
           ELSE /\ drop_cache(g, f)
                /\ uses' = [uses EXCEPT ![p][f] = g]
                /\ job' = Need(f) /\ UNCHANGED cached
    /\ UNCHANGED <<mfile, upload, signals, meta, iseq, pstate, hostfile, copy>>

\* A file that is cached with the same sequence number is passed over, and the
\* process keeps its own structure, which has no data.  A cached one that is
\* out of date is emptied and used by the process.
Attach(f) ==
    /\ job.step = "attach" /\ f \in job.todo
    /\ LET p == job.proc
           g == cached[f]
       IN  CASE g = Nothing ->
                  /\ cached' = [cached EXCEPT ![f] = p] /\ job' = Need(f)
                  /\ UNCHANGED <<buf, inst, uses, seen>>
             [] g # Nothing /\ iseq[g][f] = iseq[p][f] ->
                  /\ job' = [job EXCEPT !.todo = @ \ {f}]
                  /\ UNCHANGED <<cached, buf, inst, uses, seen>>
             [] OTHER ->
                  /\ drop_cache(g, f)
                  /\ uses' = [uses EXCEPT ![p][f] = g]
                  /\ job' = Need(f) /\ UNCHANGED cached
    /\ UNCHANGED <<mfile, upload, signals, meta, iseq, pstate, hostfile, copy>>

\* Tmpfile.retrieve
retrieve(f, offset) == FirstChunk(SubSeq(mfile[f].data, offset + 1, Len(mfile[f].data)))

\* Mutant: a full chunk counts as the last one.
DownloadStopsEarly ==
    /\ job.step = "download" /\ mfile[job.file].exists
    /\ LET got == job.got \o retrieve(job.file, Len(job.got)) IN
       /\ buf' = [buf EXCEPT ![uses[job.proc][job.file]][job.file] = got]
       /\ job' = [job EXCEPT !.step = "attach", !.file = Nothing, !.got = <<>>]
    /\ UNCHANGED <<fvars, signals, meta, cached, iseq, inst, uses, pstate, seen, hostfile, copy>>

\* One call to the master; other calls reach the master between two of them.
\* A chunk that is not full is the last.
Download ==
    /\ job.step = "download" /\ mfile[job.file].exists
    /\ LET f == job.file
           data == retrieve(f, Len(job.got))
           got == job.got \o data
       IN  IF Len(data) < Chunk
           THEN /\ buf' = [buf EXCEPT ![uses[job.proc][f]][f] = got]
                /\ job' = [job EXCEPT !.step = "attach", !.file = Nothing, !.got = <<>>]
           ELSE job' = [job EXCEPT !.got = got] /\ UNCHANGED buf
    /\ UNCHANGED <<fvars, signals, meta, cached, iseq, inst, uses, pstate, seen, hostfile, copy>>

\* The file object is gone: the process is reported as a nonstarter.
DownloadFails ==
    /\ job.step = "download" /\ ~mfile[job.file].exists
    /\ pstate' = [pstate EXCEPT ![job.proc] = "nonstarter"]
    /\ job' = NoJob
    /\ UNCHANGED <<fvars, signals, meta, cacheVars, seen, hostfile, copy>>

\* An instance file is written for every structure; without data there is a
\* name and no file.
RunProcess ==
    /\ job.step = "attach" /\ job.todo = {}
    /\ LET p == job.proc
           files == {f \in TmpFile : uses[p][f] # Nothing}
       IN  /\ seen' = [seen EXCEPT ![p] = [f \in TmpFile |-> IF f \in files THEN buf[uses[p][f]][f] ELSE Nothing]]
           /\ inst' = [q \in Proc |-> [f \in TmpFile |-> IF f \in files /\ uses[p][f] = q THEN p ELSE inst[q][f]]]
           /\ pstate' = [pstate EXCEPT ![p] = "running"]
    /\ job' = NoJob
    /\ UNCHANGED <<fvars, signals, meta, cached, iseq, buf, uses, hostfile, copy>>

\* The directory of the process goes with it, the structures stay.
ProcessExit(p) ==
    /\ pstate[p] = "running"
    /\ pstate' = [pstate EXCEPT ![p] = "exited"]
    /\ UNCHANGED <<fvars, signals, meta, cacheVars, job, seen, hostfile, copy>>

DiscardCachedFile ==
    /\ job.step = "idle" /\ signals # <<>> /\ Head(signals)[1] = "deleted"
    /\ cached' = [cached EXCEPT ![Head(signals)[2]] = Nothing]
    /\ signals' = Tail(signals)
    /\ UNCHANGED <<fvars, meta, iseq, buf, inst, uses, job, pstate, seen, hostfile, copy>>

-----------------------------------------------------------------------------
(* Copying to and from the host's own file system                          *)

StartAgentUpload ==
    /\ copy.op = "idle"
    /\ \E data \in HostData : copy' = [CopyIdle EXCEPT !.op = "up", !.rest = data, !.from = data]
    /\ UNCHANGED <<fvars, signals, meta, cacheVars, job, pstate, seen, hostfile>>

\* Filesystem.upload: at offset 0 the file is truncated.
fs_upload(old, offset, data) ==
    IF offset = 0 THEN data
    ELSE SubSeq(old, 1, offset) \o data

\* The offset passed is zero for every chunk.
AgentUpload ==
    /\ copy.op = "up" /\ copy.rest # <<>>
    /\ hostfile' = fs_upload(hostfile, 0, FirstChunk(copy.rest))
    /\ copy' = [copy EXCEPT !.rest = SubSeq(@, Len(FirstChunk(@)) + 1, Len(@))]
    /\ UNCHANGED <<fvars, signals, meta, cacheVars, job, pstate, seen>>

AgentUploadDone ==
    /\ copy.op = "up" /\ copy.rest = <<>>
    /\ copy' = [copy EXCEPT !.op = "uploaded"]
    /\ UNCHANGED <<fvars, signals, meta, cacheVars, job, pstate, seen, hostfile>>

\* The size is asked for first.
StartAgentDownload ==
    /\ copy.op = "idle"
    /\ copy' = [CopyIdle EXCEPT !.op = "down", !.size = Len(hostfile), !.from = hostfile]
    /\ UNCHANGED <<fvars, signals, meta, cacheVars, job, pstate, seen, hostfile>>

fs_download(offset) == FirstChunk(SubSeq(hostfile, offset + 1, Len(hostfile)))

\* The buffer has room for the size that was reported.
AgentDownload ==
    /\ copy.op = "down" /\ Len(copy.got) < copy.size
    /\ LET data == fs_download(Len(copy.got))
           room == copy.size - Len(copy.got)
       IN  copy' = [copy EXCEPT !.got = @ \o SubSeq(data, 1, IF room < Len(data) THEN room ELSE Len(data))]
    /\ UNCHANGED <<fvars, signals, meta, cacheVars, job, pstate, seen, hostfile>>

AgentDownloadDone ==
    /\ copy.op = "down" /\ Len(copy.got) = copy.size
    /\ copy' = [copy EXCEPT !.op = "downloaded"]
    /\ UNCHANGED <<fvars, signals, meta, cacheVars, job, pstate, seen, hostfile>>

HostFileChanges ==
    /\ copy.changed < Changes /\ copy.op = "down"
    /\ \E data \in HostData : data # hostfile /\ hostfile' = data
    /\ copy' = [copy EXCEPT !.changed = @ + 1]
    /\ UNCHANGED <<fvars, signals, meta, cacheVars, job, pstate, seen>>

-----------------------------------------------------------------------------
AgentStep ==
    \/ StartProcess \/ (\E f \in TmpFile : Attach(f)) \/ Download \/ DownloadFails
    \/ RunProcess \/ DiscardCachedFile

UploadStep ==
    \/ \E f \in TmpFile : CreateTempfile(f) \/ UploadChunk(f) \/ UploadDone(f) \/ DeleteFile(f)
    \/ \E p \in Proc : Schedule(p)

CopyStep ==
    \/ StartAgentUpload \/ AgentUpload \/ AgentUploadDone
    \/ StartAgentDownload \/ AgentDownload \/ AgentDownloadDone

CopyNext == CopyStep \/ HostFileChanges

\* The files of the master and those of the host have nothing in common.
MasterFilesNext == AgentStep \/ UploadStep \/ \E p \in Proc : ProcessExit(p)

FilesNext == MasterFilesNext \/ CopyNext

FilesSpec == FilesInit /\ [][FilesNext]_filesVars

-----------------------------------------------------------------------------
(* Properties                                                              *)

\* What a process finds in a file it may read is either nothing (the agent had
\* the same version cached) or contents of the master's file at least as new
\* as when the process was scheduled: a prefix that ends at a chunk written by
\* then or later, although appends run between the calls of the download.
SeenIsNewEnough ==
    \A p \in Proc, f \in TmpFile \cap ReadOnly :
        seen[p][f] # Nothing =>
            /\ IsPrefix(seen[p][f], mfile[f].data)
            /\ Len(seen[p][f]) >= meta[p][f].len

\* A running process that got contents loses them only to another one that was
\* scheduled with a version no older than its own, and newer than the version
\* the cached structure was made for (ni_testbus_file_drop_cache removes the
\* instance a cached structure names, whoever uses it).  The two may have been
\* scheduled with the same version: the number in the structure stays as it was
\* when its contents are fetched again.
LostOnlyToNewer ==
    [][\A p \in Proc, f \in TmpFile :
          pstate[p] = "running" /\ seen[p][f] # Nothing /\ seen'[p][f] = Nothing =>
              /\ job.proc # p
              /\ meta[job.proc][f].iseq >= meta[p][f].iseq
              /\ meta[job.proc][f].iseq > iseq[cached[f]][f]]_filesVars

\* An upload that ends well has put all of the source on the master, in order;
\* one that fails has left a part of it there.
UploadIsComplete ==
    \A f \in TmpFile :
        /\ upload[f].state = "done" => mfile[f].data = upload[f].src
        /\ IsPrefix(mfile[f].data, upload[f].src) /\ Len(mfile[f].data) <= SizeMax

\* A file that nobody changes is downloaded from the host as it is.
HostDownloadIsExact ==
    copy.op = "downloaded" /\ copy.changed = 0 => copy.got = copy.from

\* What was copied is what was there: to the master in chunks that may be
\* refused (Tmpfile.append), from the host in chunks whose number was worked
\* out from a size asked for before (Filesystem.download).
TransfersAreExact == UploadIsComplete /\ HostDownloadIsExact
=============================================================================
