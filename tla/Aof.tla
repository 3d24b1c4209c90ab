-------------------------------- MODULE Aof --------------------------------
(***************************************************************************)
(* The append-only file of a Redis server (aof.c) and the background       *)
(* thread that syncs it (bio.c): the multi-part files and their manifest,  *)
(* the write buffer, the fsync policies, the background rewrite, turning   *)
(* the AOF on and off, and what a restart loads.                           *)
(*                                                                         *)
(* `redis' holds the memory of the process, the files on disk and the jobs *)
(* of the bio thread; a C function is an operator from such a record to    *)
(* such a record, and its last argument `io' tells what the system calls   *)
(* it makes return.  Commands are numbered in the order they are executed, *)
(* none is idempotent, so the dataset is the sequence of commands applied. *)
(* A command c is two bytes long in the AOF, 2c-1 and 2c, which is enough   *)
(* to cut it in the middle.                                                *)
(***************************************************************************)
EXTENDS Integers, Sequences, FiniteSets, FiniteSetsExt

CONSTANTS
  MaxCommands,  \* how many commands are executed (bound)
  MaxBase,      \* the largest sequence number of a BASE file (bound)
  MaxIncr,      \* the largest sequence number of an INCR file (bound)
  MaxFaults,    \* how many system calls fail (bound)
  MaxRestarts,  \* how many times the server is started again (bound)
  Faults,       \* the system calls that may fail
  Policies,     \* the values of appendfsync in use
  None          \* no file, no child, no dataset

VARIABLE redis

vars == <<redis>>

-----------------------------------------------------------------------------
(* Files *)

BaseNames == {"base"} \X (1..MaxBase)
IncrNames == {"incr"} \X (1..MaxIncr)
Temp == <<"temp", 0>>
Names == BaseNames \cup IncrNames \cup {Temp}

\* data: what read() returns; synced: how much of it survives a power loss
File(data, synced) == [data |-> data, synced |-> synced]
Files == [data : Seq(Nat), synced : Nat]

ASSUME AofAssumption ==
  /\ MaxCommands \in Nat /\ MaxFaults \in Nat /\ MaxRestarts \in Nat
  /\ MaxBase \in Nat \ {0} /\ MaxIncr \in Nat \ {0}
  /\ Faults \subseteq {"write", "fsync", "manifest", "dirfsync", "history", "fork", "kill"}
  /\ Policies \subseteq {"always", "everysec", "no"}
  /\ None \notin Names \cup Files \cup Seq(Nat)

Last(s) == s[Len(s)]

Bytes(c) == <<2 * c - 1, 2 * c>>

\* loadSingleAppendOnlyFile() meets no format error
WellFormed(data) ==
  \A i \in DOMAIN data : IF i % 2 = 1 THEN data[i] % 2 = 1
                                      ELSE data[i] = data[i - 1] + 1

Commands(data) == [j \in 1..(Len(data) \div 2) |-> data[2 * j] \div 2]

\* The parts one after the other, behind first
Joined(first, parts) ==
  LET upto[i \in 0..Len(parts)] == IF i = 0 THEN first ELSE upto[i - 1] \o parts[i]
  IN  upto[Len(parts)]

\* loadAppendOnlyFiles(): a missing file, or a truncated one that is not the
\* last, is fatal
loadAppendOnlyFiles(files, m) ==
  IF \/ files[m.base] = None
     \/ \E i \in DOMAIN m.incr : files[m.incr[i]] = None
     \/ \E i \in DOMAIN m.incr :
          \/ ~WellFormed(files[m.incr[i]].data)
          \/ Len(files[m.incr[i]].data) % 2 = 1 /\ i # Len(m.incr)
    THEN None
    ELSE Joined(files[m.base].data, [i \in DOMAIN m.incr |-> Commands(files[m.incr[i]].data)])

-----------------------------------------------------------------------------
(* What the system calls of one step return *)

NoFault(S) == [write    |-> Len(S.aof_buf),  \* bytes that stay in the file
               fsync    |-> TRUE,            \* fsync() of the AOF
               manifest |-> "ok",            \* persistAofManifest()
               history  |-> "ok",            \* aofDelHistoryFiles()
               fork     |-> TRUE]

\* At most one of the `calls' of a step fails.  A short write that ftruncate()
\* undoes leaves nothing in the file.  "dir": the manifest is renamed but the
\* sync of its directory fails; "die": the process is killed before the manifest
\* is replaced; "early": before any history file is deleted.
IO(S, calls) ==
  LET Fail(call, fault, results) ==
        IF call \in calls /\ fault \in Faults /\ S.faults < MaxFaults THEN results ELSE {}
  IN  {NoFault(S)} \cup
      {[NoFault(S) EXCEPT !.write = n] : n \in Fail("write", "write", 0..(Len(S.aof_buf) - 1))} \cup
      {[NoFault(S) EXCEPT !.fsync = b] : b \in Fail("fsync", "fsync", {FALSE})} \cup
      {[NoFault(S) EXCEPT !.manifest = r] : r \in Fail("manifest", "manifest", {"fail"})
                                             \cup Fail("manifest", "dirfsync", {"dir"})
                                             \cup Fail("manifest", "kill", {"die"})} \cup
      {[NoFault(S) EXCEPT !.history = r] : r \in Fail("history", "history", {"fail"})
                                            \cup Fail("history", "kill", {"early", "die"})} \cup
      {[NoFault(S) EXCEPT !.fork = b] : b \in Fail("fork", "fork", {FALSE})}

Counted(S, T, io) == IF io = NoFault(S) THEN T ELSE [T EXCEPT !.faults = @ + 1]

-----------------------------------------------------------------------------
(* The bio worker of the AOF *)

master_repl_offset(S) == Len(S.dataset)

\* Mutant: no job ever counts
NeverInProgress(S) == FALSE

\* Mutant: the test is inverted
InProgressWhenIdle(S) == \A i \in DOMAIN S.jobs : S.jobs[i].close

\* Only jobs of type BIO_AOF_FSYNC count, not BIO_CLOSE_AOF
aofFsyncInProgress(S) == \E i \in DOMAIN S.jobs : ~S.jobs[i].close

Job(S, close) == [file |-> S.aof_fd, size |-> S.aof_last_incr_size,
                  offset |-> master_repl_offset(S), close |-> close]

aof_background_fsync(S) == [S EXCEPT !.jobs = Append(@, Job(S, FALSE))]

aof_background_fsync_and_close(S) ==
  IF S.aof_fd = None THEN S ELSE [S EXCEPT !.jobs = Append(@, Job(S, TRUE))]

\* The first `size' bytes of a file reach the disk, if it still has a name
Synced(S, f, size) ==
  IF f = None \/ S.files[f] = None THEN S
  ELSE [S EXCEPT !.files[f].synced = Max({@, Min({size, Len(S.files[f].data)})})]

\* fsync() guarantees what had been written when the job was submitted
Processed(S, job, ok) ==
  IF ok THEN [Synced(S, job.file, job.size) EXCEPT
                !.aof_bio_fsync_status = TRUE,
                !.fsynced_reploff_pending = job.offset]
        ELSE [S EXCEPT !.aof_bio_fsync_status = FALSE, !.missed = TRUE]

bioDrainWorker(S) ==
  LET done[i \in 0..Len(S.jobs)] == IF i = 0 THEN S ELSE Processed(done[i - 1], S.jobs[i], TRUE)
  IN  [done[Len(S.jobs)] EXCEPT !.jobs = <<>>]

-----------------------------------------------------------------------------
(* Writing *)

\* The memory of the process is gone; dataset, replied and aof_state are kept to
\* compare with what is loaded
exit(S) ==
  [S EXCEPT !.up = FALSE, !.aof_fd = None, !.aof_buf = <<>>, !.aof_flush_postponed = FALSE,
            !.aof_last_incr_size = 0, !.aof_last_incr_fsync_offset = 0,
            !.aof_last_write_status = TRUE, !.aof_bio_fsync_status = TRUE,
            !.fsynced_reploff = 0, !.fsynced_reploff_pending = 0,
            !.aof_rewrite_scheduled = FALSE, !.child = None, !.jobs = <<>>,
            !.aof_manifest = S.manifest]

\* Mutant: the server does not exit when fsync() fails
FsyncErrorIgnored(S, second, inProgress, io) ==
  CASE S.aof_fsync = "always" ->
         [(IF io.fsync THEN Synced(S, S.aof_fd, S.aof_last_incr_size) ELSE S) EXCEPT
            !.aof_last_incr_fsync_offset = S.aof_last_incr_size]
    [] S.aof_fsync = "everysec" /\ second /\ ~inProgress ->
         [aof_background_fsync(S) EXCEPT
            !.aof_last_incr_fsync_offset = S.aof_last_incr_size]
    [] OTHER -> S

\* The end of flushAppendOnlyFile(), from the label try_fsync; `second': a
\* second has passed since aof_last_fsync
TryFsync(S, second, inProgress, io) ==
  CASE S.aof_fsync = "always" /\ io.fsync ->
         [Synced(S, S.aof_fd, S.aof_last_incr_size) EXCEPT
            !.aof_last_incr_fsync_offset = S.aof_last_incr_size,
            !.fsynced_reploff_pending = master_repl_offset(S)]
    [] S.aof_fsync = "always" /\ ~io.fsync -> exit(S)
    [] S.aof_fsync = "everysec" /\ second /\ ~inProgress ->
         [aof_background_fsync(S) EXCEPT
            !.aof_last_incr_fsync_offset = S.aof_last_incr_size]
    [] OTHER -> S

\* Mutant: the size of the file is overwritten, not added to
SizeOfLastWrite(S, n) ==
  [S EXCEPT !.files = IF n = 0 \/ S.files[S.aof_fd] = None THEN @
                      ELSE [S.files EXCEPT ![S.aof_fd].data = @ \o SubSeq(S.aof_buf, 1, n)],
            !.aof_last_incr_size = n,
            !.aof_buf = SubSeq(@, n + 1, Len(@)),
            !.aof_flush_postponed = FALSE]

\* aofWrite() of the first n bytes of the buffer
Written(S, n) ==
  [S EXCEPT !.files = IF n = 0 \/ S.files[S.aof_fd] = None THEN @
                      ELSE [S.files EXCEPT ![S.aof_fd].data = @ \o SubSeq(S.aof_buf, 1, n)],
            !.aof_last_incr_size = @ + n,
            !.aof_buf = SubSeq(@, n + 1, Len(@)),
            !.aof_flush_postponed = FALSE]

\* `late': two seconds have passed since the flush was first postponed
flushAppendOnlyFile(S, force, second, late, io) ==
  LET inProgress == aofFsyncInProgress(S)
      unsynced   == S.aof_last_incr_fsync_offset # S.aof_last_incr_size
  IN  CASE S.aof_buf = <<>> /\ ~unsynced ->
             IF inProgress THEN S
             ELSE [S EXCEPT !.fsynced_reploff_pending = master_repl_offset(S)]
        [] S.aof_buf = <<>> /\ unsynced -> TryFsync(S, second, inProgress, io)
        [] /\ S.aof_buf # <<>> /\ S.aof_fsync = "everysec" /\ ~force /\ inProgress
           /\ ~(S.aof_flush_postponed /\ late) ->
             [S EXCEPT !.aof_flush_postponed = TRUE]
        [] OTHER ->
             LET W == Written(S, IF S.aof_fd = None THEN 0 ELSE io.write)
             IN  CASE W.aof_buf = <<>> ->
                        TryFsync([W EXCEPT !.aof_last_write_status = TRUE],
                                 second, inProgress, io)
                   [] W.aof_buf # <<>> /\ S.aof_fsync = "always" -> exit(W)
                   [] OTHER -> [W EXCEPT !.aof_last_write_status = FALSE]

writeCommandsDeniedByDiskError(S) ==
  S.aof_state # "OFF" /\ ~(S.aof_last_write_status /\ S.aof_bio_fsync_status)

\* Mutant: nothing is kept for the rewrite that turns the AOF on
FeedOnlyWhenOn(S, c) ==
  IF S.aof_state = "ON" THEN [S EXCEPT !.aof_buf = @ \o Bytes(c)] ELSE S

feedAppendOnlyFile(S, c) ==
  IF S.aof_state = "ON" \/ (S.aof_state = "WAIT_REWRITE" /\ S.child # None)
    THEN [S EXCEPT !.aof_buf = @ \o Bytes(c)]
    ELSE S

-----------------------------------------------------------------------------
(* The manifest *)

\* getNewBaseFileNameAndMarkPreAsHistory()
NewBase(m) == [m EXCEPT !.base = <<"base", m.base_seq + 1>>,
                        !.base_seq = @ + 1,
                        !.hist = @ \cup {m.base}]

getNewIncrAofName(m) == [m EXCEPT !.incr = Append(@, <<"incr", m.incr_seq + 1>>),
                                  !.incr_seq = @ + 1]

\* Mutant: the file that is being written is listed as history too
OpenFileIsHistory(S, m) ==
  LET kept == IF S.aof_fd # None /\ m.incr # <<>> THEN <<Last(m.incr)>> ELSE <<>>
  IN  [m EXCEPT !.incr = kept, !.hist = @ \cup Range(m.incr)]

\* The file that is being written stays an INCR file
markRewrittenIncrAofAsHistory(S, m) ==
  LET kept == IF S.aof_fd # None /\ m.incr # <<>> THEN <<Last(m.incr)>> ELSE <<>>
  IN  [m EXCEPT !.incr = kept, !.hist = @ \cup (Range(m.incr) \ Range(kept))]

\* The manifest is replaced by rename(); "dir" reports a failure although it was
persistAofManifest(S, m, result) ==
  CASE result \in {"ok", "dir"} -> [S EXCEPT !.manifest = m]
    [] result = "fail" -> S
    [] result = "die" -> exit(S)

\* A file gets the name f, in place of the one that had it
Named(S, f, file) == [S EXCEPT !.files[f] = file, !.lost = @ \ {f}]

bg_unlink(S, F) == [S EXCEPT !.files = [f \in Names |-> IF f \in F THEN None ELSE @[f]]]

aofDelHistoryFiles(S, io) ==
  IF S.aof_manifest.hist = {} THEN S
  ELSE IF io.history = "early" THEN exit(S)
  ELSE LET m == [S.aof_manifest EXCEPT !.hist = {}]
       IN  persistAofManifest([bg_unlink(S, S.aof_manifest.hist) EXCEPT !.aof_manifest = m],
                              m, io.history)

-----------------------------------------------------------------------------
(* The background rewrite *)

\* A new INCR file, or the temporary one while the first rewrite is awaited
openNewIncrAofForAppend(S, io) ==
  LET m    == getNewIncrAofName(S.aof_manifest)
      name == IF S.aof_state = "WAIT_REWRITE" THEN Temp ELSE Last(m.incr)
      C    == Named(S, name, File(<<>>, 0))
      P    == IF S.aof_state = "WAIT_REWRITE" THEN C
              ELSE [persistAofManifest(C, m, io.manifest) EXCEPT !.aof_manifest = m]
  IN  CASE S.aof_state = "OFF" -> S
        [] S.aof_state = "ON" /\ io.manifest # "ok" -> persistAofManifest(C, m, io.manifest)
        [] OTHER -> [aof_background_fsync_and_close(P) EXCEPT
                       !.aof_fd = name,
                       !.aof_last_incr_size = 0,
                       !.aof_last_incr_fsync_offset = 0,
                       !.spoilt = @ \/ S.aof_buf # <<>>]

OpenFails(S, io) == S.aof_state = "ON" /\ io.manifest # "ok"

\* The result is C_OK iff a child runs afterwards
rewriteAppendOnlyFileBackground(S, second, io) ==
  LET F == flushAppendOnlyFile(S, TRUE, second, FALSE, io)
      O == openNewIncrAofForAppend(F, io)
      W == IF S.aof_state = "WAIT_REWRITE"
             THEN [bioDrainWorker(O) EXCEPT
                     !.fsynced_reploff_pending = master_repl_offset(S),
                     !.fsynced_reploff = 0]
             ELSE O
  IN  CASE ~F.up -> F
        [] F.up /\ OpenFails(S, io) -> O
        [] F.up /\ ~OpenFails(S, io) /\ ~io.fork -> W
        [] OTHER -> [W EXCEPT !.child = S.dataset, !.aof_rewrite_scheduled = FALSE]

killAppendOnlyChild(S) == [S EXCEPT !.child = None]

\* The temporary INCR file gets its name; open descriptors follow it
RenameTempIncr(S, name) ==
  LET follow(f) == IF f = Temp THEN name ELSE f
  IN  [Named(S, name, S.files[Temp]) EXCEPT
                !.files[Temp] = None,
                !.aof_fd = follow(@),
                !.jobs = [i \in DOMAIN @ |-> [S.jobs[i] EXCEPT !.file = follow(@)]]]

\* cleanup: of backgroundRewriteDoneHandler()
RewriteCleanup(S) ==
  IF S.aof_state = "WAIT_REWRITE"
    THEN [bg_unlink(S, {Temp}) EXCEPT !.aof_buf = <<>>, !.aof_rewrite_scheduled = TRUE,
                                      !.child = None]
    ELSE [S EXCEPT !.child = None]

\* lost: the files that are deleted because the manifest was not replaced,
\* although it was
backgroundRewriteDoneHandler(S, success, io) ==
  LET wait == S.aof_state = "WAIT_REWRITE"
      m0   == NewBase(S.aof_manifest)
      m1   == IF wait THEN getNewIncrAofName(m0) ELSE m0
      m    == markRewrittenIncrAofAsHistory(S, m1)
      new  == {m.base} \cup IF wait THEN {Last(m1.incr)} ELSE {}
      B    == Named(S, m.base, File(S.child, Len(S.child)))
      R    == persistAofManifest(IF wait THEN RenameTempIncr(B, Last(m1.incr)) ELSE B,
                                 m, io.manifest)
      D    == aofDelHistoryFiles([R EXCEPT !.aof_manifest = m], io)
      ok   == success /\ (wait => S.files[Temp] # None)
  IN  CASE ~ok -> RewriteCleanup(S)
        [] ok /\ ~R.up -> R
        [] ok /\ io.manifest \in {"fail", "dir"} ->
             RewriteCleanup([bg_unlink(R, new) EXCEPT
                               !.lost = IF io.manifest = "dir" THEN @ \cup new ELSE @])
        [] ok /\ io.manifest = "ok" /\ wait ->
             RewriteCleanup([D EXCEPT !.aof_state = "ON",
                                      !.fsynced_reploff = S.fsynced_reploff_pending])
        [] ok /\ io.manifest = "ok" /\ ~wait -> RewriteCleanup(D)

-----------------------------------------------------------------------------
(* Turning the AOF on and off *)

stopAppendOnly(S, second, io) ==
  LET F == flushAppendOnlyFile(S, TRUE, second, FALSE, io)
      G == IF io.fsync THEN Synced(F, F.aof_fd, F.aof_last_incr_size) ELSE F
  IN  IF ~F.up THEN F
      ELSE killAppendOnlyChild(
             [G EXCEPT !.aof_fd = None, !.aof_state = "OFF",
                       !.aof_rewrite_scheduled = FALSE,
                       !.aof_last_incr_size = 0, !.aof_last_incr_fsync_offset = 0,
                       !.fsynced_reploff = -1, !.fsynced_reploff_pending = 0,
                       !.aof_buf = <<>>, !.spoilt = FALSE,
                       !.jobs = [i \in DOMAIN @ |-> IF @[i].close THEN @[i]
                                                    ELSE [@[i] EXCEPT !.file = None]]])

\* In a transaction the rewrite is left to serverCron(), and a rewrite that
\* was started with the AOF off goes on
startAppendOnly(S, inExec, second, io) ==
  LET W == [S EXCEPT !.aof_state = "WAIT_REWRITE"]
      R == IF inExec THEN [W EXCEPT !.aof_rewrite_scheduled = TRUE,
                                    !.spoilt = S.child # None]
           ELSE rewriteAppendOnlyFileBackground(killAppendOnlyChild(W), second, io)
  IN  IF ~inExec /\ R.child = None
        THEN [R EXCEPT !.aof_state = IF R.up THEN "OFF" ELSE @]
        ELSE [R EXCEPT !.aof_bio_fsync_status = TRUE, !.aof_last_write_status = TRUE]

-----------------------------------------------------------------------------
(* The server's life *)

\* A restart takes what it loads for synced
InheritsUnsynced(S, m) ==
  \E f \in Range(m.incr) : S.files[f].synced < Len(S.files[f].data)

\* The rest of the memory of a process that has just loaded m and `dataset'
Started(S, m, dataset) ==
  [S EXCEPT !.up = TRUE, !.dataset = dataset, !.loaded = Len(dataset), !.replied = 0,
            !.aof_state = "ON", !.aof_manifest = m, !.aof_fd = Last(m.incr),
            !.aof_buf = <<>>, !.aof_flush_postponed = FALSE,
            !.aof_last_incr_size = Len(S.files[Last(m.incr)].data),
            !.aof_last_incr_fsync_offset = Len(S.files[Last(m.incr)].data),
            !.aof_last_write_status = TRUE, !.aof_bio_fsync_status = TRUE,
            !.fsynced_reploff = 0, !.fsynced_reploff_pending = 0,
            !.aof_rewrite_scheduled = FALSE, !.child = None, !.jobs = <<>>,
            !.spoilt = FALSE, !.missed = InheritsUnsynced(S, m)]

\* aofLoadManifestFromFile(): history files do not advance the sequence numbers
aofLoadManifestFromDisk(S) ==
  [S.manifest EXCEPT !.base_seq = S.manifest.base[2],
                     !.incr_seq = IF S.manifest.incr = <<>> THEN 0
                                  ELSE Last(S.manifest.incr)[2]]

\* A command cut at the end of the last file is removed by the loader
TruncateLast(S, m) ==
  IF m.incr = <<>> THEN S
  ELSE LET f    == Last(m.incr)
           even == 2 * (Len(S.files[f].data) \div 2)
       IN  [S EXCEPT !.files = [S.files EXCEPT ![f].data = SubSeq(@, 1, even),
                                               ![f].synced = IF @ > even THEN even ELSE @]]

\* The last INCR file is opened for appending, a new one if there is none.  lost:
\* the new one, if it has the name of a history file, which is deleted next
aofOpenIfNeededOnServerStart(S, m, dataset) ==
  LET n == IF m.incr = <<>> THEN getNewIncrAofName(m) ELSE m
      f == Last(n.incr)
      C == [S EXCEPT !.files[f] = IF @ = None THEN File(<<>>, 0) ELSE @,
                     !.lost = (@ \ {f}) \cup ({f} \cap n.hist)]
  IN  Started(persistAofManifest(C, n, "ok"), n, dataset)

FirstManifest == [base |-> <<"base", 1>>, incr |-> <<<<"incr", 1>>>>, hist |-> {},
                  base_seq |-> 1, incr_seq |-> 1]

\* A first start with "appendonly yes": an empty BASE and an empty INCR file
Init ==
  \E p \in Policies :
    redis = [up |-> TRUE, dataset |-> <<>>, issued |-> 0, aof_fsync |-> p,
             files |-> [f \in Names |-> IF f \in {<<"base", 1>>, <<"incr", 1>>}
                                          THEN File(<<>>, 0) ELSE None],
             manifest |-> FirstManifest, aof_manifest |-> FirstManifest,
             aof_state |-> "ON", aof_fd |-> <<"incr", 1>>, aof_buf |-> <<>>,
             aof_flush_postponed |-> FALSE, aof_last_incr_size |-> 0,
             aof_last_incr_fsync_offset |-> 0, aof_last_write_status |-> TRUE,
             aof_bio_fsync_status |-> TRUE, fsynced_reploff |-> 0,
             fsynced_reploff_pending |-> 0, aof_rewrite_scheduled |-> FALSE,
             child |-> None, jobs |-> <<>>,
             faults |-> 0, restarts |-> 0,              \* bounds
             loaded |-> 0, replied |-> 0,                \* history
             spoilt |-> FALSE, missed |-> FALSE, lost |-> {}]

\* A write command is executed and propagated to the AOF
Command ==
  /\ redis.up /\ redis.issued < MaxCommands
  /\ ~writeCommandsDeniedByDiskError(redis)
  /\ LET c == redis.issued + 1
     IN  redis' = feedAppendOnlyFile([redis EXCEPT !.dataset = Append(@, c), !.issued = c], c)

\* After the flush: the offset WAITAOF compares with, and the replies
Replied(F) ==
  LET R == IF F.aof_state = "ON" /\ F.fsynced_reploff # -1
             THEN [F EXCEPT !.fsynced_reploff = F.fsynced_reploff_pending] ELSE F
  IN  IF F.aof_fsync = "always" THEN [R EXCEPT !.replied = Len(R.dataset)] ELSE R

Slept(S, second, late, io) ==
  LET F == IF S.aof_state = "OFF" THEN S ELSE flushAppendOnlyFile(S, FALSE, second, late, io)
  IN  Counted(S, IF F.up THEN Replied(F) ELSE F, io)

beforeSleep(second, late, io) == redis.up /\ redis' = Slept(redis, second, late, io)

\* beforeSleep(): the flush, also tried by serverCron(), then the replies
BeforeSleep ==
  /\ redis.up
  /\ redis' \in {Slept(redis, second, late, io) :
                   second, late \in BOOLEAN, io \in IO(redis, {"write", "fsync"})}

RoomForFiles(S) == S.aof_manifest.base_seq < MaxBase /\ S.aof_manifest.incr_seq < MaxIncr

\* bgrewriteaofCommand(), or serverCron() when a rewrite is scheduled or due
bgrewriteaofCommand ==
  /\ redis.up /\ redis.child = None /\ RoomForFiles(redis)
  /\ redis' \in {Counted(redis, rewriteAppendOnlyFileBackground(redis, second, io), io) :
                   second \in BOOLEAN, io \in IO(redis, {"write", "fsync", "manifest", "fork"})}

checkChildrenDone ==
  /\ redis.up /\ redis.child # None
  /\ \E success \in BOOLEAN, io \in IO(redis, {"manifest", "history"}) :
       redis' = Counted(redis, backgroundRewriteDoneHandler(redis, success, io), io)

\* CONFIG SET appendonly no, yes
updateAppendonly ==
  /\ redis.up
  /\ \/ /\ redis.aof_state # "OFF"
        /\ redis' \in {Counted(redis, stopAppendOnly(redis, second, io), io) :
                         second \in BOOLEAN, io \in IO(redis, {"write", "fsync"})}
     \/ /\ redis.aof_state = "OFF" /\ RoomForFiles(redis)
        /\ \E inExec \in BOOLEAN, io \in IO(redis, {"fork"}) :
             redis' = Counted(redis, startAppendOnly(redis, inExec, FALSE, io), io)

\* CONFIG SET appendfsync: "always" first waits for the bio thread
updateAppendFsync ==
  /\ redis.up
  /\ \E p \in Policies \ {redis.aof_fsync} :
       LET D == IF p = "always" THEN bioDrainWorker(redis) ELSE redis
       IN  redis' = [D EXCEPT !.aof_fsync = p, !.replied = 0]

\* The bio thread finishes its oldest job
bioProcessBackgroundJobs(io) ==
  /\ redis.up /\ redis.jobs # <<>>
  /\ redis' = Counted(redis, [Processed(redis, Head(redis.jobs), io.fsync) EXCEPT
                                !.jobs = Tail(@)], io)

\* The process is killed: what it wrote is still there
Crash == /\ redis.up /\ redis.restarts < MaxRestarts
         /\ redis' = exit(redis)

\* The machine stops: of each file, any prefix that holds what was synced
PowerLoss ==
  /\ redis.up /\ redis.restarts < MaxRestarts
  /\ LET Dirty == {f \in Names : redis.files[f] # None
                                   /\ redis.files[f].synced < Len(redis.files[f].data)}
     IN  \E cut \in [Dirty -> 0..(2 * MaxCommands)] :
           /\ \A f \in Dirty : cut[f] \in redis.files[f].synced..Len(redis.files[f].data)
           /\ redis' = [exit(redis) EXCEPT !.files =
                [f \in Names |-> IF f \in Dirty
                   THEN File(SubSeq(@[f].data, 1, cut[f]), cut[f]) ELSE @[f]]]

\* main(): the server is started again with "appendonly yes"
Restart ==
  LET m       == aofLoadManifestFromDisk(redis)
      dataset == loadAppendOnlyFiles(redis.files, m)
  IN  /\ ~redis.up /\ redis.restarts < MaxRestarts /\ dataset # None
      /\ \E io \in IO(redis, {"history"}) :
           redis' = Counted(redis, [aofDelHistoryFiles(
                        aofOpenIfNeededOnServerStart(TruncateLast(redis, m), m, dataset), io)
                      EXCEPT !.restarts = @ + 1], io)

Next ==
  \/ Command
  \/ BeforeSleep
  \/ bgrewriteaofCommand
  \/ checkChildrenDone
  \/ updateAppendonly
  \/ updateAppendFsync
  \/ \E io \in IO(redis, {"fsync"}) : bioProcessBackgroundJobs(io)
  \/ Crash
  \/ PowerLoss
  \/ Restart

Spec == Init /\ [][Next]_vars

\* Time passes and the event loop turns; the bio thread runs; the system calls
\* that are needed again and again do not fail forever
FairSpec == Spec /\ WF_vars(beforeSleep(TRUE, TRUE, NoFault(redis)))
                 /\ WF_vars(bioProcessBackgroundJobs(NoFault(redis)))

-----------------------------------------------------------------------------
(* Properties *)

Manifests == [base : BaseNames, incr : Seq(IncrNames), hist : SUBSET Names,
              base_seq : 1..MaxBase, incr_seq : 0..MaxIncr]

Jobs == [file : Names \cup {None}, size : Nat, offset : Nat, close : BOOLEAN]

Redis ==
  [ up : BOOLEAN, dataset : Seq(Nat), issued : Nat, aof_fsync : Policies,
    files : [Names -> Files \cup {None}], manifest : Manifests, aof_manifest : Manifests,
    aof_state : {"ON", "OFF", "WAIT_REWRITE"}, aof_fd : Names \cup {None}, aof_buf : Seq(Nat),
    aof_flush_postponed : BOOLEAN, aof_last_incr_size : Nat, aof_last_incr_fsync_offset : Nat,
    aof_last_write_status : BOOLEAN, aof_bio_fsync_status : BOOLEAN,
    fsynced_reploff : Int, fsynced_reploff_pending : Nat, aof_rewrite_scheduled : BOOLEAN,
    child : Seq(Nat) \cup {None}, jobs : Seq(Jobs), faults : Nat, restarts : Nat,
    loaded : Nat, replied : Nat, spoilt : BOOLEAN, missed : BOOLEAN,
    lost : SUBSET Names ]

\* Types; and what has been synced of a file, or handed to the bio thread to be
\* synced, is never more than what has been written to it, nor is the offset
\* WAITAOF compares with ever ahead of the dataset
TypeOK ==
  /\ redis \in Redis
  /\ redis.fsynced_reploff \in -1..Len(redis.dataset)
  /\ redis.aof_last_incr_fsync_offset <= redis.aof_last_incr_size
  /\ \A f \in Names : redis.files[f] # None => redis.files[f].synced <= Len(redis.files[f].data)

Needed == {redis.manifest.base} \cup Range(redis.manifest.incr)

\* At every moment, so also after a crash between two steps of a rewrite's end,
\* every file the manifest on disk needs is there: files are deleted only when
\* no manifest counts on them.  With two exceptions, both seen in the run: the
\* new files of a rewrite whose manifest was renamed but whose directory could
\* not be synced, which backgroundRewriteDoneHandler deletes; and the INCR file
\* a start opened under the name of a history file, which aofDelHistoryFiles
\* then deletes.
ManifestFilesExist ==
  \A f \in Needed : redis.files[f] # None \/ f \in redis.lost

\* Neither exception is at work
NothingLost == Needed \cap redis.lost = {}

\* What a restart would load if the buffer could still be written
Replayed ==
  loadAppendOnlyFiles(IF redis.aof_fd = None THEN redis.files
                      ELSE [redis.files EXCEPT ![redis.aof_fd].data = @ \o redis.aof_buf],
                      redis.manifest)

\* While the AOF is on, its files as the manifest on disk orders them, with
\* aof_buf behind the open one, replay to exactly the dataset: no rewrite,
\* failed write, failed manifest or restart loses, repeats or reorders a
\* command.  (Not when a rewrite was started with a buffer that could not be
\* flushed: those bytes go to the new INCR file though the BASE has them.  Nor
\* when the AOF was turned on by a rewrite that had been started with it off, nor
\* while one of the files was deleted as ManifestFilesExist says.)
FilesAndBufferAreDataset ==
  redis.up /\ redis.aof_state = "ON" /\ ~redis.spoilt /\ NothingLost => Replayed = redis.dataset

\* What the files hold if the machine loses power now
Durable(files) == [f \in Names |-> IF files[f] = None THEN None
                                   ELSE File(SubSeq(files[f].data, 1, files[f].synced),
                                             files[f].synced)]

\* With appendfsync always, the commands replied to since the policy was set
\* are loaded again after a power loss, or after the exit(1) of a failed flush
\* (unless a background fsync has failed, the files were loaded from a page
\* cache that had not reached the disk, or one was deleted as ManifestFilesExist
\* says)
AckedSurvivePowerLoss ==
  (/\ redis.aof_fsync = "always" /\ redis.aof_state = "ON" /\ redis.replied > redis.loaded
   /\ ~redis.spoilt /\ ~redis.missed /\ NothingLost) =>
    LET loaded == loadAppendOnlyFiles(Durable(redis.files), redis.manifest)
    IN  /\ loaded # None /\ redis.replied <= Len(loaded)
        /\ SubSeq(loaded, 1, redis.replied) = SubSeq(redis.dataset, 1, redis.replied)

DurableCommands ==
  LET D == Durable(redis.files)
      m == redis.manifest
  IN  Range(D[m.base].data) \cup UNION {Range(Commands(D[m.incr[i]].data)) : i \in DOMAIN m.incr}

\* The offset WAITAOF compares with is only of commands that are on disk
AofOffsetIsDurable ==
  redis.up /\ redis.aof_state = "ON" =>
    \A i \in (redis.loaded + 1)..redis.fsynced_reploff :
      redis.dataset[i] \in DurableCommands

\* The same between rewrites, that is unless the INCR file the last rewrite
\* closed is still to be synced, and unless a background fsync has failed
\* or the case is one of those FilesAndBufferAreDataset leaves out
FsyncedIsDurable ==
  (/\ ~redis.missed /\ ~redis.spoilt /\ NothingLost
   /\ \A i \in DOMAIN redis.jobs : ~redis.jobs[i].close) => AofOffsetIsDurable

\* Between the commands, of which there are MaxCommands, the AOF catches up: what
\* it holds is reported as synced in the end, also when no other command follows,
\* unless the server stops or the AOF is turned off
EventuallyFsynced ==
  []<>(~redis.up \/ redis.aof_state # "ON" \/ redis.spoilt
         \/ redis.fsynced_reploff >= Len(redis.dataset))
=============================================================================
