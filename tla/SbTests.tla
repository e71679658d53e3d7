------------------------------ MODULE SbTests -------------------------------
(***************************************************************************)
(* The tests built into sysbench, in five parts: the commands of fileio,   *)
(* its threads, random numbers, the memory test, and the mutex and threads *)
(* tests.                                                                  *)
(***************************************************************************)
EXTENDS Integers, FiniteSets, Sequences, Naturals, Bitwise, Functions

(* The commands of the fileio test (tests/fileio/sb_fileio.c): prepare makes *)
(* or extends the test files, run checks and opens them, cleanup removes     *)
(* them; each is a process of its own, may be called with other options than *)
(* the last, and may be stopped by a failing call.                           *)

CONSTANTS Options,      \* the command lines: [num, total, block, mode, io, backlog]
          MaxFiles,     \* bound: files of any command line
          MaxCommands   \* bound: commands

Modes == {"seqwr", "seqrewr", "seqrd", "rndrd", "rndwr", "rndrw"}
ASSUME OptionsAssumption ==
    \A o \in Options : o.num \in 0 .. MaxFiles /\ o.total \in Nat /\ o.block \in Nat

file_size_cmd(o) == o.total \div o.num
CmdExtent(p, s) == [pos |-> p, size |-> s]
\* short is history: a write of the file wrote less than it was given.
Absent == [exists |-> FALSE, size |-> 0, blocks |-> {}, by |-> "none", short |-> FALSE]
Fresh(name) == [exists |-> TRUE, size |-> 0, blocks |-> {}, by |-> name, short |-> FALSE]
FileIds == 0 .. MaxFiles - 1

VARIABLES
    file,       \* each test_file.N
    cmd,        \* the command in progress: [name, opts, place, at, offset]
    commands,   \* commands so far
    prepared    \* options of a prepare that succeeded and was not undone, as a set

cmdVars == <<file, cmd, commands, prepared>>

Idle == [name |-> "none", opts |-> {}, place |-> "idle", at |-> 0, offset |-> 0]
CmdInit == file = [f \in FileIds |-> Absent] /\ cmd = Idle /\ commands = 0 /\ prepared = {}

\* parse_arguments; the mode is necessary, and looked at, only for run.
ArgumentsOK(name, o) == /\ o.num > 0 /\ o.total > 0 /\ o.block > 0
                        /\ o.io \in {"sync", "async", "mmap"}
                        /\ name = "run" => o.mode \in Modes
\* test_mode is zero, MODE_READ, unless the command is run.
test_mode_cmd(name, o) == IF name = "run" THEN o.mode ELSE "seqrd"

CmdCall(name, o) ==
    /\ cmd = Idle /\ commands < MaxCommands
    /\ commands' = commands + 1
    /\ IF /\ ArgumentsOK(name, o)
          /\ (name = "run" /\ o.io = "async" => o.backlog > 0)      \* file_async_init
       THEN /\ cmd' = [Idle EXCEPT !.name = name, !.opts = {o}, !.place = "open"]
            \* A command that changes the files of a prepare undoes it.
            /\ prepared' = IF name = "cleanup" \/ test_mode_cmd(name, o) = "seqwr" THEN {} ELSE prepared
       ELSE UNCHANGED <<cmd, prepared>>
    /\ UNCHANGED file

O == CHOOSE o \in cmd.opts : TRUE
Running(name, place) == cmd.name = name /\ cmd.place = place
CmdEnds == cmd' = Idle
CmdFail == cmd # Idle /\ CmdEnds /\ UNCHANGED <<file, commands, prepared>>
-----------------------------------------------------------------------------
(* prepare: create_files, one file and one block at a time.                 *)

\* open with O_CREAT; what is there is kept, and writing starts at its end.
OpenedSize(f) == file[f].size
OpenNew == /\ Running("prepare", "open") /\ cmd.at < O.num
           /\ test_mode_cmd("prepare", O) # "seqwr"
           /\ file' = [file EXCEPT ![cmd.at] = IF @.exists THEN @ ELSE Fresh("prepare")]
           /\ cmd' = [cmd EXCEPT !.place = "write", !.offset = OpenedSize(cmd.at)]
           /\ UNCHANGED <<commands, prepared>>

NeedsBlock == cmd.offset < file_size_cmd(O)

\* The block is as large as the option says; less may reach the file, and
\* file_fill_buffer has put the offset the loop has in it.
OffsetOfLoop == cmd.offset

CmdWriteBlock ==
    /\ Running("prepare", "write") /\ NeedsBlock
    /\ \E n \in 0 .. O.block :
          file' = [file EXCEPT ![cmd.at].size = @ + n,
                               ![cmd.at].short = @ \/ n < O.block,
                               ![cmd.at].blocks = @ \cup {CmdExtent(p, O.block) :
                                   p \in {file[cmd.at].size} \cap (IF n = O.block THEN {OffsetOfLoop} ELSE {})}]
    /\ cmd' = [cmd EXCEPT !.offset = @ + O.block]
    /\ UNCHANGED <<commands, prepared>>

CloseNew == /\ Running("prepare", "write") /\ ~ NeedsBlock
            /\ cmd' = [cmd EXCEPT !.place = "open", !.at = @ + 1]
            /\ UNCHANGED <<file, commands, prepared>>

\* A prepare for other options may leave files that are too small for them.
CmdPrepareEnds == /\ Running("prepare", "open") /\ cmd.at = O.num
                  /\ prepared' = {O}
                  /\ CmdEnds
                  /\ UNCHANGED <<file, commands>>

\* remove_files, of cleanup (and meant for the prepare of a creation test)
Removing == cmd.name \in {"cleanup", "prepare"}
                /\ (cmd.name = "prepare" => test_mode_cmd("prepare", O) = "seqwr")
RemoveFile == /\ cmd.place = "open" /\ cmd.at < O.num /\ Removing
              /\ file' = [file EXCEPT ![cmd.at] = Absent]
              /\ cmd' = [cmd EXCEPT !.at = @ + 1]
              /\ UNCHANGED <<commands, prepared>>

CleanupEnds == /\ Running("cleanup", "open") /\ cmd.at = O.num
               /\ CmdEnds
               /\ UNCHANGED <<file, commands, prepared>>
-----------------------------------------------------------------------------
(* run: file_prepare opens and checks the files. *)

\* "remove test files for creation test if they exist"
Create == /\ Running("run", "open") /\ cmd.at < O.num /\ O.mode = "seqwr"
          /\ file' = [file EXCEPT ![cmd.at] = Fresh("run")]
          /\ cmd' = [cmd EXCEPT !.at = @ + 1]
          /\ UNCHANGED <<commands, prepared>>

LargeEnough(f) == file[f].size >= file_size_cmd(O)
CmdOpen == /\ Running("run", "open") /\ cmd.at < O.num /\ O.mode # "seqwr"
           /\ file[cmd.at].exists /\ LargeEnough(cmd.at)
           /\ cmd' = [cmd EXCEPT !.at = @ + 1]
           /\ UNCHANGED <<file, commands, prepared>>

\* "Did you forget to run the prepare step?", or another size in prepare?
Refuse == /\ Running("run", "open") /\ cmd.at < O.num /\ O.mode # "seqwr"
          /\ ~ (file[cmd.at].exists /\ LargeEnough(cmd.at))
          /\ cmd' = [cmd EXCEPT !.place = "refused"]
          /\ UNCHANGED <<file, commands, prepared>>

\* file_mmap_prepare extends new files, other modes write them block by block
\* up to their size, in part if the time is over; then file_done.
Execute == /\ Running("run", "open") /\ cmd.at = O.num
           /\ IF O.mode = "seqwr"
              THEN \E part \in {0, file_size_cmd(O)} :
                      file' = [f \in FileIds |-> IF f < O.num
                                  THEN [file[f] EXCEPT !.size = IF O.io = "mmap" THEN file_size_cmd(O) ELSE part]
                                  ELSE file[f]]
              ELSE UNCHANGED file
           /\ CmdEnds
           /\ UNCHANGED <<commands, prepared>>

RefusedEnds == Running("run", "refused") /\ CmdEnds /\ UNCHANGED <<file, commands, prepared>>
-----------------------------------------------------------------------------
CmdNext == \/ \E name \in {"prepare", "run", "cleanup"}, o \in Options : CmdCall(name, o)
           \/ OpenNew \/ CmdWriteBlock \/ CloseNew \/ CmdPrepareEnds \/ RemoveFile \/ CleanupEnds
           \/ Create \/ CmdOpen \/ Refuse \/ Execute \/ RefusedEnds
           \/ CmdFail

CmdSpec == CmdInit /\ [][CmdNext]_cmdVars
-----------------------------------------------------------------------------
\* Only files that exist have a size, and a command works on its own files.
CmdTypeOK == /\ \A f \in FileIds : /\ file[f].size \in Nat
                                   /\ ~ file[f].exists => file[f] = Absent
             /\ cmd.place \in {"idle", "open", "write", "refused"}
             /\ cmd # Idle => cmd.at \in 0 .. O.num /\ cmd.offset \in Nat
             /\ Cardinality(prepared) <= 1

\* "Create files of necessary size for test" (sb_fileio.c:889): after a prepare
\* that succeeded, and until another command removes the files, they are all
\* there and large enough, whatever other prepares and runs came in between
\* or were stopped half way, but for a file with a short write, which
\* create_files takes for a whole one.
PreparedIsEnough ==
    \A o \in prepared : \A f \in 0 .. o.num - 1 :
        file[f].exists /\ (file[f].short \/ file[f].size >= file_size_cmd(o))

\* A run of what was prepared without short writes is not told that the
\* prepare step was forgotten.
PreparedRuns == Running("run", "refused") =>
    O \notin prepared \/ \E f \in 0 .. O.num - 1 : file[f].short

\* With one block size for all commands every whole block of a prepared file
\* carries a checksum for its place, also in files that were extended; only a
\* file that a creation test left behind, or one with a short write, is
\* reused without.
PreparedValidates ==
    \A o \in prepared : \A f \in 0 .. o.num - 1 : \A i \in 0 .. file_size_cmd(o) :
        (i + 1) * o.block <= file_size_cmd(o) /\ file[f].by = "prepare" /\ ~ file[f].short
            => CmdExtent(i * o.block, o.block) \in file[f].blocks

-----------------------------------------------------------------------------
(* The fileio test of sysbench (tests/fileio/sb_fileio.c): threads draw      *)
(* requests from shared state (under a mutex in the sequential modes,        *)
(* without one in the random modes), execute them synchronously, through     *)
(* asynchronous I/O or in mapped files, and fsync periodically and at the    *)
(* end.  A block filled for validation is known by its position and size: it *)
(* validates where a read finds the same position and size and nothing was   *)
(* written over any part of it.                                              *)

CONSTANT Settings       \* the command lines, with a bound on the requests each

VARIABLE setting        \* the command line of this run

FileThreads == setting.threads
num_files == setting.num_files
total_size == setting.total_size
file_block_size == setting.block_size
file_merged_requests == setting.merged
test_mode_file == setting.test_mode        \* "seqwr", "seqrewr", "seqrd", "rndrd", "rndwr" or "rndrw"
file_io_mode == setting.io_mode       \* "sync", "async" or "mmap"
fsync_freq == setting.fsync_freq
fsync_all == setting.fsync_all
fsync_end == setting.fsync_end
file_rw_ratio == setting.rw_ratio     \* <<numerator, denominator>>
file_async_backlog == setting.backlog
validate == setting.validate
MaxRequests == setting.requests       \* bound: requests handed out, fsyncs aside

file_size_file == total_size \div num_files
file_request_size == IF file_merged_requests > 0 THEN file_block_size * file_merged_requests
                     ELSE file_block_size
\* "file-fsync-all overrides file-fsync-end and file-fsync-freq"
file_fsync_freq == IF fsync_all THEN 0 ELSE fsync_freq
file_fsync_end == ~ fsync_all /\ fsync_end

ASSUME SettingAssumption ==
    \A o \in Settings :
        /\ {o.num_files, o.block_size, o.total_size \div o.num_files, o.backlog} \subseteq Nat \ {0}
        /\ o.merged \in Nat
        /\ o.test_mode \in {"seqwr", "seqrewr", "seqrd", "rndrd", "rndwr", "rndrw"}
        /\ o.io_mode \in {"sync", "async", "mmap"}

Sequential == test_mode_file \in {"seqwr", "seqrewr", "seqrd"}
Writing == test_mode_file \in {"seqwr", "seqrewr"}
Files == 0 .. num_files - 1
MinOf(a, b) == IF a < b THEN a ELSE b
FileExtent(p, s) == [pos |-> p, size |-> s]
NoExtent == FileExtent(0, 0)
Overlap(x, y) == x.pos < y.pos + y.size /\ y.pos < x.pos + x.size
Request(op, f, p, s) == [op |-> op, file |-> f, pos |-> p, size |-> s]
NoRequest == Request("null", 0, 0, 0)

VARIABLES
    position, current_file,         \* where the sequential requests are
    fsynced_file, is_dirty, req_performed_file,
    prev_req, warned,               \* check_seq_req
    filePc, req,                        \* each thread: its place and its request
    used,                           \* per_thread[t].buffer_file_id, buffer_pos
    buffer,                         \* what per_thread[t].buffer holds
    queue,                          \* its asynchronous requests: [req, state]
    counters,                       \* SB_CNT_READ, SB_CNT_WRITE
    executed,                       \* requests executed without an error
    blocks,                         \* the blocks of each file that validate
    unsynced,                       \* threads whose writes to a file are not on disk
    refused,                        \* blocks that were refused by validation
    overlap,                        \* history: an fsync was drawn with other requests under way
    clashed                         \* history: a block was claimed that another thread works on

gvars == <<position, current_file, fsynced_file, is_dirty, req_performed_file, prev_req, warned>>
evars == <<buffer, queue, counters, executed, blocks, unsynced, refused>>
fileHist == <<overlap, clashed>>
fileVars == <<setting, gvars, filePc, req, used, evars, fileHist>>

\* create_files fills every file block by block; a creation test starts empty.
Created == {FileExtent(i * file_block_size, file_block_size) :
                i \in 0 .. (file_size_file - 1) \div file_block_size}

\* init_vars; the buffers' file and position are uninitialised memory.
FileInit == /\ setting \in Settings
            /\ position = 0 /\ current_file = 0 /\ fsynced_file = 0 /\ req_performed_file = 0
            /\ is_dirty = FALSE /\ prev_req = NoRequest /\ warned = FALSE
            /\ filePc = [t \in FileThreads |-> "next"] /\ req = [t \in FileThreads |-> NoRequest]
            /\ used \in [FileThreads -> {<<0, 0>>, <<num_files, 0>>}]
            /\ buffer = [t \in FileThreads |-> NoExtent] /\ queue = [t \in FileThreads |-> <<>>]
            /\ counters = [t \in FileThreads |-> [reads |-> 0, writes |-> 0]]
            /\ executed = [t \in FileThreads |-> [reads |-> 0, writes |-> 0]]
            /\ blocks = [f \in Files |-> IF test_mode_file = "seqwr" THEN {} ELSE Created]
            /\ unsynced = [f \in Files |-> {}] /\ refused = 0
            /\ overlap = FALSE /\ clashed = FALSE

Go(t, place) == filePc' = [filePc EXCEPT ![t] = place]
Take(t, r) == req' = [req EXCEPT ![t] = r]

\* The threads with a request under way, or queued
UnderWay == {t \in FileThreads : \/ filePc[t] \in {"bump", "wrap", "pick", "claim", "execute", "submitted", "wait"}
                                 \/ queue[t] # <<>>}
NoteOverlap == overlap' = (overlap \/ UnderWay # {})
-----------------------------------------------------------------------------
(* file_get_seq_request, under the mutex. *)

\* "See whether it's time to fsync file(s)"
TimeToFsync(op) == file_fsync_freq # 0 /\ op = "write" /\ is_dirty
                       /\ req_performed_file % file_fsync_freq = 0
NextFsync == IF fsynced_file + 1 = num_files THEN 0 ELSE fsynced_file + 1

SeqFsync(t) == /\ Sequential /\ filePc[t] = "next" /\ TimeToFsync(IF Writing THEN "write" ELSE "read")
               /\ Take(t, Request("fsync", fsynced_file, 0, 0))
               /\ fsynced_file' = NextFsync
               /\ is_dirty' = (fsynced_file + 1 # num_files)
               /\ Go(t, "execute") /\ NoteOverlap
               /\ UNCHANGED <<position, current_file, req_performed_file, prev_req, warned, used, evars, clashed>>

\* check_seq_req: would it warn of a request that does not follow the last?
\* The difference of the files is unsigned.
NotSequential(p, r) ==
    /\ p.op # "null"
    /\ \/ r.file - p.file \notin {0, 1} /\ ~ (r.file = 0 /\ p.file = num_files - 1)
       \/ r.file = p.file /\ r.pos - p.pos # p.size
       \/ r.file # p.file /\ (p.pos + p.size # file_size_file \/ r.pos # 0)

SeqSize(p) == MinOf(file_request_size, file_size_file - p)

Full(p) == p + SeqSize(p) = file_size_file

SeqRequest(t) ==
    LET op == IF Writing THEN "write" ELSE "read"
        f == IF current_file = num_files THEN 0 ELSE current_file
        p == IF current_file = num_files THEN 0 ELSE position
        r == Request(op, f, p, SeqSize(p))
    IN  /\ Sequential /\ filePc[t] = "next" /\ ~ TimeToFsync(op) /\ req_performed_file < MaxRequests
        /\ req_performed_file' = req_performed_file + 1
        /\ is_dirty' = (is_dirty \/ op = "write")
        /\ current_file' = (IF Full(p) THEN f + 1 ELSE f)
        /\ position' = (IF Full(p) THEN 0 ELSE p + r.size)
        /\ IF validate THEN warned' = (warned \/ NotSequential(prev_req, r)) /\ prev_req' = r
           ELSE UNCHANGED <<warned, prev_req>>
        /\ Take(t, r) /\ Go(t, "execute")
        /\ UNCHANGED <<fsynced_file, used, evars, fileHist>>
-----------------------------------------------------------------------------
(* file_get_rnd_request, which unlocks the mutex but never locked it.      *)

\* In the combined test reads are drawn while their share is below the ratio.
Reads(t) == CASE test_mode_file = "rndrd" -> TRUE
              [] test_mode_file = "rndwr" -> FALSE
              [] OTHER -> (counters[t].reads + 1) * file_rw_ratio[2]
                              < file_rw_ratio[1] * (counters[t].writes + 1)

RndBegin(t) ==
    /\ ~ Sequential /\ filePc[t] = "next" /\ req_performed_file < MaxRequests
    /\ IF TimeToFsync("write")
       THEN Take(t, Request("fsync", fsynced_file, 0, 0)) /\ Go(t, "bump") /\ NoteOverlap
       ELSE Take(t, Request(IF Reads(t) THEN "read" ELSE "write", 0, 0, 0)) /\ Go(t, "pick") /\ UNCHANGED overlap
    /\ UNCHANGED <<gvars, used, evars, clashed>>

\* fsynced_file++ and the test of the new value are not one step.
RndBump(t) == /\ filePc[t] = "bump"
              /\ fsynced_file' = fsynced_file + 1
              /\ Go(t, "wrap")
              /\ UNCHANGED <<position, current_file, is_dirty, req_performed_file, prev_req, warned, req, used, evars, fileHist>>

RndWrap(t) == /\ filePc[t] = "wrap"
              /\ IF fsynced_file = num_files THEN fsynced_file' = 0 /\ is_dirty' = FALSE
                 ELSE UNCHANGED <<fsynced_file, is_dirty>>
              /\ Go(t, "execute")
              /\ UNCHANGED <<position, current_file, req_performed_file, prev_req, warned, req, used, evars, fileHist>>

\* The block a random position of the whole data falls in.
BlockAt(op, x) == LET y == x - (x % file_block_size)
                      p == y % file_size_file
                  IN  Request(op, y \div file_size_file, p, MinOf(file_block_size, file_size_file - p))
\* "make sure the block is not being used by another thread", or retry
Free(t, r) == validate => \A u \in FileThreads \ {t} : used[u] # <<r.file, r.pos>>

RndPick(t) == /\ filePc[t] = "pick"
              /\ \E x \in 0 .. total_size - 1 :
                    /\ Free(t, BlockAt(req[t].op, x))
                    /\ Take(t, BlockAt(req[t].op, x))
              /\ Go(t, "claim")
              /\ UNCHANGED <<gvars, used, evars, fileHist>>

RndClaim(t) == /\ filePc[t] = "claim"
               /\ used' = [used EXCEPT ![t] = <<req[t].file, req[t].pos>>]
               /\ req_performed_file' = req_performed_file + 1
               /\ is_dirty' = (is_dirty \/ req[t].op = "write")
               /\ Go(t, "execute")
               /\ clashed' = (clashed \/ \E u \in FileThreads \ {t} : used[u] = used'[t])
               /\ UNCHANGED <<position, current_file, fsynced_file, prev_req, warned, req, evars, overlap>>
-----------------------------------------------------------------------------
(* file_execute_event *)

\* A write takes away what validated where it writes, and leaves what the
\* buffer holds; a read brings back what validates there.
Written(f, x, stamp) == [blocks EXCEPT ![f] = {y \in @ : ~ Overlap(x, y)}
                                                  \cup ({stamp} \cap {x})]
ReadBack(f, x) == IF x \in blocks[f] THEN x ELSE NoExtent
Where(r) == FileExtent(r.pos, r.size)
Fill(t) == IF validate THEN Where(req[t]) ELSE buffer[t]
Count(c, t, op) == [c EXCEPT ![t].reads = @ + (IF op = "read" THEN 1 ELSE 0),
                             ![t].writes = @ + (IF op = "write" THEN 1 ELSE 0)]

\* "Check request parameters"
Checked(r) == r.file <= num_files /\ r.pos + r.size <= file_size_file

Reject(t) == /\ filePc[t] = "execute" /\ ~ Checked(req[t])
             /\ Go(t, "error")
             /\ UNCHANGED <<gvars, req, used, evars, fileHist>>

\* Synchronous I/O, and I/O in mapped files
Write(t) ==
    LET r == req[t]
    IN  /\ filePc[t] = "execute" /\ r.op = "write" /\ Checked(r) /\ r.file \in Files
        /\ file_io_mode # "async"
        /\ buffer' = [buffer EXCEPT ![t] = Fill(t)]
        /\ blocks' = Written(r.file, Where(r), Fill(t))
        /\ unsynced' = [unsynced EXCEPT ![r.file] = IF fsync_all THEN {} ELSE @ \cup {t}]
        /\ counters' = Count(counters, t, "write") /\ executed' = Count(executed, t, "write")
        /\ Go(t, "next")
        /\ UNCHANGED <<gvars, req, used, queue, refused, fileHist>>

\* "Check if we have to fsync each write operation": an fsync that fails
\* ends the thread with a write that is made or queued, and not counted.
WriteSyncFails(t) ==
    LET r == req[t]
    IN  /\ r.op = "write" /\ fsync_all
        /\ \/ /\ filePc[t] = "execute" /\ Checked(r) /\ r.file \in Files /\ file_io_mode # "async"
              /\ buffer' = [buffer EXCEPT ![t] = Fill(t)]
              /\ blocks' = Written(r.file, Where(r), Fill(t))
              /\ unsynced' = [unsynced EXCEPT ![r.file] = @ \cup {t}]
           \/ filePc[t] = "submitted" /\ UNCHANGED <<buffer, blocks, unsynced>>
        /\ Go(t, "error")
        /\ UNCHANGED <<gvars, req, used, queue, counters, executed, refused, fileHist>>

Read(t) ==
    LET r == req[t]
        found == ReadBack(r.file, Where(r))
    IN  /\ filePc[t] = "execute" /\ r.op = "read" /\ Checked(r) /\ r.file \in Files
        /\ file_io_mode # "async"
        /\ buffer' = [buffer EXCEPT ![t] = found]
        /\ IF validate /\ found # Where(r)
           THEN /\ refused' = refused + 1 /\ Go(t, "error")
                /\ UNCHANGED <<counters, executed>>
           ELSE /\ counters' = Count(counters, t, "read") /\ executed' = Count(executed, t, "read")
                /\ Go(t, "next") /\ UNCHANGED refused
        /\ UNCHANGED <<gvars, req, used, queue, blocks, unsynced, fileHist>>

\* file_submit_or_wait: the kernel uses the buffer whenever it comes to it.
Submit(t) ==
    LET r == req[t]
    IN  /\ filePc[t] = "execute" /\ r.op \in {"read", "write"} /\ Checked(r) /\ r.file \in Files
        /\ file_io_mode = "async"
        /\ buffer' = [buffer EXCEPT ![t] = IF r.op = "write" THEN Fill(t) ELSE @]
        /\ queue' = [queue EXCEPT ![t] = Append(@, [req |-> r, state |-> "queued"])]
        /\ executed' = Count(executed, t, r.op)
        /\ Go(t, IF Len(queue[t]) + 1 < file_async_backlog THEN "submitted" ELSE "wait")
        /\ UNCHANGED <<gvars, req, used, counters, blocks, unsynced, refused, fileHist>>

\* The rest of file_execute_event goes on as if the request were complete.
Submitted(t) ==
    LET r == req[t]
        bad == r.op = "read" /\ validate /\ buffer[t] # Where(r)
    IN  /\ filePc[t] = "submitted"
        /\ unsynced' = (IF r.op = "write" /\ fsync_all THEN [unsynced EXCEPT ![r.file] = {}] ELSE unsynced)
        /\ refused' = refused + (IF bad THEN 1 ELSE 0)
        /\ Go(t, IF bad THEN "error" ELSE "next")
        /\ UNCHANGED <<gvars, req, used, buffer, queue, counters, executed, blocks, fileHist>>

\* The kernel executes a queued request, with the buffer as it is now; one
\* that fails, or moves less than it was given, spoils what it was to move.
Complete(t, i) ==
    LET r == queue[t][i].req
    IN  /\ i \in DOMAIN queue[t] /\ queue[t][i].state = "queued"
        /\ \E ok \in BOOLEAN :
              /\ queue' = [queue EXCEPT ![t][i].state = IF ok THEN "done" ELSE "failed"]
              /\ IF r.op = "write"
                 THEN /\ blocks' = Written(r.file, Where(r), IF ok THEN buffer[t] ELSE NoExtent)
                      /\ unsynced' = [unsynced EXCEPT ![r.file] = @ \cup {t}]
                      /\ UNCHANGED buffer
                 ELSE /\ buffer' = [buffer EXCEPT ![t] = IF ok THEN ReadBack(r.file, Where(r)) ELSE NoExtent]
                      /\ UNCHANGED <<blocks, unsynced>>
        /\ UNCHANGED <<gvars, filePc, req, used, counters, executed, refused, fileHist>>

\* What the requests of a queue that were reaped add to the thread's counters
OfKind(q, is, op) == Cardinality({i \in is : q[i].req.op = op})
Reaped(t, is) == [counters EXCEPT ![t].reads = @ + OfKind(queue[t], is, "read"),
                                  ![t].writes = @ + OfKind(queue[t], is, "write")]
Finished(t) == {i \in DOMAIN queue[t] : queue[t][i].state # "queued"}
FailedOf(t) == {i \in DOMAIN queue[t] : queue[t][i].state = "failed"}
\* free(oper); nrequests--
Without(q, is) ==
    SelectSeq([i \in DOMAIN q |-> IF i \in is THEN [q[i] EXCEPT !.state = "reaped"] ELSE q[i]],
              LAMBDA x : x.state # "reaped")
\* io_getevents has at least one event, or at the end one for each request.
Awaited(t) == \/ filePc[t] = "wait" /\ Finished(t) # {}
              \/ filePc[t] = "drain" /\ Finished(t) = DOMAIN queue[t]

\* file_wait: "Verify results", when all are good
Reap(t) ==
    /\ Awaited(t) /\ FailedOf(t) = {}
    /\ Go(t, IF filePc[t] = "wait" THEN "submitted" ELSE "done")
    /\ queue' = [queue EXCEPT ![t] = Without(@, Finished(t))]
    /\ counters' = Reaped(t, Finished(t))
    /\ UNCHANGED <<gvars, req, used, buffer, executed, blocks, unsynced, refused, fileHist>>

\* The first bad one ends the thread: those before it, in whatever order the
\* kernel lists them, are counted, those after it are fetched and forgotten.
ReapFailed(t) ==
    /\ Awaited(t) /\ FailedOf(t) # {}
    /\ \E before \in SUBSET (Finished(t) \ FailedOf(t)) :
          /\ queue' = [queue EXCEPT ![t] = Without(@, before)]
          /\ counters' = Reaped(t, before)
    /\ Go(t, "error")
    /\ UNCHANGED <<gvars, req, used, buffer, executed, blocks, unsynced, refused, fileHist>>

\* io_getevents() failed
WaitFails(t) ==
    /\ filePc[t] \in {"wait", "drain"}
    /\ Go(t, "error")
    /\ UNCHANGED <<gvars, req, used, evars, fileHist>>

\* "Ignore fsync requests if we are already fsync'ing each operation"; for
\* files[num_files] whatever lies behind the array is taken for a descriptor.
Fsync(t) == /\ filePc[t] = "execute" /\ req[t].op = "fsync" /\ Checked(req[t])
            /\ unsynced' = (IF fsync_all THEN unsynced
                            ELSE [f \in Files |-> IF f = req[t].file THEN {} ELSE unsynced[f]])
            /\ Go(t, "next")
            /\ UNCHANGED <<gvars, req, used, buffer, queue, counters, executed, blocks, refused, fileHist>>

\* Any of the calls may fail, which ends the thread without file_thread_done.
Fails(t) == /\ filePc[t] = "execute"
            /\ Go(t, "error")
            /\ UNCHANGED <<gvars, req, used, evars, fileHist>>
-----------------------------------------------------------------------------
(* file_thread_done, when sb_more_events says that there are no more.      *)

EndFsync == file_fsync_end /\ test_mode_file \notin {"seqrd", "rndrd"}
\* The end without a wait.
DrainSkipped(t) == "done"

Drain(t) == IF file_io_mode = "async" /\ queue[t] # <<>> THEN "drain" ELSE "done"

ThreadDone(t) == /\ filePc[t] = "next"
                 /\ Take(t, Request("end", 0, 0, 0))
                 /\ Go(t, IF EndFsync THEN "fsync_end" ELSE Drain(t))
                 /\ UNCHANGED <<gvars, used, evars, fileHist>>

EndStep(t, next, place) ==
    /\ filePc[t] = "fsync_end"
    /\ unsynced' = [unsynced EXCEPT ![req[t].file] = {}]
    /\ Take(t, [req[t] EXCEPT !.file = next])
    /\ Go(t, place)
    /\ UNCHANGED <<gvars, used, buffer, queue, counters, executed, blocks, refused, fileHist>>
FsyncAtEnd(t) == EndStep(t, req[t].file + 1,
                         IF req[t].file + 1 = num_files THEN Drain(t) ELSE "fsync_end")

\* One that fails returns before the queued requests were awaited.
FsyncAtEndFails(t) == /\ filePc[t] = "fsync_end"
                      /\ Go(t, "error")
                      /\ UNCHANGED <<gvars, req, used, evars, fileHist>>
-----------------------------------------------------------------------------
FileNext == /\ \E t \in FileThreads :
                   \/ SeqFsync(t) \/ SeqRequest(t)
                   \/ RndBegin(t) \/ RndBump(t) \/ RndWrap(t) \/ RndPick(t) \/ RndClaim(t)
                   \/ Reject(t) \/ Write(t) \/ WriteSyncFails(t) \/ Read(t) \/ Submit(t) \/ Submitted(t)
                   \/ Reap(t) \/ ReapFailed(t) \/ WaitFails(t) \/ Fsync(t) \/ Fails(t)
                   \/ ThreadDone(t) \/ FsyncAtEnd(t) \/ FsyncAtEndFails(t)
                   \/ \E i \in 1 .. file_async_backlog : Complete(t, i)
            /\ UNCHANGED setting

FileSpec == FileInit /\ [][FileNext]_fileVars
-----------------------------------------------------------------------------
\* The shared state of the request generators stays within the files.
FileTypeOK == /\ position \in 0 .. file_size_file - 1 /\ current_file \in 0 .. num_files
              /\ fsynced_file \in Nat /\ {is_dirty, warned} \subseteq BOOLEAN
              /\ req_performed_file \in Nat /\ refused \in Nat
              /\ filePc \in [FileThreads -> {"next", "bump", "wrap", "pick", "claim", "execute", "submitted", "wait",
                                     "fsync_end", "drain", "error", "done"}]
              /\ \A t \in FileThreads : Len(queue[t]) <= file_async_backlog
              /\ unsynced \in [Files -> SUBSET FileThreads] /\ {overlap, clashed} \subseteq BOOLEAN

\* A request that passes the check of its parameters (sb_fileio.c:579) is
\* about one of the files, and about bytes within it.  The check itself lets
\* file_id = num_files pass, so that it rests on the generators:
RequestsInFiles ==
    \A t \in FileThreads : filePc[t] = "execute" /\ Checked(req[t]) =>
        /\ req[t].file \in Files
        /\ req[t].op \in {"read", "write"} => req[t].size > 0
\* they draw no such request, the sequential ones in any
\* interleaving, the random ones unless two threads draw fsyncs at once.
DrawnInFiles == Sequential \/ ~ overlap =>
    RequestsInFiles /\ \A t \in FileThreads : filePc[t] = "execute" => Checked(req[t])

\* Successive sequential requests go through all files from start to end,
\* whichever threads draw them: check_seq_req warns of nothing but of the way
\* from the end to the start of a single file.
NoSeqWarning == warned => num_files = 1

\* Data that was written validates: synchronous reads refuse no block, also
\* with several threads, as long as no two have claimed the same one and the
\* blocks that are drawn are those that were created.
Aligned == Sequential \/ file_size_file % file_block_size = 0
NoFalseAlarm == Aligned /\ ~ clashed /\ file_io_mode # "async" => refused = 0

\* What a thread was told to be written or read is counted exactly once, when
\* it is over: what is executed and not counted is still in its queue, where a
\* failure leaves what it stopped.
CountedOnce ==
    \A t \in FileThreads :
        executed[t].reads + executed[t].writes =
            counters[t].reads + counters[t].writes + Len(queue[t])

\* "cleared after all files are synced" (sb_fileio.c:501): when is_dirty is
\* cleared and the fsyncs of the series were made, no write is left unsynced,
\* unless one was under way when an fsync was drawn.
DirtyKnown ==
    /\ ~ fsync_all /\ ~ overlap /\ ~ is_dirty
    /\ \A t \in FileThreads : req[t].op = "fsync" => filePc[t] \notin {"execute", "error"}
    => \A f \in Files : unsynced[f] = {}

\* "do fsync() at the end of test" (sb_fileio.c:192): a thread that is done
\* leaves none of its writes unsynced, if it does not queue them (its fsyncs
\* come before it waits for the queue).
EndIsDurable ==
    EndFsync /\ file_io_mode # "async" =>
        \A t \in FileThreads : filePc[t] = "done" => \A f \in Files : t \notin unsynced[f]

\* "wait for all async operations to complete" (sb_fileio.c:1039): a thread
\* that is done leaves nothing queued.
DoneIsDrained == \A t \in FileThreads : filePc[t] = "done" => queue[t] = <<>>

-----------------------------------------------------------------------------
(***************************************************************************)
(* Random numbers of sysbench (sb_rand.c): the sequence of unique numbers  *)
(* that all threads share, and the distributions.                          *)
(*                                                                         *)
(* The 32-bit words are scaled down to Word = 2^w and the prime 4294967291 *)
(* to Prime, the largest prime = 3 (mod 4) of that width.  A double of     *)
(* sb_rand_uniform_double is k / Grain, and a distribution's curve (pow,   *)
(* the Zipf hat function) is any fraction of that kind: its shape does not *)
(* matter here, the conversions to unsigned and the clamps do.             *)
(***************************************************************************)

CONSTANTS
    RandThread,
    Word, Prime,    \* the words are 0 .. Word - 1
    SeedAdd,        \* 0x682f0161 and 0x46790905, the same width, as a record
    Mask,           \* 0x5bf03635
    Grain,          \* the doubles are k / Grain
    Ranges,         \* the ranges <<a, b>> asked for
    Types,          \* the values of --rand-type
    Seeds,          \* the pairs that random() may return for the seeds
    MaxUnique,      \* bound: unique numbers drawn
    RandNone

ASSUME RandAssumption ==
    /\ Prime <= Word
    /\ Prime % 4 = 3
    /\ MaxUnique <= Word

RandWords == 0 .. Word - 1
Fractions == 0 .. Grain - 1

VARIABLES
    rand_type,                                  \* None before sb_rand_init
    rand_unique_index, rand_unique_offset,
    got,        \* the index a thread has fetched, or Word
    unique,     \* the unique numbers returned
    randCalls,      \* how many were asked for
    draw        \* the last draw: its range and what came out

randVars == <<rand_type, rand_unique_index, rand_unique_offset, got, unique, randCalls, draw>>

NoDraw == [a |-> 0, b |-> 0, value |-> 0]

RandInit ==
    /\ rand_type = RandNone
    /\ rand_unique_index = 0
    /\ rand_unique_offset = 0
    /\ got = [t \in RandThread |-> Word]
    /\ unique = {}
    /\ randCalls = 0
    /\ draw = NoDraw

rand_unique_permute(x) ==
    LET residue == (x * x) % Prime IN
    IF x >= Prime THEN x
    ELSE IF x <= Prime \div 2 THEN residue
    ELSE Prime - residue

\* rand_unique_seed
Seed(x, add) == rand_unique_permute((rand_unique_permute(x) + add) % Word)

sb_rand_init ==
    /\ rand_type = RandNone
    /\ rand_type' \in Types
    /\ \E s \in Seeds :
         /\ rand_unique_index' = Seed(s[1], SeedAdd.index)
         /\ rand_unique_offset' = Seed(s[2], SeedAdd.offset)
    /\ UNCHANGED <<got, unique, randCalls, draw>>

\* sb_rand_unique: the index is taken with one atomic step ...
FetchAndAdd(t) ==
    /\ rand_type # RandNone
    /\ got[t] = Word
    /\ randCalls < MaxUnique
    /\ got' = [got EXCEPT ![t] = rand_unique_index]
    /\ rand_unique_index' = (rand_unique_index + 1) % Word
    /\ randCalls' = randCalls + 1
    /\ UNCHANGED <<rand_type, rand_unique_offset, unique, draw>>

\* ... and mixed in the thread.
sb_rand_unique(t) ==
    /\ got[t] # Word
    /\ unique' = unique \union
         {rand_unique_permute(((rand_unique_permute(got[t]) + rand_unique_offset) % Word) ^^ Mask)}
    /\ got' = [got EXCEPT ![t] = Word]
    /\ UNCHANGED <<rand_type, rand_unique_index, rand_unique_offset, randCalls, draw>>

\* b - a + 1, unsigned: the full range has size 0.
Size(a, b) == (Word + b - a + 1) % Word

\* sb_rand_uniform and sb_rand_pareto: a fraction of the size, rounded down.
sb_rand_uniform(a, b) == {(a + ((k * Size(a, b)) \div Grain)) % Word : k \in Fractions}
sb_rand_pareto(a, b) == {(a + ((k * Size(a, b)) \div Grain)) % Word : k \in Fractions}

\* sb_rand_gaussian: no option is called rand-spec-iter, so rand_iter is 0,
\* the sum is 0 and rand_iter_mult infinite; their product is not a number,
\* and converts to 0.
sb_rand_gaussian(a, b) == {a}

\* sb_rand_zipfian_int: rounding may take k out of 1 .. n, and n is 0 for the
\* full range.
Clamp(k, n) == IF k < 1 THEN 1 ELSE IF k > n THEN n ELSE k
sb_rand_zipfian(a, b) ==
    {(Word + a + Clamp(k, Size(a, b)) - 1) % Word : k \in 0 .. Size(a, b) + 1}

\* sb_rand_default
sb_rand_default(type, a, b) ==
    CASE type = "uniform" -> sb_rand_uniform(a, b)
      [] type = "pareto" -> sb_rand_pareto(a, b)
      [] type = "gaussian" -> sb_rand_gaussian(a, b)
      [] type = "zipfian" -> sb_rand_zipfian(a, b)

Draw ==
    /\ rand_type # RandNone
    /\ \E r \in Ranges : \E v \in sb_rand_default(rand_type, r[1], r[2]) :
         draw' = [a |-> r[1], b |-> r[2], value |-> v]
    /\ UNCHANGED <<rand_type, rand_unique_index, rand_unique_offset, got, unique, randCalls>>

\* sb_rand_varstr: the number of characters written.
sb_rand_varstr(min_len, max_len) ==
    IF max_len = 0 THEN {0}
    ELSE sb_rand_uniform(IF min_len > max_len THEN 1 ELSE min_len, max_len)

\* The buffer has max_len bytes, and either bound may be the larger one.
DrawString ==
    /\ rand_type # RandNone
    /\ \E r \in Ranges, swap \in BOOLEAN :
         LET min_len == IF swap THEN r[2] ELSE r[1]
             max_len == IF swap THEN r[1] ELSE r[2] IN
         \E n \in sb_rand_varstr(min_len, max_len) :
           draw' = [a |-> 0, b |-> max_len, value |-> n]
    /\ UNCHANGED <<rand_type, rand_unique_index, rand_unique_offset, got, unique, randCalls>>

RandNext ==
    \/ sb_rand_init
    \/ \E t \in RandThread : FetchAndAdd(t) \/ sb_rand_unique(t)
    \/ Draw \/ DrawString

RandSpec == RandInit /\ [][RandNext]_randVars
-----------------------------------------------------------------------------
(* Properties *)

\* The variables keep their types.
RandTypeOK ==
    /\ rand_type \in Types \union {RandNone}
    /\ rand_unique_index \in RandWords /\ rand_unique_offset \in RandWords
    /\ got \in [RandThread -> 0 .. Word]
    /\ unique \subseteq RandWords
    /\ draw.value \in RandWords

\* "This is safe to be called concurrently from multiple threads"
\* (sb_rand.c:333): whatever the seeds and the interleaving, no number is
\* returned twice before all words have been.
Unique ==
    randCalls = Cardinality(unique) + Cardinality({t \in RandThread : got[t] # Word})

\* A draw lies in the range asked for, and a random string in its buffer, the
\* full range included, whose size is 0.
InRange == draw.value >= draw.a /\ draw.value <= draw.b

-----------------------------------------------------------------------------
(***************************************************************************)
(* The memory test of sysbench (sb_memory.c) under the default event loop  *)
(* of sysbench.c: memory_init checks the options, allocates one block for  *)
(* all threads or one for each and shares the total size out; every event  *)
(* then goes over a block, word by word or at random.                      *)
(*                                                                         *)
(* A size is a number of bytes; SizeT is the size of a word.  The counters *)
(* are 64-bit and wrap: here they wrap at CounterSize.                     *)
(***************************************************************************)

CONSTANTS
    MemoryThread,         \* the workers
    SizeT,          \* SIZEOF_SIZE_T
    BlockSizes,     \* --memory-block-size
    TotalSizes,     \* --memory-total-size
    CounterSize,    \* the values of a thread counter
    LargePage,      \* LARGE_PAGE_SIZE, a power of two
    HugePage,       \* the system's huge page size, a power of two
    MemoryMaxEvents,      \* bound: events per thread when there is no total size
    MemoryNone            \* no value

ASSUME SizesAssumption ==
    /\ SizeT \in Nat \ {0}
    /\ CounterSize \in Nat \ {0}
    /\ LargePage \in Nat \ {0}

VARIABLES
    block, total,   \* memory_block_size, memory_total_size
    scope, oper, rnd, hugetlb,
    memoryStage,          \* "init", "run" or "failed"
    buffers,        \* the block of each thread
    size,           \* the bytes allocated for a block
    mem,            \* who wrote each word of a block last
    thread_counters,
    memoryPc,             \* where each worker is
    at,             \* the loop variable of its event
    touched,        \* the words its event has touched
    events          \* the events it has finished

options == <<block, total, scope, oper, rnd, hugetlb>>
memoryVars == <<options, memoryStage, buffers, size, mem, thread_counters, memoryPc, at, touched, events>>

max_offset == (block \div SizeT) - 1
PowerOfTwo(n) == \E k \in 0..20 : n = 2^k
MemoryWords == 0..(size \div SizeT) - 1

MemoryInit ==
    /\ block \in BlockSizes
    /\ total \in TotalSizes
    /\ scope \in {"global", "local"}
    /\ oper \in {"none", "read", "write"}
    /\ rnd \in BOOLEAN
    /\ hugetlb \in BOOLEAN
    /\ memoryStage = "init"
    /\ buffers = [t \in MemoryThread |-> MemoryNone]
    /\ size = 0
    /\ mem = [t \in MemoryThread |-> {}]
    /\ thread_counters = [t \in MemoryThread |-> 0]
    /\ memoryPc = [t \in MemoryThread |-> "next"]
    /\ at = [t \in MemoryThread |-> 0]
    /\ touched = [t \in MemoryThread |-> {}]
    /\ events = [t \in MemoryThread |-> 0]
-----------------------------------------------------------------------------
\* x & ~p for a power of two p.
ClearBit(x, p) == IF (x \div p) % 2 = 1 THEN x - p ELSE x

\* hugetlb_alloc: the size it asks shmget for, which the kernel rounds up to
\* whole huge pages.
hugetlb_alloc(n) == ClearBit(n - 1, LargePage) + LargePage
RoundUp(n, p) == ((n + p - 1) \div p) * p

BlockOk == block >= SizeT /\ PowerOfTwo(block)

\* One block for everyone.
BlockShared(t) == CHOOSE u \in MemoryThread : TRUE

\* The block of thread t: a common one or its own.
Block(t) == IF scope = "global" THEN CHOOSE u \in MemoryThread : TRUE ELSE t

SharePerThread == (total \div block) \div Cardinality(MemoryThread)

\* memory_init: fails on a bad block size, or when a block cannot be had.
memory_init ==
    /\ memoryStage = "init"
    /\ \/ /\ memoryStage' = "failed"
          /\ UNCHANGED <<buffers, size, mem, thread_counters>>
       \/ /\ BlockOk
          /\ memoryStage' = "run"
          /\ buffers' = [t \in MemoryThread |-> Block(t)]
          /\ size' = IF hugetlb THEN RoundUp(hugetlb_alloc(block), HugePage) ELSE block
          /\ mem' = [t \in MemoryThread |-> {}]
          /\ thread_counters' = [t \in MemoryThread |-> SharePerThread]
    /\ UNCHANGED <<options, memoryPc, at, touched, events>>

\* memory_next_event: the counter is decremented whatever it was; the event
\* loop of thread_run breaks at the first null event.
NoMore(t) == total > 0 /\ thread_counters[t] = 0

memory_next_event(t) ==
    /\ memoryStage = "run"
    /\ memoryPc[t] = "next"
    /\ total <= 0 => events[t] < MemoryMaxEvents
    /\ thread_counters' =
         IF total > 0 THEN [thread_counters EXCEPT ![t] = (@ - 1) % CounterSize]
         ELSE thread_counters
    /\ memoryPc' = [memoryPc EXCEPT ![t] = IF NoMore(t) THEN "done" ELSE "event"]
    /\ at' = [at EXCEPT ![t] = 0]
    /\ touched' = [touched EXCEPT ![t] = {}]
    /\ UNCHANGED <<options, memoryStage, buffers, size, mem, events>>

\* A run without a total size ends with the time limit.
TimeIsUp(t) ==
    /\ memoryStage = "run"
    /\ memoryPc[t] = "next"
    /\ total <= 0
    /\ memoryPc' = [memoryPc EXCEPT ![t] = "done"]
    /\ UNCHANGED <<options, memoryStage, buffers, size, mem, thread_counters, at, touched, events>>

\* The last value of the loop variable: the sequential reads and writes stop
\* before buf + max_offset, the others at it.
LastAt == IF ~rnd /\ oper # "none" THEN max_offset - 1 ELSE max_offset

\* One turn of the loop of event_{rnd,seq}_{none,read,write}.
Offset(t) == IF rnd THEN 0..max_offset ELSE {at[t]}
Touch(t) ==
    /\ memoryStage = "run"
    /\ memoryPc[t] = "event"
    /\ at[t] <= LastAt
    /\ at' = [at EXCEPT ![t] = @ + 1]
    /\ \E o \in Offset(t) :
         /\ touched' = [touched EXCEPT ![t] = IF oper = "none" THEN @ ELSE @ \union {o}]
         /\ mem' = IF oper = "write"
                     THEN [mem EXCEPT ![buffers[t]] = @ \union {t}] ELSE mem
    /\ UNCHANGED <<options, memoryStage, buffers, size, thread_counters, memoryPc, events>>

EventDone(t) ==
    /\ memoryStage = "run"
    /\ memoryPc[t] = "event"
    /\ at[t] > LastAt
    /\ events' = [events EXCEPT ![t] = @ + 1]
    /\ memoryPc' = [memoryPc EXCEPT ![t] = "next"]
    /\ UNCHANGED <<options, memoryStage, buffers, size, mem, thread_counters, at, touched>>

MemoryWork(t) == memory_next_event(t) \/ TimeIsUp(t) \/ Touch(t) \/ EventDone(t)
MemoryNext == memory_init \/ \E t \in MemoryThread : MemoryWork(t)

MemorySpec == MemoryInit /\ [][MemoryNext]_memoryVars /\ WF_memoryVars(memory_init) /\ \A t \in MemoryThread : WF_memoryVars(MemoryWork(t))
-----------------------------------------------------------------------------
(* Properties *)

\* The variables keep their types.
MemoryTypeOK ==
    /\ memoryStage \in {"init", "run", "failed"}
    /\ thread_counters \in [MemoryThread -> 0..(CounterSize - 1)]
    /\ memoryPc \in [MemoryThread -> {"next", "event", "done"}]
    /\ buffers \in [MemoryThread -> MemoryThread \union {MemoryNone}]

\* An event never leaves the block it was given, whatever the allocation's
\* rounding made of its size.
StaysInBlock == \A t \in MemoryThread : touched[t] \subseteq MemoryWords

\* With --memory-scope=local no thread writes into another's block.
LocalIsPrivate == (scope = "local") => \A t \in MemoryThread : mem[t] \subseteq {t}

SumEvents == FoldFunction(LAMBDA a, b : a + b, 0, events)

\* "total size of data to transfer" is never exceeded, however the threads
\* run and though the counters wrap when they pass zero.
TotalIsALimit == total > 0 => SumEvents * block <= total

-----------------------------------------------------------------------------
(***************************************************************************)
(* The two lock tests of sysbench.  The mutex test (sb_mutex.c) gives each *)
(* thread one event, which takes mutex_locks times a mutex chosen at       *)
(* random.  The threads test (sb_threads.c) hands out events for ever,     *)
(* each with the next mutex in turn, taken and released around a yield     *)
(* thread_yields times; the run ends at its event limit.                   *)
(*                                                                         *)
(* mutex_locks is unsigned and counted down: it wraps at UintSize.  The    *)
(* event limit is module SbEvents' and is a bound here.                    *)
(***************************************************************************)

CONSTANTS
    LocksThread,         \* the workers
    NumLocks,       \* mutex_num, thread_locks
    AskedCounts,    \* the values of mutex_locks and thread_yields
    UintSize,       \* the values of an unsigned int
    LocksMaxEvents,      \* --events, for the threads test
    LocksNone            \* no owner

ASSUME LocksAssumption ==
    /\ NumLocks \in Nat \ {0}
    /\ AskedCounts \subseteq 0..(UintSize - 1)
    /\ LocksMaxEvents \in Nat

LocksLock == 0..(NumLocks - 1)

VARIABLES
    locksTest,          \* "mutex" or "threads"
    asked,          \* mutex_locks, thread_yields
    locksStage,          \* "run", then "done" when the mutexes are destroyed
    owner,          \* who holds each mutex
    locksPc,             \* where each worker is
    left,           \* nlocks of its request, or the yields still to do
    locksLock,           \* the mutex it works on
    taken,          \* how often it has taken a mutex in this event
    tls_counter,    \* the mutex test's count of a thread's requests
    req_performed_locks,  \* the threads test's count of all requests
    given           \* how often each mutex was handed out

locksVars == <<locksTest, asked, locksStage, owner, locksPc, left, locksLock, taken, tls_counter, req_performed_locks, given>>

LocksInit ==
    /\ locksTest \in {"mutex", "threads"} /\ asked \in AskedCounts
    /\ locksStage = "run"
    /\ owner = [l \in LocksLock |-> LocksNone]
    /\ locksPc = [t \in LocksThread |-> "next"]
    /\ left = [t \in LocksThread |-> 0]
    /\ locksLock = [t \in LocksThread |-> 0]
    /\ taken = [t \in LocksThread |-> 0]
    /\ tls_counter = [t \in LocksThread |-> 0]
    /\ req_performed_locks = 0
    /\ given = [l \in LocksLock |-> 0]

LocksGoto(t, l) == locksPc' = [locksPc EXCEPT ![t] = l]
Begin(t) ==
    /\ left' = [left EXCEPT ![t] = asked]
    /\ taken' = [taken EXCEPT ![t] = 0]

\* mutex_next_event: only one request per thread.
mutex_next_event(t) ==
    /\ locksTest = "mutex"
    /\ locksPc[t] = "next"
    /\ tls_counter' = [tls_counter EXCEPT ![t] = @ + 1]
    /\ IF tls_counter[t] > 0
         THEN LocksGoto(t, "end") /\ UNCHANGED <<left, taken>>
         ELSE LocksGoto(t, "pick") /\ Begin(t)
    /\ UNCHANGED <<locksStage, owner, locksLock, req_performed_locks, given>>

\* mutex_execute_event, the head of its do-while: a mutex at random.
Pick(t) ==
    /\ locksPc[t] = "pick"
    /\ \E l \in LocksLock : locksLock' = [locksLock EXCEPT ![t] = l]
    /\ LocksGoto(t, "lock")
    /\ UNCHANGED <<locksStage, owner, left, taken, tls_counter, req_performed_locks, given>>

\* threads_next_event: a fetch-and-add chooses the mutex.
Performed == (req_performed_locks + 1) % UintSize

threads_next_event(t) ==
    /\ locksTest = "threads"
    /\ locksPc[t] = "next"
    /\ IF req_performed_locks < LocksMaxEvents
         THEN /\ req_performed_locks' = Performed
              /\ locksLock' = [locksLock EXCEPT ![t] = req_performed_locks % NumLocks]
              /\ given' = [given EXCEPT ![req_performed_locks % NumLocks] = @ + 1]
              /\ Begin(t)
              /\ LocksGoto(t, "test")
         ELSE LocksGoto(t, "end") /\ UNCHANGED <<left, locksLock, taken, req_performed_locks, given>>
    /\ UNCHANGED <<locksStage, owner, tls_counter>>

\* The for loop of threads_execute_event.
TestYields(t) ==
    /\ locksPc[t] = "test"
    /\ LocksGoto(t, IF left[t] > 0 THEN "lock" ELSE "next")
    /\ UNCHANGED <<locksStage, owner, left, locksLock, taken, tls_counter, req_performed_locks, given>>

pthread_mutex_lock(t) ==
    /\ locksPc[t] = "lock"
    /\ owner[locksLock[t]] = LocksNone
    /\ owner' = [owner EXCEPT ![locksLock[t]] = t]
    /\ taken' = [taken EXCEPT ![t] = @ + 1]
    /\ LocksGoto(t, "held")
    /\ UNCHANGED <<locksStage, left, locksLock, tls_counter, req_performed_locks, given>>

Again(n) == n > 0
\* An error path that returns with the mutex held.
UnlockMissing(t) ==
    /\ locksPc[t] = "held"
    /\ left' = [left EXCEPT ![t] = (@ - 1) % UintSize]
    /\ LocksGoto(t, IF locksTest = "threads" THEN "test"
               ELSE IF Again(left'[t]) THEN "pick" ELSE "next")
    /\ UNCHANGED <<locksStage, owner, locksLock, taken, tls_counter, req_performed_locks, given>>

pthread_mutex_unlock(t) ==
    /\ locksPc[t] = "held"
    /\ owner' = [owner EXCEPT ![locksLock[t]] = LocksNone]
    /\ left' = [left EXCEPT ![t] = (@ - 1) % UintSize]
    /\ LocksGoto(t, IF locksTest = "threads" THEN "test"
               ELSE IF Again(left'[t]) THEN "pick" ELSE "next")
    /\ UNCHANGED <<locksStage, locksLock, taken, tls_counter, req_performed_locks, given>>

\* mutex_done and threads_cleanup, after the workers were joined.
Destroy ==
    /\ locksStage = "run"
    /\ \A t \in LocksThread : locksPc[t] = "end"
    /\ locksStage' = "done"
    /\ UNCHANGED <<locksTest, asked, owner, locksPc, left, locksLock, taken, tls_counter, req_performed_locks, given>>

LocksWork(t) ==
    /\ \/ mutex_next_event(t) \/ Pick(t) \/ threads_next_event(t) \/ TestYields(t)
       \/ pthread_mutex_lock(t) \/ pthread_mutex_unlock(t)
    /\ UNCHANGED <<locksTest, asked>>

LocksNext == Destroy \/ \E t \in LocksThread : LocksWork(t)

\* A thread that waits for a mutex gets it in the end if it is released again
\* and again; the others keep running.
LocksSpec ==
    LocksInit /\ [][LocksNext]_locksVars /\ WF_locksVars(Destroy) /\ \A t \in LocksThread : SF_locksVars(LocksWork(t))
-----------------------------------------------------------------------------
(* Properties *)

\* The variables keep their types.
LocksTypeOK ==
    /\ locksStage \in {"run", "done"}
    /\ owner \in [LocksLock -> LocksThread \union {LocksNone}]
    /\ left \in [LocksThread -> 0..(UintSize - 1)]
    /\ req_performed_locks \in 0..(UintSize - 1)

\* A thread holds at most the one mutex it works on, and holds it exactly
\* between its lock and its unlock: nothing is destroyed while it is held.
HoldsOne ==
    /\ \A l \in LocksLock, t \in LocksThread : owner[l] = t <=> (locksPc[t] = "held" /\ locksLock[t] = l)
    /\ locksStage = "done" => \A l \in LocksLock : owner[l] = LocksNone

\* "number of mutex locks to do per thread" (sb_mutex.c:41): a finished event
\* of the mutex test took a mutex mutex_locks times; asked for none, it goes
\* through all values of an unsigned int.
DoneAsAsked ==
    \A t \in LocksThread : (locksTest = "mutex" /\ locksPc[t] = "end") =>
        taken[t] = IF asked = 0 THEN UintSize ELSE asked

\* The threads test hands the mutexes out in turn, whichever threads ask.
InTurn == \A l, m \in LocksLock : given[l] <= given[m] + 1

\* Every run ends: nobody waits for ever for a mutex.
LocksEnds == <>(locksStage = "done")
=============================================================================
