----------------------------- MODULE UnixBench ------------------------------
(***************************************************************************)
(* Four programs of UnixBench, each a part of its own: context1, spawn     *)
(* (with looper), fstime and dhrystone.                                    *)
(***************************************************************************)
EXTENDS Integers, Sequences

(***************************************************************************)
(* The context switching benchmark (UnixBench context1.c): a master and a  *)
(* slave process pass a growing number to and fro through two pipes until  *)
(* the master's alarm reports the count. The alarm is set before the fork; *)
(* the child does not inherit it. A pipe ends when the last descriptor for *)
(* writing is closed, and a write without a reader kills the writer.       *)
(*                                                                         *)
(* Pipes, fork and signals are the kernel's (external). A pipe takes the   *)
(* few bytes of a number at once.                                          *)
(***************************************************************************)

CONSTANTS
  Duration,       \* the argument: 0 sets no alarm
  ContextMaxIter         \* bound on the rounds
ASSUME ContextAssumption == Duration \in Nat /\ ContextMaxIter \in Nat

VARIABLES
  mpc, spc,       \* master and slave: their step, or the way they ended
  p1, p2,         \* the bytes in the pipes
  fds,            \* the open descriptors, by process
  contextIter, iter1, check, check1,
  contextAlarm,          \* the alarm clock: off, set, rung
  contextPrinted         \* what report wrote

contextVars == <<mpc, spc, p1, p2, fds, contextIter, iter1, check, check1, contextAlarm, contextPrinted>>

ContextEnds == {"p1r", "p1w", "p2r", "p2w"}
ContextGone == {"none", "reported", "error", "sync", "killed"}
ContextOpen(e) == e \in fds.master \cup fds.slave

ContextInit ==
  /\ mpc = "start" /\ spc = "none" /\ p1 = <<>> /\ p2 = <<>>
  /\ fds = [master |-> {}, slave |-> {}] /\ contextIter = 0 /\ iter1 = 0 /\ check = 0 /\ check1 = 0
  /\ contextAlarm = "off" /\ contextPrinted = <<>>

-----------------------------------------------------------------------------
(* main: wake_me, the two pipes, fork; a failed fork returns -1, which is taken for the parent's return *)
WakeMe ==
  /\ mpc = "start" /\ contextAlarm' = IF Duration > 0 THEN "set" ELSE "off"
  /\ \/ fds' = [fds EXCEPT !.master = ContextEnds] /\ mpc' = "fork"
     \/ fds' = fds /\ mpc' = "error"
  /\ UNCHANGED <<spc, p1, p2, contextIter, iter1, check, check1, contextPrinted>>
ContextFork ==
  /\ mpc = "fork" /\ mpc' = "close"
  /\ \/ spc' = "close" /\ fds' = [fds EXCEPT !.slave = fds.master]
     \/ UNCHANGED <<spc, fds>>
  /\ UNCHANGED <<p1, p2, contextIter, iter1, check, check1, contextAlarm, contextPrinted>>

(* The master *)
MasterClose ==
  /\ mpc = "close" /\ fds' = [fds EXCEPT !.master = @ \ {"p1r", "p2w"}] /\ mpc' = "write"
  /\ UNCHANGED <<spc, p1, p2, contextIter, iter1, check, check1, contextAlarm, contextPrinted>>
MasterEnds(how) == mpc' = how /\ fds' = [fds EXCEPT !.master = {}]
MasterWrite ==
  /\ mpc = "write"
  /\ IF ContextOpen("p1r") THEN p1' = Append(p1, contextIter) /\ mpc' = "read" /\ UNCHANGED fds
                    ELSE p1' = p1 /\ MasterEnds("killed")
  /\ UNCHANGED <<spc, p2, contextIter, iter1, check, check1, contextAlarm, contextPrinted>>
MasterRead ==
  /\ mpc = "read"
  /\ \/ p2 # <<>> /\ check' = Head(p2) /\ p2' = Tail(p2) /\ mpc' = "check" /\ UNCHANGED fds
     \/ p2 = <<>> /\ ~ContextOpen("p2w") /\ MasterEnds("error") /\ UNCHANGED <<p2, check>>
  /\ UNCHANGED <<spc, p1, contextIter, iter1, check1, contextAlarm, contextPrinted>>
MasterCheck ==
  /\ mpc = "check" /\ contextIter < ContextMaxIter
  /\ IF check # contextIter THEN MasterEnds("sync") /\ contextIter' = contextIter
                     ELSE contextIter' = contextIter + 1 /\ mpc' = "write" /\ UNCHANGED fds
  /\ UNCHANGED <<spc, p1, p2, iter1, check, check1, contextAlarm, contextPrinted>>

(* The alarm, in the master only: report *)
ContextRing ==
  /\ contextAlarm = "set" /\ mpc \notin ContextGone /\ contextAlarm' = "rung"
  /\ contextPrinted' = Append(contextPrinted, contextIter) /\ MasterEnds("reported")
  /\ UNCHANGED <<spc, p1, p2, contextIter, iter1, check, check1>>

-----------------------------------------------------------------------------
(* The slave *)
SlaveClose ==
  /\ spc = "close" /\ fds' = [fds EXCEPT !.slave = @ \ {"p1w", "p2r"}] /\ spc' = "read"
  /\ UNCHANGED <<mpc, p1, p2, contextIter, iter1, check, check1, contextAlarm, contextPrinted>>
SlaveEnds(how) == spc' = how /\ fds' = [fds EXCEPT !.slave = {}]
SlaveRead ==
  /\ spc = "read"
  /\ \/ p1 # <<>> /\ check1' = Head(p1) /\ p1' = Tail(p1) /\ spc' = "check" /\ UNCHANGED fds
     \/ p1 = <<>> /\ ~ContextOpen("p1w") /\ SlaveEnds("error") /\ UNCHANGED <<p1, check1>>
  /\ UNCHANGED <<mpc, p2, contextIter, iter1, check, contextAlarm, contextPrinted>>
SlaveCheck ==
  /\ spc = "check"
  /\ IF check1 # iter1 THEN SlaveEnds("sync") ELSE spc' = "write" /\ UNCHANGED fds
  /\ UNCHANGED <<mpc, p1, p2, contextIter, iter1, check, check1, contextAlarm, contextPrinted>>
SlaveWrite ==
  /\ spc = "write"
  /\ IF ContextOpen("p2r")
     THEN p2' = Append(p2, iter1) /\ iter1' = iter1 + 1 /\ spc' = "read" /\ UNCHANGED fds
     ELSE SlaveEnds("killed") /\ UNCHANGED <<p2, iter1>>
  /\ UNCHANGED <<mpc, p1, contextIter, check, check1, contextAlarm, contextPrinted>>

Master == WakeMe \/ ContextFork \/ MasterClose \/ MasterWrite \/ MasterRead \/ MasterCheck
Slave == SlaveClose \/ SlaveRead \/ SlaveCheck \/ SlaveWrite
ContextNext == Master \/ Slave \/ ContextRing
ContextFairness == WF_contextVars(Master) /\ WF_contextVars(Slave) /\ WF_contextVars(ContextRing)
ContextSpec == ContextInit /\ [][ContextNext]_contextVars /\ ContextFairness

-----------------------------------------------------------------------------
(* The processes stay in step: neither ever meets a number it did not expect, also with one of them gone, *)
(* at most one number is under way, and the count reported is that of the rounds the slave answered, or  *)
(* one less.                                                                                              *)
InStep ==
  /\ "sync" \notin {mpc, spc} /\ Len(p1) + Len(p2) <= 1
  /\ iter1 - contextIter \in {0, 1} /\ \A n \in 1..Len(contextPrinted) : iter1 - contextPrinted[n] \in {0, 1}

(* With an alarm both processes end, in whatever step it finds them: the slave is not left reading from *)
(* a pipe nobody will write to, nor the master when there is no slave.                                   *)
BothEnd == Duration > 0 => <>[](mpc \in ContextGone /\ spc \in ContextGone)

-----------------------------------------------------------------------------
(***************************************************************************)
(* The process creation benchmarks of UnixBench: spawn.c forks children    *)
(* that exit at once, looper.c forks children that execute a command, and  *)
(* the "exec" test of syscall.c children that execute /bin/true, one after *)
(* the other, until the alarm reports the count.                           *)
(*                                                                         *)
(* fork, exec, wait and the alarm are the kernel's (external).             *)
(***************************************************************************)

CONSTANT SpawnMaxIter  \* bound on the children
ASSUME SpawnAssumption == SpawnMaxIter \in Nat

Programs == {"spawn", "looper", "syscall"}

VARIABLES
  program,        \* which of the three programs
  spawnPc,             \* the parent: fork, wait, check, or the way it ended
  spawnIter,
  spawnStatus,         \* the status wait stored
  child,          \* the child: none, forked, command, or its exit status as a zombie
  spawnAlarm,          \* the alarm is set
  forked, good,   \* ghosts: children created, and those that ended well and were waited for
  spawnPrinted         \* what report wrote, or -1

spawnVars == <<program, spawnPc, spawnIter, spawnStatus, child, spawnAlarm, forked, good, spawnPrinted>>

SpawnGone == {"reported", "failed"}
SpawnNone == -1

SpawnInit ==
  /\ program \in Programs /\ spawnPc = "fork" /\ spawnIter = 0 /\ spawnStatus = SpawnNone /\ child = "none"
  /\ spawnAlarm = TRUE /\ forked = 0 /\ good = 0 /\ spawnPrinted = SpawnNone

SpawnFork ==
  /\ spawnPc = "fork" /\ forked < SpawnMaxIter
  /\ \/ child' = "forked" /\ forked' = forked + 1 /\ spawnPc' = "wait"
     \/ spawnPc' = "failed" /\ UNCHANGED <<child, forked>>
  /\ UNCHANGED <<program, spawnIter, spawnStatus, spawnAlarm, good, spawnPrinted>>

(* The child: exits at once, or execs; exec may fail, exit(99) in looper.c, exit(1) in syscall.c *)
Child ==
  \/ /\ child = "forked"
     /\ \/ program = "spawn" /\ child' = "zombie"
        \/ program # "spawn" /\ child' \in {"command", "noexec"}
  \/ child = "command" /\ child' \in {"zombie", "bad"}
  \/ child = "noexec" /\ child' = "zombie99"
ChildStep ==
  Child /\ UNCHANGED <<program, spawnPc, spawnIter, spawnStatus, spawnAlarm, forked, good, spawnPrinted>>

(* wait: the status of the child that ended; waitpid in syscall.c takes no status *)
Wait ==
  /\ spawnPc = "wait" /\ child \in {"zombie", "bad", "zombie99"} /\ spawnPc' = "check"
  /\ spawnStatus' = IF child = "zombie" THEN 0 ELSE IF child = "bad" THEN 1 ELSE 99
  /\ good' = IF child = "zombie" THEN good + 1 ELSE good
  /\ child' = "none" /\ UNCHANGED <<program, spawnIter, spawnAlarm, forked, spawnPrinted>>
Check ==
  /\ spawnPc = "check"
  /\ IF program # "syscall" /\ spawnStatus # 0 THEN spawnPc' = "failed" /\ spawnIter' = spawnIter ELSE spawnPc' = "fork" /\ spawnIter' = spawnIter + 1
  /\ UNCHANGED <<program, spawnStatus, child, spawnAlarm, forked, good, spawnPrinted>>

(* report, in whatever step the alarm finds the parent; a child that still runs goes on alone *)
SpawnRing ==
  /\ spawnAlarm /\ spawnPc \notin SpawnGone /\ spawnAlarm' = FALSE /\ spawnPc' = "reported" /\ spawnPrinted' = spawnIter
  /\ UNCHANGED <<program, spawnIter, spawnStatus, child, forked, good>>

SpawnNext == SpawnFork \/ ChildStep \/ Wait \/ Check \/ SpawnRing
SpawnSpec == SpawnInit /\ [][SpawnNext]_spawnVars

-----------------------------------------------------------------------------
(* The count reported is that of the children that ended well, or one less when the alarm came between *)
(* waiting and counting; syscall.c counts all that ended.                                              *)
CountsGoodChildren ==
  spawnPrinted # SpawnNone =>
    IF program = "syscall" THEN spawnPrinted <= forked /\ forked - spawnPrinted <= 1
                           ELSE good - spawnPrinted \in {0, 1}

(* Each child is waited for before the next one is created: the benchmark never has two, and leaves at *)
(* most one behind.                                                                                    *)
OneChildAtATime == [][SpawnFork => child = "none"]_spawnVars

-----------------------------------------------------------------------------
(***************************************************************************)
(* The file benchmark of UnixBench (fstime.c): a write test that fills the *)
(* file, a read test and a copy test, each until its alarm. A block that is *)
(* moved whole counts count_per_buf units; one that was cut short by the   *)
(* signal gets part credit.                                                *)
(*                                                                         *)
(* A buffer has BufSize bytes and a unit CountSize. An unsigned long is a  *)
(* number below WordMod: read and write return WordMod - 1 for an error.   *)
(* The kernel (external) moves a block, finds the end of the file or a     *)
(* full disk, or, on a file system whose calls signals interrupt, returns  *)
(* EINTR, with the signal that stops the test.                             *)
(***************************************************************************)

CONSTANTS
  BufSize, CountSize, WordMod, MaxBuffs,
  Scores,         \* the scores a test may have
  MaxOps          \* the alarm comes within so many calls of a test
ASSUME FstimeAssumption ==
  /\ BufSize \in Nat \ {0} /\ CountSize \in Nat \ {0} /\ MaxBuffs \in Nat \ {0}
  /\ BufSize * (MaxOps + MaxBuffs) < WordMod /\ Scores \subseteq Nat \ {0}

VARIABLES
  fstimeTest,           \* the test the user asked for
  phase,          \* the one that runs: w, r, c
  fstimePc,             \* start, loop, copied, stop, exit
  fstimeStatus,         \* what the last test returned
  foff, goff,     \* file offsets, in blocks
  flen,           \* blocks in the file
  f_blocks,       \* w_test: blocks of this pass
  counted,
  read_score, write_score,
  sigalarm, fstimeAlarm,        \* the flag of stop_count; the alarm clock is set
  full, cut, eintr, rung, \* ghosts of this test: whole blocks moved, calls cut short, EINTR seen in any test, the alarm rang
  cutRead,                \* ghost: a read of the copy test was cut short
  files                   \* the files exist

fstimeVars == <<fstimeTest, phase, fstimePc, fstimeStatus, foff, goff, flen, f_blocks, counted, read_score, write_score,
          sigalarm, fstimeAlarm, full, cut, eintr, rung, cutRead, files>>

Half == CountSize \div 2
PerBuf == BufSize \div CountSize
Error == WordMod - 1
Mod(n) == n % WordMod

(* main: the phases before the one asked for *)
FstimeInit ==
  /\ fstimeTest \in {"w", "r", "c"} /\ phase = "w" /\ fstimePc = "start" /\ fstimeStatus = 0
  /\ foff = 0 /\ goff = 0 /\ flen = 0 /\ f_blocks = 0 /\ counted = 0
  /\ read_score = 1 /\ write_score = 1 /\ sigalarm = FALSE /\ fstimeAlarm = FALSE
  /\ full = 0 /\ cut = 0 /\ eintr = FALSE /\ rung = FALSE /\ cutRead = FALSE /\ files = TRUE

unchangedSetup == UNCHANGED <<fstimeTest, phase, read_score, write_score, cutRead, files>>

-----------------------------------------------------------------------------
(* The head of w_test, r_test and c_test: wait, rewind, clear the flag, set the alarm. The sleeps are   *)
(* longer than what is left of the alarm of a test that failed.                                          *)
StartTest ==
  /\ fstimePc = "start" /\ ~fstimeAlarm /\ fstimePc' = "loop"
  /\ foff' = IF phase = "w" THEN foff ELSE 0
  /\ sigalarm' = FALSE /\ fstimeAlarm' = TRUE /\ rung' = FALSE
  /\ counted' = 0 /\ full' = 0 /\ cut' = 0 /\ f_blocks' = 0
  /\ UNCHANGED <<fstimeStatus, goff, flen, eintr>> /\ unchangedSetup

FstimeRing ==
  /\ fstimeAlarm /\ fstimePc # "exit" /\ fstimeAlarm' = FALSE /\ sigalarm' = TRUE /\ rung' = TRUE
  /\ UNCHANGED <<fstimePc, fstimeStatus, foff, goff, flen, f_blocks, counted, full, cut, eintr>> /\ unchangedSetup

FstimeFail == fstimePc' = "stop" /\ fstimeStatus' = -1
(* A call that a signal interrupts: the signal is the alarm *)
Interrupted == fstimeAlarm /\ fstimeAlarm' = FALSE /\ rung' = TRUE /\ sigalarm' = TRUE /\ eintr' = TRUE /\ cut' = cut + 1

(* w_test: a pass over the file is finished before the flag is looked at *)
FstimeWriteBlock ==
  /\ phase = "w" /\ fstimePc = "loop" /\ f_blocks < MaxBuffs /\ (full + cut < MaxOps \/ sigalarm)
  /\ f_blocks' = f_blocks + 1
  /\ \/ /\ foff' = foff + 1 /\ flen' = IF foff' > flen THEN foff' ELSE flen
        /\ counted' = Mod(counted + PerBuf) /\ full' = full + 1
        /\ UNCHANGED <<fstimePc, fstimeStatus, sigalarm, fstimeAlarm, cut, eintr, rung>>
     \/ /\ Interrupted /\ counted' = Mod(counted + Mod(Error + Half) \div CountSize)
        /\ UNCHANGED <<fstimePc, fstimeStatus, foff, flen, full>>
     \/ FstimeFail /\ UNCHANGED <<foff, flen, counted, sigalarm, fstimeAlarm, full, cut, eintr, rung>>
  /\ UNCHANGED goff /\ unchangedSetup
WriteRewind ==
  /\ phase = "w" /\ fstimePc = "loop" /\ f_blocks = MaxBuffs
  /\ foff' = 0 /\ f_blocks' = 0
  /\ fstimePc' = IF sigalarm THEN "stop" ELSE "loop"
  /\ fstimeStatus' = IF sigalarm THEN 0 ELSE fstimeStatus
  /\ UNCHANGED <<goff, flen, counted, sigalarm, fstimeAlarm, full, cut, eintr, rung>> /\ unchangedSetup

Stopped ==
  /\ phase \in {"r", "c"} /\ fstimePc = "loop" /\ sigalarm /\ fstimePc' = "stop" /\ fstimeStatus' = 0
  /\ UNCHANGED <<foff, goff, flen, f_blocks, counted, sigalarm, fstimeAlarm, full, cut, eintr, rung>> /\ unchangedSetup

(* r_test *)
ReadBlock ==
  /\ phase = "r" /\ fstimePc = "loop" /\ ~sigalarm /\ full + cut < MaxOps
  /\ \/ /\ foff < flen /\ foff' = foff + 1 /\ counted' = Mod(counted + PerBuf) /\ full' = full + 1
        /\ UNCHANGED <<fstimePc, fstimeStatus, sigalarm, fstimeAlarm, cut, eintr, rung>>
     \/ /\ foff >= flen /\ foff' = 0 /\ counted' = Mod(counted + Half \div CountSize)
        /\ UNCHANGED <<fstimePc, fstimeStatus, sigalarm, fstimeAlarm, full, cut, eintr, rung>>
     \/ /\ Interrupted /\ counted' = Mod(counted + Mod(Error + Half) \div CountSize)
        /\ UNCHANGED <<fstimePc, fstimeStatus, foff, full>>
     \/ FstimeFail /\ UNCHANGED <<foff, counted, sigalarm, fstimeAlarm, full, cut, eintr, rung>>
  /\ UNCHANGED <<goff, flen, f_blocks>> /\ unchangedSetup

(* c_test *)
PartCredit(tmp) == (Mod(tmp * write_score) \div (read_score + write_score) + Half) \div CountSize
CopyRead ==
  /\ phase = "c" /\ fstimePc = "loop" /\ ~sigalarm /\ full + cut < MaxOps
  /\ \/ /\ foff < flen /\ foff' = foff + 1 /\ fstimePc' = "copied"
        /\ UNCHANGED <<fstimeStatus, goff, counted, sigalarm, fstimeAlarm, cut, eintr, rung, cutRead>>
     \/ /\ foff >= flen /\ foff' = 0 /\ goff' = 0
        /\ UNCHANGED <<fstimePc, fstimeStatus, counted, sigalarm, fstimeAlarm, cut, eintr, rung, cutRead>>
     \/ /\ Interrupted /\ cutRead' = TRUE /\ counted' = Mod(counted + PartCredit(Error))
        /\ UNCHANGED <<fstimePc, fstimeStatus, foff, goff>>
     \/ FstimeFail /\ UNCHANGED <<foff, goff, counted, sigalarm, fstimeAlarm, cut, eintr, rung, cutRead>>
  /\ UNCHANGED <<flen, f_blocks, full, fstimeTest, phase, read_score, write_score, files>>
WriteCredit(tmp) ==
  Mod(tmp + Mod((BufSize - tmp) * write_score) \div (read_score + write_score) + Half) \div CountSize
CopyWrite ==
  /\ fstimePc = "copied"
  /\ \/ /\ goff' = goff + 1 /\ counted' = Mod(counted + PerBuf) /\ full' = full + 1 /\ fstimePc' = "loop"
        /\ UNCHANGED <<fstimeStatus, sigalarm, fstimeAlarm, cut, eintr, rung>>
     \/ /\ Interrupted /\ counted' = Mod(counted + WriteCredit(Error)) /\ fstimePc' = "loop"
        /\ UNCHANGED <<fstimeStatus, goff, full>>
     \/ FstimeFail /\ UNCHANGED <<goff, counted, sigalarm, fstimeAlarm, full, cut, eintr, rung>>
  /\ UNCHANGED <<foff, flen, f_blocks>> /\ unchangedSetup

(* The end of a test: its score when it succeeded; main ignores the status of the tests before the last *)
EndTest ==
  /\ fstimePc = "stop"
  /\ \E s \in Scores :
       /\ write_score' = IF phase = "w" /\ fstimeStatus = 0 THEN s ELSE write_score
       /\ read_score' = IF phase = "r" /\ fstimeStatus = 0 THEN s ELSE read_score
  /\ IF phase = fstimeTest
     THEN fstimePc' = "exit" /\ files' = FALSE /\ phase' = phase
     ELSE fstimePc' = "start" /\ phase' = (IF phase = "w" THEN "r" ELSE "c") /\ files' = files
  /\ UNCHANGED <<fstimeTest, fstimeStatus, foff, goff, flen, f_blocks, counted, sigalarm, fstimeAlarm, full, cut, eintr, rung, cutRead>>

Program == StartTest \/ FstimeWriteBlock \/ WriteRewind \/ Stopped \/ ReadBlock \/ CopyRead \/ CopyWrite \/ EndTest
FstimeNext == Program \/ FstimeRing
FstimeFairness == WF_fstimeVars(Program) /\ WF_fstimeVars(FstimeRing)
FstimeSpec == FstimeInit /\ [][FstimeNext]_fstimeVars /\ FstimeFairness

-----------------------------------------------------------------------------
(* Each test counts every block it moved whole, and at most one more for each call that was cut short,  *)
(* although such a call returns the largest number there is: but for a read of the copy test, whose     *)
(* "part credit for leftover bytes read" is a part of that number.                                      *)
Credit == counted >= full * PerBuf /\ counted <= (full + cut) * PerBuf
CreditsWhatMoved == ~cutRead => Credit

(* The copy is at the same place in both files whenever it reads, so it copies the file and not a shift *)
(* of it, also after the read test left the input anywhere.                                             *)
CopyInStep == phase = "c" /\ fstimePc = "loop" /\ ~sigalarm => goff = foff

(* The write test stops only after a whole pass: what the other tests read is the whole file, unless a *)
(* write failed or was interrupted.                                                                    *)
WholeFile == phase = "w" /\ fstimePc = "stop" /\ fstimeStatus = 0 /\ ~eintr => flen = MaxBuffs

(* A test that succeeds ran until its own alarm: neither the flag nor the alarm of a test before it, that *)
(* failed with its alarm pending, ends it.                                                               *)
OwnAlarm == fstimePc = "stop" /\ fstimeStatus = 0 => rung

(* The program ends and removes its files, whatever failed. *)
EndsClean == <>[](fstimePc = "exit" /\ ~files)

-----------------------------------------------------------------------------
(***************************************************************************)
(* The Dhrystone benchmark of UnixBench (dhry_1.c, dhry_2.c): a loop of     *)
(* procedures over global variables, two records and two arrays, until the *)
(* alarm reports the number of the run. The source says in comments what   *)
(* the variables are and how often each procedure is called; the summary   *)
(* that would print the final values is not compiled in.                   *)
(*                                                                         *)
(* Letters and texts are numbers in their order; of the arrays there are   *)
(* the elements that are used. An int goes up to MaxInt and wraps.         *)
(***************************************************************************)

CONSTANTS MaxInt, MaxRuns
ASSUME DhrystoneAssumption == MaxInt \in Nat /\ MaxInt > 100 /\ MaxRuns \in Nat

Letter == [A |-> 1, B |-> 2, C |-> 3, R |-> 18, W |-> 23, Y |-> 25, Z |-> 26]
Text == [first |-> 1, second |-> 2, third |-> 3, some |-> 4]
Ident_1 == 0
Ident_2 == 1
Ident_3 == 2
Ident_4 == 3
Ident_5 == 4
Null == "null"
Wrap(n) == IF n > MaxInt THEN n - (2 * MaxInt + 2) ELSE n

VARIABLES
  dhryPc, Run_Index, dhryS,       \* the step of main, the run, and all variables of the program
  dhryPrinted                 \* what report wrote, or -1
dhryVars == <<dhryPc, Run_Index, dhryS, dhryPrinted>>

Procs == {"Proc_6", "Proc_7", "Func_1", "Func_3"}
Unset == [Ptr |-> Null, Discr |-> Ident_5, Enum |-> Ident_5, Int |-> 0, Str |-> 0]
Cells1 == {8, 9, 38}
Cells2 == {<<8, 7>>, <<8, 8>>, <<8, 9>>, <<28, 8>>}

(* main, the initializations *)
DhryInit ==
  /\ dhryPc = "run" /\ Run_Index = 1 /\ dhryPrinted = -1
  /\ dhryS = [Int_Glob |-> 0, Bool_Glob |-> FALSE, Ch_1 |-> 0, Ch_2 |-> 0, Ptr_Glob |-> "glob",
          rec |-> [glob |-> [Ptr |-> "next", Discr |-> Ident_1, Enum |-> Ident_3, Int |-> 40, Str |-> Text.some],
                   next |-> Unset],
          Arr_1 |-> [i \in Cells1 |-> 0],
          Arr_2 |-> [c \in Cells2 |-> IF c = <<8, 7>> THEN 10 ELSE 0],
          Int_1 |-> 0, Int_2 |-> 0, Int_3 |-> 0, Ch_Index |-> 0, Enum_Loc |-> Ident_5,
          Str_1 |-> Text.first, Str_2 |-> 0,
          calls |-> [p \in Procs |-> 0]]     \* ghost: the calls of this run

DhryCall(v, p) == [v EXCEPT !.calls[p] = @ + 1]

-----------------------------------------------------------------------------
(* dhry_2.c: each takes the variables and returns them; functions with a result return both *)
Func_1(v, c1, c2) ==
  IF c1 # c2 THEN [r |-> Ident_1, v |-> DhryCall(v, "Func_1")]
             ELSE [r |-> Ident_2, v |-> [DhryCall(v, "Func_1") EXCEPT !.Ch_1 = c1]]
Func_3(e) == e = Ident_3
(* The texts have R and Y at the places compared, so the loop is left after one round with Ch_Loc = A. *)
Func_2(v, str1, str2) ==
  LET f == Func_1(v, Letter.R, Letter.Y) IN
  IF str1 > str2 THEN [r |-> TRUE, v |-> [f.v EXCEPT !.Int_Glob = 10]]
                 ELSE [r |-> FALSE, v |-> f.v]
Proc_6(v, e) ==
  CASE e = Ident_1 -> Ident_1
    [] e = Ident_2 -> IF v.Int_Glob > 100 THEN Ident_1 ELSE Ident_4
    [] e = Ident_3 -> Ident_2
    [] e = Ident_4 -> IF Func_3(e) THEN e ELSE Ident_4
    [] e = Ident_5 -> Ident_3
Proc_7(i1, i2) == i2 + (i1 + 2)
Proc_8(v, i1, i2) ==
  LET n == i1 + 5 IN
  [v EXCEPT !.Arr_1 = [@ EXCEPT ![n] = i2, ![n + 1] = i2, ![n + 30] = n],
            !.Arr_2 = [@ EXCEPT ![<<n, n>>] = n, ![<<n, n + 1>>] = n, ![<<n, n - 1>>] = Wrap(@ + 1),
                                ![<<n + 20, n>>] = i2],
            !.Int_Glob = 5]

-----------------------------------------------------------------------------
(* dhry_1.c *)
Proc_5(v) == [v EXCEPT !.Ch_1 = Letter.A, !.Bool_Glob = FALSE]
Proc_4(v) == [v EXCEPT !.Bool_Glob = (v.Ch_1 = Letter.A) \/ @, !.Ch_2 = Letter.B]
(* the field Ptr of a record, and Int of the one Ptr_Glob points to *)
Proc_3(v, p) ==
  LET w == IF v.Ptr_Glob # Null THEN [v EXCEPT !.rec[p].Ptr = v.rec[v.Ptr_Glob].Ptr] ELSE v IN
  [DhryCall(w, "Proc_7") EXCEPT !.rec[v.Ptr_Glob].Int = Proc_7(10, v.Int_Glob)]
(* a loop that runs once as long as Ch_1_Glob is A *)
Proc_2(v, i) == IF v.Ch_1 = Letter.A THEN (i + 10) - 1 - v.Int_Glob ELSE i
Proc_1(v, p) ==
  LET next == v.rec[p].Ptr
      a == [v EXCEPT !.rec[next] = v.rec[v.Ptr_Glob]]
      b == [a EXCEPT !.rec[p].Int = 5]
      c == [b EXCEPT !.rec[next].Int = b.rec[p].Int, !.rec[next].Ptr = b.rec[p].Ptr]
      d == Proc_3(c, next)
      e == [DhryCall(DhryCall(d, "Proc_6"), "Func_3") EXCEPT !.rec[next].Int = 6, !.rec[next].Enum = Proc_6(d, d.rec[p].Enum),
                                                     !.rec[next].Ptr = d.rec[d.Ptr_Glob].Ptr]
  IN IF d.rec[next].Discr = Ident_1
     THEN [DhryCall(e, "Proc_7") EXCEPT !.rec[next].Int = Proc_7(e.rec[next].Int, 10)]
     ELSE [d EXCEPT !.rec[p] = d.rec[d.rec[p].Ptr]]

-----------------------------------------------------------------------------
(* main, one run *)
Step(from, to, v) == dhryPc = from /\ dhryPc' = to /\ dhryS' = v /\ UNCHANGED <<Run_Index, dhryPrinted>>
Flags == Step("run", "compare", Proc_4(Proc_5([dhryS EXCEPT !.calls = [p \in Procs |-> 0]])))
Compare ==
  LET v == [dhryS EXCEPT !.Int_1 = 2, !.Int_2 = 3, !.Str_2 = Text.second, !.Enum_Loc = Ident_2]
      f == Func_2(v, v.Str_1, v.Str_2)
  IN Step("compare", "while", [f.v EXCEPT !.Bool_Glob = ~f.r])
(* Int_3_Loc is first 5 * Int_1_Loc - Int_2_Loc, which Proc_7 overwrites *)
While ==
  IF dhryS.Int_1 < dhryS.Int_2
  THEN Step("while", "while", [DhryCall(dhryS, "Proc_7") EXCEPT !.Int_3 = Proc_7(dhryS.Int_1, dhryS.Int_2), !.Int_1 = @ + 1])
  ELSE Step("while", "records", Proc_8(dhryS, dhryS.Int_1, dhryS.Int_3))
Records == Step("records", "for", [Proc_1(dhryS, dhryS.Ptr_Glob) EXCEPT !.Ch_Index = Letter.A])
For ==
  LET f == Func_1(dhryS, dhryS.Ch_Index, Letter.C)
      v == [f.v EXCEPT !.Ch_Index = @ + 1]
  IN IF dhryS.Ch_Index <= dhryS.Ch_2
     THEN Step("for", "for",
               IF dhryS.Enum_Loc = f.r
               THEN [DhryCall(DhryCall(v, "Proc_6"), "Func_3") EXCEPT !.Enum_Loc = Proc_6(v, Ident_1), !.Str_2 = Text.third,
                                                              !.Int_2 = Run_Index, !.Int_Glob = Run_Index]
               ELSE v)
     ELSE Step("for", "arith", dhryS)
Arith ==
  LET product == dhryS.Int_2 * dhryS.Int_1
      quotient == product \div dhryS.Int_3
  IN Step("arith", "proc_2", [dhryS EXCEPT !.Int_1 = quotient, !.Int_2 = 7 * (product - dhryS.Int_3) - quotient])
LastCall == Step("proc_2", "next", [dhryS EXCEPT !.Int_1 = Proc_2(dhryS, @)])
NextRun ==
  /\ dhryPc = "next" /\ Run_Index < MaxRuns /\ Run_Index' = Run_Index + 1 /\ dhryPc' = "run" /\ UNCHANGED <<dhryS, dhryPrinted>>

(* the alarm, in any step *)
report == dhryPc # "end" /\ dhryPc' = "end" /\ dhryPrinted' = Run_Index /\ UNCHANGED <<dhryS, Run_Index>>

DhryNext == Flags \/ Compare \/ While \/ Records \/ For \/ Arith \/ LastCall \/ NextRun \/ report
DhrySpec == DhryInit /\ [][DhryNext]_dhryVars

-----------------------------------------------------------------------------
(* Every run does the same work: after each the variables have the values the summary and the comments *)
(* of main (dhry_1.c:197-234) give them, Int_1_Loc the 5 of line 234, not the 4 of Proc_2's comment; the *)
(* element that counts the runs until it no longer fits an int.                                          *)
FinalValues ==
  dhryPc = "next" =>
    /\ dhryS.Int_Glob = 5 /\ dhryS.Bool_Glob /\ dhryS.Ch_1 = Letter.A /\ dhryS.Ch_2 = Letter.B /\ dhryS.Arr_1[8] = 7
    /\ Run_Index + 10 <= MaxInt => dhryS.Arr_2[<<8, 7>>] = Run_Index + 10
    /\ dhryS.rec.glob = [Ptr |-> "next", Discr |-> Ident_1, Enum |-> Ident_3, Int |-> 17, Str |-> Text.some]
    /\ dhryS.rec.next = [Ptr |-> "next", Discr |-> Ident_1, Enum |-> Ident_2, Int |-> 18, Str |-> Text.some]
    /\ dhryS.Int_1 = 5 /\ dhryS.Int_2 = 13 /\ dhryS.Int_3 = 7 /\ dhryS.Enum_Loc = Ident_2
    /\ dhryS.Str_1 = Text.first /\ dhryS.Str_2 = Text.second

(* The procedures are called as often as the comments say: Proc_7 and Func_1 "executed three times", *)
(* Proc_6 and Func_3 "executed once", in every run.                                                  *)
CallsAsSaid ==
  dhryPc = "next" => dhryS.calls = [p \in Procs |-> IF p \in {"Proc_7", "Func_1"} THEN 3 ELSE 1]
=============================================================================
