------------------------------ MODULE MCSmile ------------------------------
(***************************************************************************)
(* The SMILE side of the repository on small instances: the character      *)
(* device driven by one write at a time, the two workloads of smile_test   *)
(* (counter and buffer), the key wrapping of rsa.h and the host program.   *)
(* They share no memory, so a behaviour runs one of them, named by part,   *)
(* and leaves the others where they start.                                 *)
(***************************************************************************)
EXTENDS MCJxdev, Enclave, Rsa, SmileHost

CONSTANT Parts          \* the components this run explores

VARIABLE part

smileVars == <<part, jvars, counterVars, bufferVars, rsaVars, hostVars>>

\* Four-character messages of create_secret, characters scaled to CharBits.
MCMessage(a, b, c, f) == [j \in 0..3 |-> <<a, b, c, f>>[j + 1]]
TextMessages == {MCMessage(11, 14, 5, 6), MCMessage(15, 15, 15, 15), MCMessage(0, 0, 1, 0)}
MCBeyond     == {0, -1}

\* main.c's anchor page is touched at its first byte only.
FirstByte == {"first"}

\* Only a run of the device needs more than one initial page table.
SmileInit ==
    /\ part \in Parts
    /\ JInit /\ CounterInit /\ BufferInit /\ RsaInit /\ HostInit
    /\ part = "device" \/ \A o \in Pids, v \in Pages : want[o][v].present

Device  == part = "device" /\ JNext
Counter == part = "counter" /\ CounterNext
Buffer  == part = "buffer" /\ BufferNext
Keys    == part = "keys" /\ RsaNext
Host    == part = "host" /\ HostNext

SmileNext ==
    \/ Device  /\ UNCHANGED <<part, counterVars, bufferVars, rsaVars, hostVars>>
    \/ Counter /\ UNCHANGED <<part, jvars, bufferVars, rsaVars, hostVars>>
    \/ Buffer  /\ UNCHANGED <<part, jvars, counterVars, rsaVars, hostVars>>
    \/ Keys    /\ UNCHANGED <<part, jvars, counterVars, bufferVars, hostVars>>
    \/ Host    /\ UNCHANGED <<part, jvars, counterVars, bufferVars, rsaVars>>

\* The fairness of the components' own specifications: the scheduler runs
\* every thread that can run, and a system call in progress continues.
SmileSpec ==
    /\ SmileInit /\ [][SmileNext]_smileVars
    /\ \A w \in Callers : WF_jvars(part = "device" /\ WriterStep(w))
    /\ WF_counterVars(part = "counter" /\ Join)
    /\ \A t \in Adders : WF_counterVars(part = "counter" /\ CounterStep(t))
    /\ \A t \in Threads : WF_bufferVars(part = "buffer" /\ BufferStep(t))
    /\ WF_rsaVars(Keys)
    /\ WF_hostVars(Host)

-----------------------------------------------------------------------------
\* rsa.h: Solovay-Strassen accepts a candidate that is prime, the exponents
\* create_secret derives invert each other, and a decoded text message is the
\* one that was encoded.
KeysRoundTrip == RsaTypeOK /\ SolovayExact /\ KeyInverts /\ RoundTrip

\* Everything that starts ends: a write returns or dies in the wild walk, the
\* adders and the threads of the buffer finish, the searches for a prime and
\* for an exponent end and the host program runs to its end.
SmileEnds ==
    /\ part = "device" => WritesReturn
    /\ part = "counter" => AddersFinish
    /\ part = "buffer" => ThreadsFinish
    /\ part = "keys" => SearchesEnd
    /\ part = "host" => Ends
=============================================================================
