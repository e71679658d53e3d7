---------------------------- MODULE MCTrampoline ----------------------------
(* Small instances of Trampoline for TLC: one process p, pages of 2 bytes, *)
(* frames written as <<page, n>>.                                          *)
EXTENDS Trampoline

CONSTANT p
MCPids == {p}
MCRandomDataPage == [page |-> 2, off |-> 1]
MCRequest(b, o, s) == [pid |-> p, base |-> [page |-> b, off |-> o], size |-> s]

\* One caller: nothing, part of a page, two pages, more than the table holds;
\* an unaligned base; a range that runs into random_data_page.
OneRequests == {MCRequest(0, 0, 0), MCRequest(0, 0, 3), MCRequest(0, 0, 5),
                MCRequest(1, 1, 3)}
OneFrames == {<<0, 1>>, <<0, 2>>, <<1, 1>>, <<2, 1>>}
OneOwner  == [f \in OneFrames |-> <<p, f[1]>>]

\* Two callers that hide one or two pages of the same process.
TwoRequests == {MCRequest(0, 0, 2), MCRequest(0, 0, 4)}
TwoFrames   == {<<0, 1>>, <<1, 1>>}
TwoOwner    == [f \in TwoFrames |-> <<p, f[1]>>]
=============================================================================
