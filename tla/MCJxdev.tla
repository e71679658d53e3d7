------------------------------- MODULE MCJxdev -------------------------------
(* Small instances of Jxdev for TLC: bytes of two values, pages of two     *)
(* bytes, processes whose pids fit a byte, a table of one slot.            *)
EXTENDS Jxdev, TLC

MCFrames == {<<o, v>> : o \in Pids, v \in Pages}
MCOwner  == [f \in MCFrames |-> f]
MCRandomDataPage == [page |-> 1, off |-> 1]
MCArgs(d, s, q) == [data_page |-> d, psize |-> s, pi |-> q]

\* One writer: a base, a size and a pid beyond a byte; a process that maps
\* nothing near address 0.
OneArgs   == {MCArgs(2, 3, 2), MCArgs(1, 1, 3)}
OneHashed == {[b0 |-> 1, b2 |-> 1, b3 |-> 0]}

\* Two writers that only hide pages and make hypercalls.
TwoArgs   == {MCArgs(3, 3, 2)}
TwoHashed == {}

\* The host program: page-aligned data_page, psize = one page.
HostOnlyArgs == {MCArgs(2, 2, 0), MCArgs(2, 2, 1)}

\* Writers are interchangeable.
WriterSymmetry == Permutations(Callers)

MCRequests == {DeviceRequest(h) : h \in {g \in Heads : Resolves(g)}}
=============================================================================
