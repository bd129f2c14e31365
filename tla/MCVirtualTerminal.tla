------------------------- MODULE MCVirtualTerminal -------------------------
EXTENDS VirtualTerminal
\* With a version label, called back by the update thread, on a terminal that
\* broadcasts its negative acknowledgements; and with none of these
MCConfig == {[labelled |-> l, threaded |-> ~l, broadcast |-> l] : l \in BOOLEAN}
=============================================================================
