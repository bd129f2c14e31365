------------------------ MODULE MCTransportProtocol ------------------------
(* Small instances of TransportProtocol for TLC *)
EXTENDS TransportProtocol, TLC

CONSTANTS a, b, c, m1, m2, m3, P, Q

To(src, dst, pgn, size) == [src |-> src, dst |-> dst, pgn |-> pgn, size |-> size]
Allow(loss, other, address, foreign) ==
  [loss |-> loss, other |-> other, address |-> address, foreign |-> foreign]

\* A message in each direction under one PGN, and a broadcast beside them.  16
\* bytes are 3 packets; 9 and 14 bytes are 2, the last of them not full or full
MixedHeader == m1 :> To(a, b, P, 16) @@ m2 :> To(a, Global, Q, 9) @@ m3 :> To(b, a, P, 14)
\* A message in each direction, under two PGNs
BothWaysHeader == m1 :> To(a, b, P, 9) @@ m2 :> To(b, a, Q, 14)
\* a sends to c, a node of another make, and to everybody
ForeignHeader == m1 :> To(a, c, P, 16) @@ m2 :> To(a, Global, P, 9)
\* What may happen besides: one lost frame and one frame of other traffic; one
\* address lost and claimed again; three frames of the other make
OneLossOneOther == Allow(1, 1, 0, 0)
OneAddressLoss == Allow(0, 0, 1, 0)
ForeignFrames == Allow(0, 0, 0, 3)

\* Frames another make may send: a hold, a request for packets that were sent
\* already and one for packets the message does not have, a CTS for another
\* PGN, acknowledgements and aborts nobody waits for, data packets in any
\* order, requests with a wrong packet count, requests for nothing and for more
\* than 255 packets, frames to the wrong address
Cts(count, next, pgn) ==
  [type |-> "CTS", src |-> c, dst |-> a, pgn |-> pgn, count |-> count, next |-> next]
Dt(dst, seq) == [type |-> "DT", src |-> c, dst |-> dst, seq |-> seq, data |-> Padding]
Rts(pgn, size, packets) == [type |-> "RTS", src |-> c, dst |-> a, pgn |-> pgn, size |-> size,
                            packets |-> packets, max |-> 255]
Bam(dst, size, packets) == [type |-> "BAM", src |-> c, dst |-> dst, pgn |-> P, size |-> size,
                            packets |-> packets]
OtherMake ==
  {Cts(0, 1, P), Cts(2, 1, P), Cts(1, 1, Q), Cts(1, 3, P), Cts(1, 4, P),
   Frame("EOMA", c, a, P), Frame("Abort", c, a, P),
   Dt(a, 1), Dt(a, 2), Dt(Global, 1), Dt(Global, 2),
   Rts(P, 14, 2), Rts(Q, 9, 2), Rts(P, 9, 1), Rts(P, 0, 0), Rts(P, 1799, 1),
   Bam(Global, 14, 2), Bam(Global, 9, 1), Bam(Global, 1799, 1), Bam(a, 14, 2)}
Retransmission == {Cts(2, 1, P), Cts(1, 1, P), Cts(1, 3, P)}
=============================================================================
