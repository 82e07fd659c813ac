------------------------------ MODULE BitStream ------------------------------
(***************************************************************************)
(* include/buntils/BitStream.h: bits packed into the bytes of a stream,    *)
(* which the same object may write and read.  A byte has W bits.  Data to  *)
(* be written are bytes that may have more bits than are written.          *)
(***************************************************************************)
EXTENDS Integers, Sequences

CONSTANTS W, MaxBits   \* bound on the bits that are written

Seqs == INSTANCE SequencesExt

VARIABLES io,     \* the stream, the place it is read at, its state, _buf, _roffset and _woffset
          want,   \* history: the bits that were written and not read yet
          right   \* history: every read so far gave those

vars == <<io, want, right>>

Byte(x) == x % 2^W
Shr(x, n) == x \div 2^n
Bits(d, n) == [i \in 1..n |-> Shr(d[(i - 1) \div W + 1], (i - 1) % W) % 2]
Or(x, y) == LET bit == [i \in 0..W - 1 |-> (Shr(x, i) % 2 = 1) \/ (Shr(y, i) % 2 = 1)]
                sum[i \in 0..W] == IF i = 0 THEN 0 ELSE sum[i - 1] + (IF bit[i - 1] THEN 2^(i - 1) ELSE 0)
            IN  sum[W]

Init == /\ io = [bytes |-> <<>>, pos |-> 0, buf |-> 0, roffset |-> 0, woffset |-> 0, good |-> TRUE, open |-> TRUE]
        /\ want = <<>> /\ right = TRUE

\* Mutation: the bits that did not fit in the byte are forgotten.
BugPut(s, byte) == [s EXCEPT !.bytes = Append(@, Or(s.buf, Byte(byte * 2^s.woffset))), !.buf = 0]

\* put(_buf): _buf with the new bits goes to the stream and keeps those that did not fit.
Put(s, byte) == [s EXCEPT !.bytes = Append(@, Or(s.buf, Byte(byte * 2^s.woffset))), !.buf = Shr(byte, W - s.woffset)]
Flush(s) == IF s.woffset = 0 THEN s.bytes ELSE Append(s.bytes, s.buf)

Write(d, bits) ==
  LET whole == Seqs!FoldLeft(Put, io, SubSeq(d, 1, bits \div W))
      i == bits % W
      full == Put(whole, d[bits \div W + 1])
      s == IF whole.woffset + i >= W THEN full
           ELSE [whole EXCEPT !.buf = Or(@, Byte(d[bits \div W + 1] * 2^whole.woffset))]
      woffset == (whole.woffset + i) % W
  IN  /\ io.open /\ io.good /\ W * Len(io.bytes) + io.woffset + bits <= MaxBits
      /\ io' = IF i = 0 THEN whole ELSE [s EXCEPT !.woffset = woffset, !.buf = @ % 2^woffset]
      /\ want' = want \o Bits(d, bits)
      /\ UNCHANGED right

\* The last bits are added to what was in the byte they are read into.  After a peek past
\* the end the stream fails: it is not used again, and what is in _buf is lost.
Peek(pos) == IF pos < Len(io.bytes) THEN io.bytes[pos + 1] ELSE 2^W - 1
Joined(pos) == Or(Shr(Peek(pos), io.roffset), Byte(Peek(pos + 1) * 2^(W - io.roffset)))
Read(bits, old) ==
  LET k == bits \div W
      i == bits % W
      first == Or(old, Shr(Peek(io.pos + k), io.roffset))
      over == io.roffset + i > W
      rest == IF over THEN Or(first, Byte(Peek(io.pos + k + 1) * 2^(W - io.roffset))) ELSE first
      d == [j \in 1..k |-> Joined(io.pos + j - 1)] \o (IF i = 0 THEN <<>> ELSE <<rest % 2^i>>)
  IN  /\ io.good
      /\ W * io.pos + io.roffset + bits <= W * Len(io.bytes) /\ bits <= Len(want)
      /\ io' = [io EXCEPT !.pos = @ + k + (IF i # 0 /\ io.roffset + i >= W THEN 1 ELSE 0),
                          !.roffset = (@ + i) % W, !.good = k = 0 \/ io.pos + k < Len(io.bytes)]
      /\ right' = (right /\ (old = 0 => Bits(d, bits) = SubSeq(want, 1, bits)))
      /\ want' = SubSeq(want, bits + 1, Len(want))

\* ~BitStream
Close == /\ io.open
         /\ io' = [io EXCEPT !.bytes = IF io.good THEN Flush(io) ELSE @, !.buf = 0, !.woffset = 0, !.open = FALSE]
         /\ UNCHANGED <<want, right>>

Next == \/ \E d \in [1..2 -> 0..2^W - 1], bits \in 1..2 * W - 1 : Write(d, bits)
        \/ \E bits \in 1..2 * W, old \in {0, 2^W - 1} : Read(bits, old)
        \/ Close

Spec == Init /\ [][Next]_vars
-----------------------------------------------------------------------------
\* The bytes, and what is left of them in _buf, are the bits that are still to be read.
\* Closing fills the last byte up, or, after the stream has failed, leaves out what is in _buf.
Contents == LET all == Bits(Append(io.bytes, io.buf), W * Len(io.bytes) + io.woffset)
            IN  SubSeq(all, W * io.pos + io.roffset + 1, Len(all))
Agrees == /\ io.open => Contents = want
          /\ ~io.open /\ io.good => Seqs!IsPrefix(want, Contents)
          /\ ~io.open /\ ~io.good => Seqs!IsPrefix(Contents, want) /\ Len(want) - Len(Contents) < W
=============================================================================
