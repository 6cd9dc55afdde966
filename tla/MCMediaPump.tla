---------------------------- MODULE MCMediaPump ----------------------------
(***************************************************************************)
(* Inputs of MediaPump for TLC: video whose packets are big and small in   *)
(* turn, or all big, and audio at half the rate.  The functions of         *)
(* MediaSource are compared with their inverses over small inputs.         *)
(***************************************************************************)
EXTENDS MediaPump, MediaSource

MCRate == [t \in Tracks |-> IF t = "video" THEN 2 ELSE 1]
MCSize == [r \in {0, 1} |-> IF r = 0 THEN 3 ELSE 1]
MCBig == [r \in {0, 1} |-> 3]

-----------------------------------------------------------------------------
BoundedNals == {<<7>>, <<0, 5>>, <<1>>, <<0, 1, 2>>, <<0, 0, 3>>}
Code(long) == IF long THEN <<0, 0, 0, 1>> ELSE <<0, 0, 1>>
Joined(nals, long) ==
  FoldLeft(LAMBDA all, k : all \o Code(long[k]) \o nals[k], <<>>, [k \in DOMAIN nals |-> k])

\* The scan finds the NAL units a file was joined from, whichever start
\* codes it has, unless one ends in a zero, which no NAL does.
ASSUME ScanAssumption ==
  \A n \in 1..3 : \A nals \in [1..n -> BoundedNals], long \in [1..n -> BOOLEAN] :
    LET bytes == Joined(nals, long) IN SplitNalUnits(bytes) = nals

Escaped(bytes) ==
  FoldLeft(LAMBDA w, b :
     IF w.zeros = 2 /\ b <= 3
     THEN [out |-> w.out \o <<3, b>>, zeros |-> IF b = 0 THEN 1 ELSE 0]
     ELSE [out |-> Append(w.out, b), zeros |-> IF b = 0 THEN w.zeros + 1 ELSE 0],
     [out |-> <<>>, zeros |-> 0], bytes).out

\* Taking the emulation prevention away undoes putting it in.
ASSUME RbspAssumption ==
  \A n \in 0..6 : \A bytes \in [1..n -> {0, 1, 3}] : RbspFromNal(Escaped(bytes)) = bytes

BitsOf(n, width) == [i \in 1..width |-> (n \div 2^(width - i)) % 2]
UeCode(n) == LET z == TopBit(n + 1) IN [i \in 1..z |-> 0] \o BitsOf(n + 1, z + 1)

\* Exp-Golomb codes are read back, and a cut one is not read at all.
ASSUME GolombAssumption ==
  \A n \in 0..300 : LET c == UeCode(n) IN
    /\ Ue(c \o <<1, 0>>) = [ok |-> TRUE, value |-> n, used |-> Len(c)]
    /\ ~Ue(SubSeq(c, 1, Len(c) - 1)).ok

\* The signed codes give each number once.
ASSUME SignedAssumption == {Se(UeCode(n)) : n \in 0..20} = -10..10

Types == {"slice", "idr", "sps", "sei"}
NalsOf(types) == [k \in DOMAIN types |-> [type |-> types[k], begin |-> 10 * k, to |-> 10 * k + 9]]

\* Frames follow each other without a gap, the first begins with the first
\* unit, and a table played in a loop repeats while its time goes on.
ASSUME FramesAssumption ==
  \A n \in 1..5 : \A types \in [1..n -> Types] :
    LET nals == NalsOf(types)  table == FrameTable(nals)
    IN  /\ \A f \in DOMAIN table : f > 1 => table[f].offset = table[f - 1].to + 1
        /\ table # <<>> => table[1].offset = nals[1].begin
        /\ Loadable(nals, TRUE) => \A i \in 0..7 :
             /\ FrameAt(table, 15, i).ptsUs < FrameAt(table, 15, i + 1).ptsUs
             /\ FrameAt(table, 15, i + Len(table)).frame = FrameAt(table, 15, i).frame

\* Fragments fit, follow each other and cover the unit, the first and the
\* last of them marked.
ASSUME PacketsAssumption ==
  \A size \in 0..40, mtu \in 3..12 :
    LET ps == Packetize(size, mtu) IN
    /\ \A k \in DOMAIN ps :
         ps[k].bytes <= mtu /\ (ps[k].start <=> k = 1) /\ (ps[k].end <=> k = Len(ps))
    /\ \A k \in DOMAIN ps : k > 1 => ps[k].from = ps[k - 1].to + 1
    /\ ps # <<>> => ps[Len(ps)].to = size - 1

\* Every code but the negative zero is the code of what it decodes to,
ASSUME UlawAssumption == \A c \in (0..255) \ {127} : LinearToUlaw(UlawToLinear(c)) = c
\* and a sample comes back within its quantisation step.
ASSUME UlawNear ==
  \A i \in -320..320 :
    LET s == 101 * i IN Abs(UlawToLinear(LinearToUlaw(s)) - s) <= 4 + Abs(s) \div 16

AlawCodes == [positive : BOOLEAN, segment : 0..7, mantissa : 0..15]
\* The same for A-law,
ASSUME AlawAssumption == \A c \in AlawCodes : LinearToAlaw(AlawToLinear(c)) = c
\* and for a G.722 byte whose samples are not clipped.
ASSUME G722Assumption ==
  \A c \in 0..255 :
    LET pair == DecodeG722Byte(c)
    IN  {pair[1], pair[2]} \cap {-32768, 32767} = {} => EncodeG722Pair(pair[1], pair[2]) = c

\* An AU header says its size in thirteen bits.
ASSUME AuAssumption ==
  \A n \in {0, 1, 31, 32, 8191} :
    LET h == AuHeader(n) IN (h[3] * 256 + h[4]) \div 8 = n /\ h[2] = 16

\* The packets of every codec last as long as the samples they hold.
ASSUME PaceAssumption ==
  \A c \in DOMAIN SampleRate :
    PacketDurationUs(c) * (SampleRate[c] \div 1000) = SamplesPerPacket(c) * 1000
=============================================================================
