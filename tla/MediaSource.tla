---------------------------- MODULE MediaSource ----------------------------
(***************************************************************************)
(* How the bundled samples become frames and packets: the Annex B scan,    *)
(* the frame table and the fragments of src/src/media/H264Source.cpp, the  *)
(* companding and packing of AudioSource.cpp.  Pure functions; the pump    *)
(* that calls them is MediaPump's, and MCMediaPump compares them with what *)
(* they are the inverse of.  A byte is a number; the tables of a sequence  *)
(* parameter set behind its Exp-Golomb codes are left out.                 *)
(***************************************************************************)
EXTENDS Integers, Sequences, FiniteSets, SequencesExt

-----------------------------------------------------------------------------
(* Annex B.                                                                *)

StartCodes(bytes) == {i \in 1..(Len(bytes) - 2) : SubSeq(bytes, i, i + 2) = <<0, 0, 1>>}

(* A fourth byte of the code is a zero before it. *)
CodeBegin(bytes, i) == IF i > 1 /\ bytes[i - 1] = 0 THEN i - 1 ELSE i

ScanAnnexB(bytes) ==
  LET starts == SetToSortSeq(StartCodes(bytes), <)
      nal(k) == [begin |-> CodeBegin(bytes, starts[k]),
                 from  |-> starts[k] + 3,
                 to    |-> IF k = Len(starts) THEN Len(bytes)
                           ELSE CodeBegin(bytes, starts[k + 1]) - 1]
  IN  SelectSeq([k \in DOMAIN starts |-> nal(k)], LAMBDA n : n.from <= n.to)

SplitNalUnits(bytes) ==
  LET nals == ScanAnnexB(bytes)
  IN  [k \in DOMAIN nals |-> SubSeq(bytes, nals[k].from, nals[k].to)]

(* rbspFromNal(): the 3 after two zeros goes. *)
RbspFromNal(nal) ==
  FoldLeft(LAMBDA read, b :
             IF read.zeros >= 2 /\ b = 3 THEN [read EXCEPT !.zeros = 0]
             ELSE [out |-> Append(read.out, b), zeros |-> IF b = 0 THEN read.zeros + 1 ELSE 0],
           [out |-> <<>>, zeros |-> 0], nal).out

(* BitReader::u(), ue() and se() at the start of what is left. *)
U(bits) == FoldLeft(LAMBDA v, b : 2 * v + b, 0, bits)
Unreadable == [ok |-> FALSE, value |-> 0, used |-> 0]
Ue(bits) ==
  LET ones  == {i \in DOMAIN bits : bits[i] = 1}
      zeros == (CHOOSE i \in ones : \A j \in ones : i <= j) - 1
  IN  IF ones = {} THEN Unreadable
      ELSE IF zeros > 31 \/ 2 * zeros + 1 > Len(bits) THEN Unreadable
      ELSE [ok |-> TRUE, used |-> 2 * zeros + 1,
            value |-> 2^zeros - 1 + U(SubSeq(bits, zeros + 2, 2 * zeros + 1))]
Se(bits) ==
  LET k == Ue(bits).value IN IF k % 2 = 1 THEN (k + 1) \div 2 ELSE -(k \div 2)

-----------------------------------------------------------------------------
(* The frame table: a slice with all that came before it.                  *)

Slices == {"slice", "idr"}
SliceNals(nals) == {k \in DOMAIN nals : nals[k].type \in Slices}

FrameTable(nals) ==
  LET ends == SetToSortSeq(SliceNals(nals), <)
      first(f) == IF f = 1 THEN 1 ELSE ends[f - 1] + 1
  IN  [f \in DOMAIN ends |->
         [offset |-> IF f = 1 THEN nals[1].begin ELSE nals[ends[f - 1]].to + 1,
          to     |-> nals[ends[f]].to,
          keyFrame |-> nals[ends[f]].type = "idr",
          hasParameterSet |-> \E k \in first(f)..ends[f] : nals[k].type \in {"sps", "pps"}]]

(* load(): what the file must have; a file that lacks it changes nothing. *)
Loadable(nals, spsReads) ==
  /\ nals # <<>> /\ SliceNals(nals) # {}
  /\ (\E k \in DOMAIN nals : nals[k].type = "sps") /\ spsReads
Loaded(source, nals, spsReads) ==
  IF Loadable(nals, spsReads) THEN FrameTable(nals) ELSE source

(* frame(): the table is played again and again, and time goes on. *)
FrameAt(table, frameRate, index) ==
  [frame |-> table[(index % Len(table)) + 1],
   ptsUs |-> (2 * index * 1000000 + frameRate) \div (2 * frameRate)]

-----------------------------------------------------------------------------
(* packetize(): a NAL of `size' bytes, or FU-A fragments of what follows   *)
(* its first byte.  Offsets count from 0.                                  *)

FragmentCount(size, mtu) == (size - 1 + mtu - 2 - 1) \div (mtu - 2)
Fragment(size, mtu, k) ==
  LET from == 1 + (k - 1) * (mtu - 2)
      left == size - from
      taken == IF left < mtu - 2 THEN left ELSE mtu - 2
  IN  [from |-> from, to |-> from + taken - 1, bytes |-> taken + 2,
       start |-> from = 1, end |-> from + taken >= size]
Packetize(size, mtu) ==
  IF size = 0 \/ mtu < 3 THEN <<>>
  ELSE IF size <= mtu
       THEN <<[from |-> 0, to |-> size - 1, bytes |-> size, start |-> TRUE, end |-> TRUE]>>
  ELSE [k \in 1..FragmentCount(size, mtu) |-> Fragment(size, mtu, k)]

-----------------------------------------------------------------------------
(* G.711 and the simulator's G.722.                                        *)

Abs(n) == IF n < 0 THEN -n ELSE n
Smaller(a, b) == IF a < b THEN a ELSE b
Clip(n) == IF n < -32768 THEN -32768 ELSE Smaller(n, 32767)
Halved(n) == IF n < 0 THEN -((-n) \div 2) ELSE n \div 2   \* C++ rounds towards zero
TopBit(n) == CHOOSE e \in 0..15 : 2^e <= n /\ n < 2^(e + 1)

LinearToUlaw(sample) ==
  LET magnitude == Smaller(Abs(sample), 32635) + 132
      segment   == TopBit(magnitude \div 128)
  IN  255 - ((IF sample < 0 THEN 128 ELSE 0) + 16 * segment
               + ((magnitude \div 2^(segment + 3)) % 16))
UlawToLinear(code) ==
  LET value == 255 - code
      magnitude == ((value % 16) * 8 + 132) * 2^((value \div 16) % 8) - 132
  IN  IF value >= 128 THEN -magnitude ELSE magnitude

(* The mask of even bits is a relabelling of the codes: a code is here its *)
(* sign, segment and mantissa.                                             *)
LinearToAlaw(sample) ==
  LET shifted == sample \div 8
      value   == Smaller(IF shifted < 0 THEN -shifted - 1 ELSE shifted, 4095)
      segment == IF value < 32 THEN 0 ELSE TopBit(value \div 32) + 1
  IN  [positive |-> shifted >= 0, segment |-> segment,
       mantissa |-> (IF segment < 2 THEN value \div 2 ELSE value \div 2^segment) % 16]
AlawToLinear(code) ==
  LET low == code.mantissa * 16
      magnitude == CASE code.segment = 0 -> low + 8
                     [] code.segment = 1 -> low + 264
                     [] OTHER -> (low + 264) * 2^(code.segment - 1)
  IN  IF code.positive THEN magnitude ELSE -magnitude

EncodeG722Pair(first, second) ==
  LET high == Halved(first - second)
  IN  64 * ((IF high < 0 THEN 2 ELSE 0) + (IF Abs(high) > 2048 THEN 1 ELSE 0))
        + LinearToUlaw(Halved(first + second)) \div 4
DecodeG722Byte(code) ==
  LET low   == UlawToLinear((code % 64) * 4)
      large == (code \div 64) % 2 = 1
      high  == (IF code >= 128 THEN -1 ELSE 1) * (IF large THEN 6000 ELSE 512)
  IN  <<Clip(low + high), Clip(low - high)>>

-----------------------------------------------------------------------------
(* AudioSource: what configure() decides, and what a packet holds.         *)

SampleRate == [PCMU |-> 8000, PCMA |-> 8000, G722 |-> 16000, AAC |-> 16000]
SamplesPerPacket(codec) == IF codec = "AAC" THEN 1024 ELSE (SampleRate[codec] * 20) \div 1000
PacketDurationUs(codec) ==
  IF codec = "AAC" THEN (1024 * 1000000) \div SampleRate[codec] ELSE 20 * 1000
PacketBytes(codec) ==
  IF codec = "G722" THEN SamplesPerPacket(codec) \div 2 ELSE SamplesPerPacket(codec)
FirstSample(codec, index) == index * SamplesPerPacket(codec)

(* aacAuHeader(): sixteen bits of header, thirteen of them the size. *)
AuHeader(size) ==
  IF size \notin 0..8191 THEN <<>> ELSE <<0, 16, (size * 8) \div 256, (size * 8) % 256>>

(* decodeToPcm16(): bytes of PCM for a payload. *)
PcmBytes(codec, payload) ==
  CASE codec \in {"PCMU", "PCMA"} -> 2 * payload
    [] codec = "G722" -> 4 * payload
    [] OTHER -> 0
=============================================================================
