----------------------------- MODULE BurstCodes -----------------------------
(***************************************************************************)
(* The codes a DMR burst is built with (package dmrfec), and the path that *)
(* damages what is built: bits are flipped, bursts are lost, repeated and  *)
(* swapped.                                                                *)
(*                                                                         *)
(* Bits in transmit order are the set of the places, from 0, that hold a   *)
(* one, so that XOR is SymDiff and a word of n bits is a subset of         *)
(* 0 .. n - 1 with its most significant bit at 0.  A check register that   *)
(* is shifted bit by bit is the remainder of a division of polynomials.    *)
(***************************************************************************)
EXTENDS Integers, Sequences, FiniteSetsExt

CONSTANTS Loads,       \* what is coded: records with a kind, see Coded
          MaxApart,    \* bound: how far apart two flipped bits are
          MaxShuffles  \* bound: bursts lost, repeated or swapped

VARIABLES carried,   \* what was coded
          bursts,    \* the bursts under way, as they are by now
          flipped,   \* the places <<burst, bit>> that were flipped
          shuffles   \* how often the sequence of bursts was disturbed
burstVars == <<carried, bursts, flipped, shuffles>>

(* What a function reads: the set of the one answer, or no answer.         *)
Unread == {}

---------------------------------------------------------------------------
(* Words.                                                                  *)
Shift(w, n) == {b + n : b \in w}
Part(w, from, n) == Shift(w \cap (from .. from + n - 1), -from)
Bits(value, n) == {i \in 0 .. n - 1 : (value \div 2^(n - 1 - i)) % 2 = 1}
Value(w, n) == MapThenSumSet(LAMBDA i : 2^(n - 1 - i), w)
Odd(w) == Cardinality(w) % 2 = 1

(* What is left of a word when its first n bits are divided away, an octet *)
(* at a time.                                                              *)
Remainder(word, n, generator) ==
  LET Divided(w, from) ==
        LET left[i \in 0 .. 8] ==
              IF i = 0 THEN w
              ELSE LET was == left[i - 1]
                       at == from + i - 1
                   IN IF at < n /\ at \in was THEN SymDiff(was, Shift(generator, at)) ELSE was
        IN left[8]
      octets[k \in 0 .. (n + 7) \div 8] ==
        IF k = 0 THEN word
        ELSE UNION {Divided(w, 8 * (k - 1)) : w \in {octets[k - 1]}}
  IN Shift(octets[(n + 7) \div 8], -n)

---------------------------------------------------------------------------
(* The Golay codes and the vocoder frame: golay.go, ambe.go.               *)
golay23Poly == Bits(\hC75, 12)
syndrome23(word) == Remainder(word, 12, golay23Poly)

(* Every pattern of three errors or fewer, recorded by its syndrome.       *)
golayRecords == {<<syndrome23(e), e>> : e \in {{}} \cup {{a, b, c} : a, b, c \in 0 .. 22}}
golay23Syndromes ==
  [s \in SUBSET (0 .. 10) |-> (CHOOSE r \in golayRecords : r[1] = s)[2]]

EncodeGolay23(data) == data \cup Shift(syndrome23(data), 12)
EncodeGolay24(data) ==
  LET c == EncodeGolay23(data) IN IF Odd(c) THEN c \cup {23} ELSE c
DecodeGolay23(word) ==
  LET e == golay23Syndromes[syndrome23(word)]
  IN [data |-> SymDiff(word, e) \cap (0 .. 11), corrected |-> Cardinality(e)]
DecodeGolay24(word) == DecodeGolay23(word \ {23})

scramble(key) ==
  LET pr[i \in 0 .. 23] == IF i = 0 THEN (16 * Value(key, 12)) % 65536
                           ELSE (173 * pr[i - 1] + 13849) % 65536
  IN {i \in 0 .. 22 : pr[i + 1] >= 32768}

Interleaved(i) == (i % 18) * 4 + i \div 18
interleave(g) == {Interleaved(i) : i \in g}
deinterleave(frame) == {i \in 0 .. 71 : Interleaved(i) \in frame}

(* 49 parameter bits: twelve under each Golay code, the second scrambled   *)
(* by the first, and 25 bare.                                              *)
EncodeFrame(p) ==
  LET u0 == Part(p, 0, 12)
  IN interleave(EncodeGolay24(u0)
                  \cup Shift(SymDiff(EncodeGolay23(Part(p, 12, 12)), scramble(u0)), 24)
                  \cup Shift(Part(p, 24, 25), 47))

(* A frame is refused when its first block has no error but its parity is  *)
(* wrong.                                                                  *)
DecodeFrame(frame) ==
  LET g == deinterleave(frame)
      c0 == Part(g, 0, 24)
      d0 == DecodeGolay24(c0)
      d1 == DecodeGolay23(SymDiff(Part(g, 24, 23), scramble(d0.data)))
  IN [ok |-> ~(EncodeGolay24(d0.data) # c0 /\ d0.corrected = 0),
      p |-> d0.data \cup Shift(d1.data, 12) \cup Shift(Part(g, 47, 25), 24),
      corrected |-> d0.corrected + d1.corrected]

---------------------------------------------------------------------------
(* The voice burst and the IPSC core: burst.go, ipsc.go.                   *)
SyncOffset == 108
VoiceSyncBS == Bits(\h755F, 16) \cup Shift(Bits(\hD7DF, 16), 16) \cup Shift(Bits(\h75F7, 16), 32)

AssembleBurst(frames, middle) ==
  LET payload == UNION {Shift(frames[i], 72 * i) : i \in 0 .. 2}
  IN Part(payload, 0, SyncOffset) \cup Shift(middle, SyncOffset)
       \cup Shift(payload \cap (SyncOffset .. 215), 48)
VocoderFrames(burst) ==
  LET payload == Part(burst, 0, SyncOffset)
                   \cup Shift(Part(burst, SyncOffset + 48, SyncOffset), SyncOffset)
  IN [i \in 0 .. 2 |-> Part(payload, 72 * i, 72)]
Middle(burst) == Part(burst, SyncOffset, 48)

UnpackIPSCCore(core) == [i \in 0 .. 2 |-> Part(core, 50 * i, 49)]
PackIPSCCore(frames) == UNION {Shift(frames[i], 50 * i) : i \in 0 .. 2}

BurstFromIPSC(core, middle) ==
  AssembleBurst([i \in 0 .. 2 |-> EncodeFrame(UnpackIPSCCore(core)[i])], middle)
IPSCFromBurst(burst) ==
  LET frames == VocoderFrames(burst)
      decoded == [i \in 0 .. 2 |-> DecodeFrame(frames[i])]
  IN IF \E i \in 0 .. 2 : ~decoded[i].ok THEN [ok |-> FALSE]
     ELSE [ok |-> TRUE, core |-> PackIPSCCore([i \in 0 .. 2 |-> decoded[i].p]),
           corrected |-> decoded[0].corrected + decoded[1].corrected + decoded[2].corrected]

---------------------------------------------------------------------------
(* Embedded signalling, one word of 48 bits in the middle of a voice       *)
(* burst: emb.go, and Encoder.position, which reads it.                    *)
LCSSSingle == 0
LCSSFirst == 1
LCSSLast == 2
LCSSContinuation == 3

EMBFor(colourCode, lcss) ==
  LET info == Bits(colourCode, 4) \cup Shift(Bits(lcss, 2), 5)
      code15 == info \cup Shift(Remainder(info, 7, Bits(\h139, 9)), 7)
  IN IF Odd(code15) THEN code15 \cup {15} ELSE code15
ColourCodeOf(emb) == Value(Part(emb, 0, 4), 4)
LCSSOf(emb) == Value(Part(emb, 5, 2), 2)
ValidEMB(emb) == EMBFor(ColourCodeOf(emb), LCSSOf(emb)) = emb

EmbeddedMiddle(emb, fragment) ==
  Part(emb, 0, 8) \cup Shift(fragment, 8) \cup Shift(Part(emb, 8, 8), 40)
SplitMiddle(middle) ==
  [emb |-> Part(middle, 0, 8) \cup Shift(Part(middle, 40, 8), 8),
   fragment |-> Part(middle, 8, 32)]
LCSSForPosition(position) ==
  CASE position = 1 -> LCSSFirst [] position \in {2, 3} -> LCSSContinuation
    [] position = 4 -> LCSSLast  [] position = 5 -> LCSSSingle
MiddleForPosition(position, colourCode, fragment) ==
  IF position = 0 THEN VoiceSyncBS
  ELSE EmbeddedMiddle(EMBFor(colourCode, LCSSForPosition(position)), fragment)

(* A burst whose EMB does not verify is taken for one with no fragment.    *)
PositionOf(burst) ==
  LET split == SplitMiddle(Middle(burst))
  IN IF ValidEMB(split.emb)
     THEN [lcss |-> LCSSOf(split.emb), fragment |-> split.fragment]
     ELSE [lcss |-> LCSSSingle, fragment |-> {}]

---------------------------------------------------------------------------
(* The embedded Link Control, 72 bits over four bursts: embeddedlc.go.     *)
hamming16_11_4 ==
  <<{0, 3, 4}, {0, 1, 3}, {0, 1, 2, 3, 4}, {0, 1, 2}, {1, 2, 3}, {0, 2, 4},
    {1, 3, 4}, {0, 2, 3}, {0, 1, 4}, {1, 2, 4}, {2, 3, 4}>>
hammingParity16(data) == {j \in 0 .. 4 : Odd({i \in data : j \in hamming16_11_4[i + 1]})}
EmbeddedLCChecksum(lc) == MapThenSumSet(LAMBDA i : 2^(7 - (i % 8)), lc) % 31

(* Eleven bits of it in rows 0 and 1, ten in rows 2 to 6.                  *)
LCCell(k) == IF k < 22 THEN <<k \div 11, k % 11>>
             ELSE <<2 + (k - 22) \div 10, (k - 22) % 10>>
RowOf(m, row) == {c[2] : c \in {d \in m : d[1] = row}}
EncodeEmbeddedLC(lc) ==
  LET info == {LCCell(k) : k \in lc}
                \cup {<<2 + i, 10>> : i \in Bits(EmbeddedLCChecksum(lc), 5)}
      rows == info \cup UNION {{<<r, 11 + j>> : j \in hammingParity16(RowOf(info, r))} :
                                r \in 0 .. 6}
      all == rows \cup {<<7, c>> : c \in {d \in 0 .. 15 : Odd({cell \in rows : cell[2] = d})}}
  IN [burst \in 1 .. 4 |-> Part({c[2] * 8 + c[1] : c \in all}, 32 * (burst - 1), 32)]
DecodeEmbeddedLC(fragments) ==
  LET seq == UNION {Shift(fragments[b], 32 * (b - 1)) : b \in 1 .. 4}
      holds(cell) == cell[2] * 8 + cell[1] \in seq
      lc == {k \in 0 .. 71 : holds(LCCell(k))}
      cs == {i \in 0 .. 4 : holds(<<2 + i, 10>>)}
  IN IF Value(cs, 5) = EmbeddedLCChecksum(lc) THEN {lc} ELSE Unread
EmbeddedLCMiddles(lc, colourCode) ==
  [b \in 1 .. 4 |-> MiddleForPosition(b, colourCode, EncodeEmbeddedLC(lc)[b])]

---------------------------------------------------------------------------
(* The talker alias, Link Controls that carry characters: talkeralias.go.  *)
TalkerAliasMaxLength == 31
HeaderRoom(width) == 49 \div width
BlockRoom(width) == 56 \div width
FLCO(n) == Shift(Bits(n, 6), 2)
Written(chars, width, at, first, room) ==
  UNION {Shift(Bits(chars[first + i], width), at + i * width) :
           i \in {j \in 0 .. room - 1 : first + j <= Len(chars)}}
CharsAt(width) == IF width = 8 THEN 24 ELSE 23
TalkerAliasPDUs(chars, width) ==
  LET n == Len(chars)
      used == IF HeaderRoom(width) > n THEN n ELSE HeaderRoom(width)
      blocks == (n - used + BlockRoom(width) - 1) \div BlockRoom(width)
  IN IF n = 0 \/ n > TalkerAliasMaxLength \/ n > HeaderRoom(width) + 3 * BlockRoom(width)
     THEN <<>>
     ELSE <<FLCO(4) \cup Shift(Bits(IF width = 7 THEN 0 ELSE 1, 2), 16)
              \cup Shift(Bits(n, 5), 18)
              \cup Written(chars, width, CharsAt(width), 1, HeaderRoom(width))>>
          \o [b \in 1 .. blocks |->
                FLCO(4 + b) \cup Written(chars, width, 16,
                                         used + (b - 1) * BlockRoom(width) + 1, BlockRoom(width))]

(* Characters are read until there are as many as the header says.         *)
ReadChars(pdu, width, at, count) ==
  [i \in 1 .. count |-> Value(Part(pdu, at + (i - 1) * width, width), width)]
TalkerAliasFrom(pdus) ==
  IF pdus = <<>> \/ Part(Head(pdus), 2, 6) # Bits(4, 6) THEN Unread
  ELSE LET head == Head(pdus)
           width == IF Part(head, 16, 2) = {} THEN 7 ELSE 8
           length == Value(Part(head, 18, 5), 5)
           room == (72 - CharsAt(width)) \div width
           least(a, b) == IF a < b THEN a ELSE b
           chars[i \in 1 .. Len(pdus)] ==
             IF i = 1 THEN ReadChars(head, width, CharsAt(width), least(room, length))
             ELSE LET was == chars[i - 1]
                  IN was \o ReadChars(pdus[i], width, 16,
                                      least(BlockRoom(width), length - Len(was)))
       IN IF /\ length > 0 /\ Part(head, 16, 2) # {0, 1}
             /\ \A i \in 2 .. Len(pdus) : Part(pdus[i], 2, 6) = Bits(3 + i, 6)
             /\ Len(chars[Len(pdus)]) = length
          THEN {chars[Len(pdus)]} ELSE Unread

---------------------------------------------------------------------------
(* The data burst: a block of 96 bits in a product code of 13 rows and 15  *)
(* columns (bptc.go), between them the Slot Type and the synchronisation   *)
(* (linkcontrol.go).                                                       *)
hamming15Taps == <<{0, 1, 2, 3, 5, 7, 8}, {1, 2, 3, 4, 6, 8, 9},
                   {2, 3, 4, 5, 7, 9, 10}, {0, 1, 2, 4, 6, 7, 10}>>
hamming13Taps == <<{0, 1, 3, 5, 6}, {0, 1, 2, 4, 6, 7},
                   {0, 1, 2, 3, 5, 7, 8}, {0, 2, 4, 5, 8}>>
hamming15Parity(d) == {j \in 0 .. 3 : Odd(d \cap hamming15Taps[j + 1])}
hamming13Parity(d) == {j \in 0 .. 3 : Odd(d \cap hamming13Taps[j + 1])}

bptcInterleave(i) == (i * 181) % 196
EncodeBPTC(payload) ==
  LET info == Shift(payload, 3)
      row(r) == LET d == Part(info, 11 * r, 11) IN d \cup Shift(hamming15Parity(d), 11)
      top == UNION {Shift(row(r), 15 * r) : r \in 0 .. 8}
      column(c) == {r \in 0 .. 8 : 15 * r + c \in top}
      foot == UNION {{15 * (9 + r) + c : r \in hamming13Parity(column(c))} : c \in 0 .. 14}
  IN {bptcInterleave(i) : i \in Shift(top \cup foot, 1)}

dataBurstHalves(burst) == Part(burst, 0, 98) \cup Shift(Part(burst, 166, 98), 98)
DecodeBPTC(burst) ==
  LET raw == dataBurstHalves(burst)
      block == {i \in 1 .. 135 : bptcInterleave(i) \in raw}
      row(r) == Part(block, 1 + 15 * r, 15)
      info == UNION {Shift(Part(row(r), 0, 11), 11 * r) : r \in 0 .. 8}
  IN [payload |-> Part(info, 3, 96),
      rowsValid |-> Cardinality({r \in 0 .. 8 :
                       hamming15Parity(Part(row(r), 0, 11)) = Part(row(r), 11, 4)})]

(* Mutant: the sixth row mistranscribed in two bits. *)
golay208RowsMistaken ==
  <<Bits(\h3DA, 12), Bits(\hD99, 12), Bits(\h6CD, 12), Bits(\h367, 12),
    Bits(\hDC6, 12), Bits(\hAA7, 12), Bits(\h93E, 12), Bits(\h8EB, 12)>>
golay208Rows == <<Bits(\h3DA, 12), Bits(\hD99, 12), Bits(\h6CD, 12), Bits(\h367, 12),
                  Bits(\hDC6, 12), Bits(\hA97, 12), Bits(\h93E, 12), Bits(\h8EB, 12)>>
SlotTypeInfo(colourCode, dataType) == Bits(colourCode, 4) \cup Shift(Bits(dataType, 4), 4)
SlotType(colourCode, dataType) ==
  LET info == SlotTypeInfo(colourCode, dataType)
      parity == {j \in 0 .. 11 : Odd({i \in info : j \in golay208Rows[i + 1]})}
  IN info \cup Shift(parity, 8)
SlotTypeOf(burst) ==
  LET v == Part(burst, 98, 10) \cup Shift(Part(burst, 156, 10), 10)
  IN [colourCode |-> Value(Part(v, 0, 4), 4), dataType |-> Value(Part(v, 4, 4), 4), word |-> v]

DataSyncBS == Bits(\hDFF5, 16) \cup Shift(Bits(\h7D75, 16), 16) \cup Shift(Bits(\hDF5D, 16), 32)
dataBurstFromCoded(colourCode, dataType, coded) ==
  LET slot == SlotType(colourCode, dataType)
  IN Part(coded, 0, 98) \cup Shift(Part(coded, 98, 98), 166)
       \cup Shift(Part(slot, 0, 10), 98) \cup Shift(Part(slot, 10, 10), 156)
       \cup Shift(DataSyncBS, SyncOffset)
BuildDataBurstFromBlock(colourCode, dataType, block) ==
  dataBurstFromCoded(colourCode, dataType, EncodeBPTC(block))

---------------------------------------------------------------------------
(* The Link Control block, nine octets and three of Reed-Solomon parity    *)
(* masked by what the burst is: linkcontrol.go.                            *)
(* The product that the tables of powers and logarithms give: that of two  *)
(* polynomials, reduced by rsPrimitive.                                    *)
gfMul(a, b) ==
  LET product == {k \in 0 .. 14 : Odd({i \in a : k - i \in b})}
  IN Remainder(product, 7, Bits(\h11D, 9))

rsParityColumns ==
  <<<<\h1C, \hBC, \hFD>>, <<\h89, \h31, \h08>>, <<\hAD, \h41, \h36>>,
    <<\h7D, \h71, \h16>>, <<\hF3, \hA6, \h3A>>, <<\h08, \h83, \h7B>>,
    <<\h3F, \h6F, \h02>>, <<\h6C, \h0D, \hA7>>, <<\h0E, \h38, \h40>>>>
RSParity(lc) ==
  LET sum[i \in 0 .. 9, j \in 1 .. 3] ==
        IF i = 0 THEN {}
        ELSE SymDiff(sum[i - 1, j],
                     gfMul(Part(lc, 8 * (i - 1), 8), Bits(rsParityColumns[i][j], 8)))
  IN UNION {Shift(sum[9, j], 8 * (j - 1)) : j \in 1 .. 3}

VoiceLCHeader == 1
TerminatorWithLC == 2
DataTypeCSBK == 3
DataTypeDataHeader == 6
DataTypeRate12 == 7
DataTypeRate34 == 8
rsMaskFor(dataType) ==
  LET octet == IF dataType = VoiceLCHeader THEN Bits(\h96, 8) ELSE Bits(\h99, 8)
  IN UNION {Shift(octet, 8 * j) : j \in 0 .. 2}

LinkControlBlock(lc, dataType) == lc \cup Shift(SymDiff(RSParity(lc), rsMaskFor(dataType)), 72)
BuildDataBurst(colourCode, dataType, lc) ==
  BuildDataBurstFromBlock(colourCode, dataType, LinkControlBlock(lc, dataType))
CheckLinkControl(payload, dataType) ==
  LET lc == Part(payload, 0, 72)
  IN IF LinkControlBlock(lc, dataType) = payload THEN {lc} ELSE Unread

---------------------------------------------------------------------------
(* The Rate 3/4 trellis: 48 tribits and a flush of zero, each a point that *)
(* depends on the one before, in 98 dibits: trellis.go.                    *)
trellisTransitions ==
  <<<<0, 8, 4, 12, 2, 10, 6, 14>>, <<4, 12, 2, 10, 6, 14, 0, 8>>,
    <<1, 9, 5, 13, 3, 11, 7, 15>>, <<5, 13, 3, 11, 7, 15, 1, 9>>,
    <<3, 11, 7, 15, 1, 9, 5, 13>>, <<7, 15, 1, 9, 5, 13, 3, 11>>,
    <<2, 10, 6, 14, 0, 8, 4, 12>>, <<6, 14, 0, 8, 4, 12, 2, 10>>>>
trellisPoints == <<2, 10, 7, 15, 14, 6, 11, 3, 13, 5, 8, 0, 1, 9, 4, 12>>

(* The transmit order: every fourth pair of dibits, from the first on, the *)
(* second on, and so on.                                                   *)
trellisInterleave(i) ==
  LET turn == IF i < 26 THEN 0 ELSE 1 + (i - 26) \div 24
      along == IF i < 26 THEN i ELSE (i - 26) % 24
  IN 8 * (along \div 2) + 2 * turn + (i % 2)

EncodeTrellis(payload) ==
  LET tribit(i) == Value(Part(payload, 3 * i, 3), 3)
      state(i) == IF i = 0 THEN 0 ELSE tribit(i - 1)
      point(i) == trellisTransitions[state(i) + 1][tribit(i) + 1]
      coded == UNION {Shift(Bits(trellisPoints[point(i) + 1], 4), 4 * i) : i \in 0 .. 48}
  IN UNION {Shift(Part(coded, 2 * trellisInterleave(i), 2), 2 * i) : i \in 0 .. 97}

(* There is no search for a likelier path: a point its state cannot        *)
(* produce refuses the burst.                                              *)
DecodeTrellis(burst) ==
  LET raw == dataBurstHalves(burst)
      coded == UNION {Shift(Part(raw, 2 * i, 2), 2 * trellisInterleave(i)) : i \in 0 .. 97}
      pair == [i \in 0 .. 48 |-> Value(Part(coded, 4 * i, 4), 4)]
      point(i) == (CHOOSE p \in 1 .. 16 : trellisPoints[p] = pair[i]) - 1
      tribits[i \in 0 .. 49] ==
        IF i = 0 THEN [ok |-> TRUE, state |-> 0, bits |-> {}]
        ELSE LET was == tribits[i - 1]
                 inputs == {t \in 0 .. 7 : trellisTransitions[was.state + 1][t + 1] = point(i - 1)}
             IN IF ~was.ok \/ inputs = {} THEN [was EXCEPT !.ok = FALSE]
                ELSE LET input == CHOOSE t \in inputs : TRUE
                     IN [ok |-> TRUE, state |-> input,
                         bits |-> was.bits \cup Shift(Bits(input, 3), 3 * (i - 1))]
  IN IF tribits[49].ok THEN {tribits[49].bits \cap (0 .. 143)} ELSE Unread

---------------------------------------------------------------------------
(* Confirmed data blocks of sixteen octets, a serial number of seven bits  *)
(* and nine of CRC, which IPSC puts last and the air first: rate34.go.     *)
CRC9(data, serial) ==
  Remainder(data \cup Shift(Bits(serial, 7), 128), 135, Bits(\h259, 10))
Pair(data, serial) == Bits(serial, 7) \cup Shift(CRC9(data, serial), 7)
ControlLast == "control-last"
ControlFirst == "control-first"
DataOf(block, order) == Part(block, IF order = ControlLast THEN 0 ELSE 16, 128)
ControlOf(block, order) == Part(block, IF order = ControlLast THEN 128 ELSE 0, 16)
SerialOf(block, order) == Value(Part(ControlOf(block, order), 0, 7), 7)
Verifies(block, order) ==
  ControlOf(block, order) = Pair(DataOf(block, order), SerialOf(block, order))
Rate34OrderOf(block) ==
  IF Verifies(block, ControlLast) THEN ControlLast
  ELSE IF Verifies(block, ControlFirst) THEN ControlFirst ELSE "unknown"
Rate34Rotate(block, from) ==
  IF from = ControlLast THEN ControlOf(block, from) \cup Shift(DataOf(block, from), 16)
  ELSE DataOf(block, from) \cup Shift(ControlOf(block, from), 128)

BuildRate34Burst(colourCode, block) ==
  dataBurstFromCoded(colourCode, DataTypeRate34, EncodeTrellis(Rate34Rotate(block, ControlLast)))
DecodeRate34Burst(burst) ==
  {IF Rate34OrderOf(found) = ControlLast THEN found ELSE Rate34Rotate(found, ControlFirst) :
     found \in DecodeTrellis(burst)}

(* The block a Homebrew frame carries on to a repeater: the trellis only   *)
(* where the Slot Type in the burst and the frame's own data type agree    *)
(* (encode.go, blockOf and IsRate34).                                      *)
blockOf(dataType, burst) ==
  IF dataType = DataTypeRate34 /\ SlotTypeOf(burst).dataType = DataTypeRate34
  THEN {[octets |-> 18, bits |-> block] : block \in DecodeRate34Burst(burst)}
  ELSE {[octets |-> 12, bits |-> DecodeBPTC(burst).payload]}

---------------------------------------------------------------------------
(* A packet, its pad and its CRC in blocks: datablocks.go.                 *)
Rate34Blocks(userData, count) ==
  [i \in 1 .. count |->
     LET data == Part(userData, 128 * (i - 1), 128) IN data \cup Shift(Pair(data, i - 1), 128)]
Rate34UserData(blocks) ==
  IF blocks = <<>> \/ \E i \in DOMAIN blocks :
                              \/ blocks[i].octets # 18
                              \/ SerialOf(blocks[i].bits, ControlLast) # i - 1
                              \/ ~Verifies(blocks[i].bits, ControlLast)
  THEN Unread
  ELSE {UNION {Shift(DataOf(blocks[i].bits, ControlLast), 128 * (i - 1)) : i \in DOMAIN blocks}}
Rate12Blocks(userData, count) == [i \in 1 .. count |-> Part(userData, 96 * (i - 1), 96)]
Rate12UserData(blocks) == UNION {Shift(blocks[i], 96 * (i - 1)) : i \in DOMAIN blocks}

(* The CRC goes over the octets in swapped pairs, and is carried with its  *)
(* own octets reversed.                                                    *)
Swapped(i) == IF (i \div 8) % 2 = 0 THEN i + 8 ELSE i - 8
Reversed(i) == 8 * (3 - (i \div 8)) + (i % 8)
PacketCRC(covered, octets) ==
  LET crc == Remainder({Swapped(i) : i \in covered}, 8 * octets,
                       {0} \cup Shift(Bits(\h04C11DB7, 27), 6))
  IN {Reversed(i) : i \in crc}
JoinPacket(payload, blocks, blockBytes) ==
  LET octets == blocks * blockBytes - 4
  IN payload \cup Shift(PacketCRC(payload, octets), 8 * octets)
VerifyPacket(userData, total) ==
  /\ total >= 4
  /\ Part(userData, 8 * (total - 4), 32)
       = PacketCRC(userData \cap (0 .. 8 * (total - 4) - 1), total - 4)
BlocksFor(octets, blockBytes) == (octets + 4 + blockBytes - 1) \div blockBytes
PadOctets(octets, blocks, blockBytes) == blocks * blockBytes - octets - 4

---------------------------------------------------------------------------
(* The preamble and the data header, ten octets and a CRC whose mask tells *)
(* them apart: csbk.go, dataheader.go.                                     *)
ccitt16(block) == Remainder(block, 80, Bits(\h11021, 17))
Checked(block, mask) == block \cup Shift(SymDiff(ccitt16(block), Bits(mask, 16)), 80)
CSBKMask == \h5A5A
DataHeaderMask == \h3333
Octets(values) == UNION {Shift(Bits(values[i], 8), 8 * (i - 1)) : i \in DOMAIN values}
Ids(to, from) == Bits(to, 24) \cup Shift(Bits(from, 24), 24)

BuildPreamble(toFollow, to, from) ==
  Checked(Octets(<<\h80 + 61, 0, \hC0, toFollow>>) \cup Shift(Ids(to, from), 32), CSBKMask)
ParsePreamble(block) ==
  IF /\ Checked(Part(block, 0, 80), CSBKMask) = block
     /\ Value(Part(block, 2, 6), 6) = 61 /\ Part(block, 8, 8) = {}
  THEN {[toFollow |-> Value(Part(block, 24, 8), 8),
         to |-> Value(Part(block, 32, 24), 24), from |-> Value(Part(block, 56, 24), 24)]}
  ELSE Unread
BuildDataHeader(blocks, pad, to, from) ==
  Checked(Octets(<<\h80 + 2, \h40 + pad>>) \cup Shift(Ids(to, from), 16)
            \cup Shift(Bits(\h80 + blocks, 8), 64), DataHeaderMask)
ParseDataHeader(block) ==
  IF /\ Checked(Part(block, 0, 80), DataHeaderMask) = block
     /\ Value(Part(block, 4, 4), 4) \in {2, 3}
  THEN {[blocks |-> Value(Part(block, 68, 4), 4), pad |-> Value(Part(block, 12, 4), 4),
         to |-> Value(Part(block, 16, 24), 24), from |-> Value(Part(block, 40, 24), 24)]}
  ELSE Unread

(* A group text as the bursts that carry it, with one preamble for the     *)
(* sixteen (tms/frames.go, Frames).                                        *)
Preambles == 1
Frames(m, colourCode) ==
  LET blocks == BlocksFor(m.octets, 12)
      content == Rate12Blocks(JoinPacket(m.payload, blocks, 12), blocks)
      burst(dataType, block) == BuildDataBurstFromBlock(colourCode, dataType, block)
  IN [i \in 1 .. Preambles |->
        burst(DataTypeCSBK, BuildPreamble(Preambles - i + 1 + blocks, m.to, m.from))]
     \o <<burst(DataTypeDataHeader,
                BuildDataHeader(blocks, PadOctets(m.octets, blocks, 12), m.to, m.from))>>
     \o [i \in 1 .. blocks |-> burst(DataTypeRate12, content[i])]

---------------------------------------------------------------------------
(* The path: what is carried is coded once, and damaged on its way.        *)
Coded(c) ==
  CASE c.kind = "speech" -> <<BurstFromIPSC(c.core,
                                MiddleForPosition(c.position, c.colourCode, c.fragment))>>
    [] c.kind = "control" -> <<BuildDataBurst(c.colourCode, c.dataType, c.lc)>>
    [] c.kind = "embedded" -> EmbeddedLCMiddles(c.lc, c.colourCode)
    [] c.kind = "alias" -> TalkerAliasPDUs(c.chars, c.width)
    [] c.kind = "confirmed" ->
         LET blocks == BlocksFor(c.octets, 16)
             content == Rate34Blocks(JoinPacket(c.payload, blocks, 16), blocks)
         IN [i \in 1 .. blocks |-> BuildRate34Burst(c.colourCode, content[i])]
    [] c.kind = "group" -> Frames(c, c.colourCode)

(* How many bits a burst may have flipped, and how long it is.             *)
MaxFlips(kind) == CASE kind \in {"speech", "control"} -> 2
                    [] kind = "alias" -> 0 [] OTHER -> 1
Width(kind) == IF kind = "embedded" THEN 48 ELSE 264

NothingSent == [kind |-> "none"]
BurstIdle == carried = NothingSent /\ bursts = <<>> /\ flipped = {} /\ shuffles = 0
BurstInit == /\ carried \in Loads
             /\ bursts = Coded(carried)
             /\ flipped = {} /\ shuffles = 0

Flip(i, b) ==
  /\ Cardinality(flipped) < MaxFlips(carried.kind) /\ shuffles = 0
  /\ \A f \in flipped : b - f[2] \in 1 .. MaxApart
  /\ flipped' = flipped \cup {<<i, b>>}
  /\ bursts' = [bursts EXCEPT ![i] = SymDiff(@, {b})]
  /\ UNCHANGED <<carried, shuffles>>

Shuffle(to) == /\ shuffles < MaxShuffles /\ flipped = {}
               /\ carried.kind \in {"alias", "confirmed", "group"}
               /\ bursts' = to /\ shuffles' = shuffles + 1
               /\ UNCHANGED <<carried, flipped>>
Lose(i) == Shuffle(SubSeq(bursts, 1, i - 1) \o SubSeq(bursts, i + 1, Len(bursts)))
Repeat(i) == Shuffle(SubSeq(bursts, 1, i) \o SubSeq(bursts, i, Len(bursts)))
Swap(i) == /\ i < Len(bursts)
           /\ Shuffle([bursts EXCEPT ![i] = bursts[i + 1], ![i + 1] = bursts[i]])

BurstNext == \E i \in DOMAIN bursts : \/ \E b \in 0 .. Width(carried.kind) - 1 : Flip(i, b)
                                   \/ Lose(i) \/ Repeat(i) \/ Swap(i)

---------------------------------------------------------------------------
(* Where bit g of the code of vocoder frame i is in the burst.             *)
Place(i, g) == LET p == 72 * i + Interleaved(g) IN IF p < SyncOffset THEN p ELSE p + 48

(* Two bits of a voice burst are flipped, wherever: the speech comes out   *)
(* as it went in but for the bare bits that were hit, every hit on the     *)
(* others counted as corrected, although the second code of a frame is     *)
(* scrambled by what the first one carries; the burst is refused only when *)
(* the parity bit is all that is wrong with a frame.  And the place in the *)
(* superframe is read right or, where its protection was hit, as none      *)
(* (ambe.go, Decode; encode.go, position).                                 *)
SpeechSurvives ==
    LET bits == {f[2] : f \in flipped}
        hit == [i \in 0 .. 2 |-> {g \in 0 .. 71 : Place(i, g) \in bits}]
        read == IPSCFromBurst(bursts[1])
        position == PositionOf(bursts[1])
    IN /\ read.ok <=> \A i \in 0 .. 2 : hit[i] \cap (0 .. 23) # {23}
       /\ read.ok =>
            /\ read.core = SymDiff(carried.core,
                             UNION {{50 * i + g - 23 : g \in hit[i] \cap (47 .. 71)} : i \in 0 .. 2})
            /\ read.corrected = Cardinality(UNION {{i} \X (hit[i] \cap (0 .. 22 \cup 24 .. 46)) : i \in 0 .. 2})
       /\ carried.position # 0 =>
            position = IF bits \cap (108 .. 115 \cup 148 .. 155) # {}
                       THEN [lcss |-> LCSSSingle, fragment |-> {}]
                       ELSE [lcss |-> LCSSForPosition(carried.position),
                             fragment |-> SymDiff(carried.fragment, Part(bits, 116, 32))]

(* What is read of a sequence of bursts, by the functions that undo the    *)
(* coding.                                                                 *)
ReadControl ==
  LET read == DecodeBPTC(bursts[1])
      whole == LinkControlBlock(carried.lc, carried.dataType)
      slot == SlotTypeOf(bursts[1]).word
  IN /\ read.rowsValid = 9 => read.payload = whole
     /\ \A t \in {VoiceLCHeader, TerminatorWithLC} :
          CheckLinkControl(read.payload, t)
            \subseteq (IF t = carried.dataType THEN {carried.lc} ELSE {})
     /\ flipped = {} =>
          /\ read.rowsValid = 9 /\ read.payload = whole
          /\ \A other \in (0 .. 15) \X (0 .. 15) :
               other # <<carried.colourCode, carried.dataType>> =>
                 Cardinality(SymDiff(slot, SlotType(other[1], other[2]))) >= 7
ReadEmbedded ==
  LET read == DecodeEmbeddedLC([i \in 1 .. 4 |-> SplitMiddle(bursts[i]).fragment])
  IN read \subseteq {carried.lc} /\ (flipped = {} => read # Unread)
ReadAlias ==
  LET read == TalkerAliasFrom(bursts)
      tooLong == Len(carried.chars) > (IF carried.width = 8 THEN 27 ELSE 31)
  IN /\ read \subseteq {carried.chars}
     /\ shuffles = 0 => (read = Unread <=> tooLong)
ReadConfirmed ==
  LET blocks == [i \in DOMAIN bursts |-> blockOf(DataTypeRate34, bursts[i])]
      count == BlocksFor(carried.octets, 16)
      read == IF \E i \in DOMAIN bursts : blocks[i] = Unread THEN Unread
              ELSE Rate34UserData([i \in DOMAIN bursts |-> CHOOSE b \in blocks[i] : TRUE])
      verified == {u \in read : VerifyPacket(u, 16 * Len(bursts))}
  IN /\ verified \subseteq {JoinPacket(carried.payload, count, 16)}
     /\ flipped = {} /\ shuffles = 0 => verified # Unread
ReadGroup ==
  LET payload(i) == DecodeBPTC(bursts[i]).payload
      of(dataType) == {i \in DOMAIN bursts : SlotTypeOf(bursts[i]).dataType = dataType}
      content == SelectSeq(bursts, LAMBDA b : SlotTypeOf(b).dataType = DataTypeRate12)
      read == Rate12UserData([i \in DOMAIN content |-> DecodeBPTC(content[i]).payload])
      blocks == BlocksFor(carried.octets, 12)
      header == [blocks |-> blocks, pad |-> PadOctets(carried.octets, blocks, 12),
                 to |-> carried.to, from |-> carried.from]
      preamble == [toFollow |-> Preambles + blocks, to |-> carried.to, from |-> carried.from]
  IN /\ \A i \in of(DataTypeCSBK) : ParsePreamble(payload(i)) \subseteq {preamble}
     /\ \A i \in of(DataTypeDataHeader) : ParseDataHeader(payload(i)) \subseteq {header}
     /\ VerifyPacket(read, 12 * Len(content)) =>
          read = JoinPacket(carried.payload, blocks, 12) /\ Len(content) = blocks
     /\ flipped = {} /\ shuffles = 0 =>
          /\ \A i \in of(DataTypeCSBK) : ParsePreamble(payload(i)) # Unread
          /\ \A i \in of(DataTypeDataHeader) : ParseDataHeader(payload(i)) # Unread
          /\ VerifyPacket(read, 12 * Len(content))

(* Whatever happens on the way within the bounds, each of these holds of   *)
(* what is read: of a voice burst, SpeechSurvives; a data burst with bits  *)
(* flipped, and a text or an alias with blocks lost, repeated or swapped,  *)
(* is read as what was sent or refused by one of its checks (row parity,   *)
(* Reed-Solomon, serial numbers, CRCs, checksum, block numbers), never as  *)
(* something else; what arrives as it was sent is read; and two Slot Types *)
(* differ in seven bits, so that a receiver that corrects three reads the  *)
(* right one (ambe.go, linkcontrol.go, datablocks.go, talkeralias.go).     *)
ReadAsSent ==
  carried # NothingSent =>
  CASE carried.kind = "speech" -> SpeechSurvives
    [] carried.kind = "control" -> ReadControl
    [] carried.kind = "embedded" -> ReadEmbedded
    [] carried.kind = "alias" -> ReadAlias
    [] carried.kind = "confirmed" -> ReadConfirmed
    [] carried.kind = "group" -> ReadGroup
=============================================================================
