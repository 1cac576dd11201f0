---------------------------------- MODULE Crc ---------------------------------
(***************************************************************************)
(* The check codes of the SD card driver: CRC7 over commands and CRC16     *)
(* over blocks, each computed bytewise from a lookup table, against the    *)
(* division by the generator polynomial that the card makes, bit by bit.   *)
(* A byte is a number; data is a sequence of bytes.                        *)
(***************************************************************************)
EXTENDS Integers, Sequences, Bitwise, FiniteSetsExt, SequencesExt

CONSTANTS
  Blocks,     (* The blocks of data looked at.                            *)
  Masks,      (* Disturbances: what is inverted in a byte and in the next. *)
  Arguments   (* The arguments of commands, as four bytes.                *)

Byte == 0 .. 255

ASSUME CrcAssumption ==
  /\ Blocks \cup Arguments \subseteq Seq(Byte)
  /\ Masks \subseteq (Byte \X Byte) \ {<<0, 0>>}

------------------------------------------------------------------------------
(* The tables.                                                             *)
Crc7Lookup == <<
    0, 18, 36, 54, 72, 90, 108, 126, 144, 130, 180, 166, 216, 202, 252, 238,
    50, 32, 22, 4, 122, 104, 94, 76, 162, 176, 134, 148, 234, 248, 206, 220,
    100, 118, 64, 82, 44, 62, 8, 26, 244, 230, 208, 194, 188, 174, 152, 138,
    86, 68, 114, 96, 30, 12, 58, 40, 198, 212, 226, 240, 142, 156, 170, 184,
    200, 218, 236, 254, 128, 146, 164, 182, 88, 74, 124, 110, 16, 2, 52, 38,
    250, 232, 222, 204, 178, 160, 150, 132, 106, 120, 78, 92, 34, 48, 6, 20,
    172, 190, 136, 154, 228, 246, 192, 210, 60, 46, 24, 10, 116, 102, 80, 66,
    158, 140, 186, 168, 214, 196, 242, 224, 14, 28, 42, 56, 70, 84, 98, 112,
    130, 144, 166, 180, 202, 216, 238, 252, 18, 0, 54, 36, 90, 72, 126, 108,
    176, 162, 148, 134, 248, 234, 220, 206, 32, 50, 4, 22, 104, 122, 76, 94,
    230, 244, 194, 208, 174, 188, 138, 152, 118, 100, 82, 64, 62, 44, 26, 8,
    212, 198, 240, 226, 156, 142, 184, 170, 68, 86, 96, 114, 12, 30, 40, 58,
    74, 88, 110, 124, 2, 16, 38, 52, 218, 200, 254, 236, 146, 128, 182, 164,
    120, 106, 92, 78, 48, 34, 20, 6, 232, 250, 204, 222, 160, 178, 132, 150,
    46, 60, 10, 24, 102, 116, 66, 80, 190, 172, 154, 136, 246, 228, 210, 192,
    28, 14, 56, 42, 84, 70, 112, 98, 140, 158, 168, 186, 196, 214, 224, 242 >>

Crc16Lookup == <<
    0, 4129, 8258, 12387, 16516, 20645, 24774, 28903, 33032, 37161, 41290, 45419, 49548, 53677, 57806, 61935,
    4657, 528, 12915, 8786, 21173, 17044, 29431, 25302, 37689, 33560, 45947, 41818, 54205, 50076, 62463, 58334,
    9314, 13379, 1056, 5121, 25830, 29895, 17572, 21637, 42346, 46411, 34088, 38153, 58862, 62927, 50604, 54669,
    13907, 9842, 5649, 1584, 30423, 26358, 22165, 18100, 46939, 42874, 38681, 34616, 63455, 59390, 55197, 51132,
    18628, 22757, 26758, 30887, 2112, 6241, 10242, 14371, 51660, 55789, 59790, 63919, 35144, 39273, 43274, 47403,
    23285, 19156, 31415, 27286, 6769, 2640, 14899, 10770, 56317, 52188, 64447, 60318, 39801, 35672, 47931, 43802,
    27814, 31879, 19684, 23749, 11298, 15363, 3168, 7233, 60846, 64911, 52716, 56781, 44330, 48395, 36200, 40265,
    32407, 28342, 24277, 20212, 15891, 11826, 7761, 3696, 65439, 61374, 57309, 53244, 48923, 44858, 40793, 36728,
    37256, 33193, 45514, 41451, 53516, 49453, 61774, 57711, 4224, 161, 12482, 8419, 20484, 16421, 28742, 24679,
    33721, 37784, 41979, 46042, 49981, 54044, 58239, 62302, 689, 4752, 8947, 13010, 16949, 21012, 25207, 29270,
    46570, 42443, 38312, 34185, 62830, 58703, 54572, 50445, 13538, 9411, 5280, 1153, 29798, 25671, 21540, 17413,
    42971, 47098, 34713, 38840, 59231, 63358, 50973, 55100, 9939, 14066, 1681, 5808, 26199, 30326, 17941, 22068,
    55628, 51565, 63758, 59695, 39368, 35305, 47498, 43435, 22596, 18533, 30726, 26663, 6336, 2273, 14466, 10403,
    52093, 56156, 60223, 64286, 35833, 39896, 43963, 48026, 19061, 23124, 27191, 31254, 2801, 6864, 10931, 14994,
    64814, 60687, 56684, 52557, 48554, 44427, 40424, 36297, 31782, 27655, 23652, 19525, 15522, 11395, 7392, 3265,
    61215, 65342, 53085, 57212, 44955, 49082, 36825, 40952, 28183, 32310, 20053, 24180, 11923, 16050, 3793, 7920 >>

\* The entries are sums that are shifted left by one already.
Crc7(data) == FoldLeft(LAMBDA state, d : Crc7Lookup[((d ^^ (state * 2)) % 256) + 1], 0, data)

\* Wrong version: the bytes of the sum are in the order of the host.
Crc16Host(data) ==
  FoldLeft(LAMBDA state, d :
             (Crc16Lookup[((d ^^ (state \div 256)) % 256) + 1] ^^ (state * 256)) % 65536,
           0, data)

\* The sum as the driver has read it: its first byte on the wire is the low one.
Crc16(data) ==
  LET sum == FoldLeft(LAMBDA state, d :
                (Crc16Lookup[((d ^^ (state \div 256)) % 256) + 1] ^^ (state * 256)) % 65536,
              0, data)
  IN (sum % 256) * 256 + sum \div 256

(* A command in the order of its bytes on the wire: the opcode, the        *)
(* argument with its high byte first, and the check code with a stop bit.  *)
BuildCmd(opcode, arg) ==
  LET cmd == <<opcode>> \o arg IN Append(cmd, (2 * Crc7(cmd) + 1) % 256)

\* The commands that are written out in the code, in the same order.
FixedCommands == {
  <<64, 0, 0, 0, 0, 149>>,     \* CMD0
  <<72, 0, 0, 1, 170, 135>>,   \* CMD8
  <<119, 0, 0, 0, 0, 101>>,    \* CMD55
  <<105, 64, 0, 0, 0, 119>>,   \* ACMD41
  <<122, 0, 0, 0, 0, 253>>,    \* CMD58
  <<80, 0, 0, 2, 0, 21>>,      \* CMD16
  <<76, 0, 0, 0, 0, 97>> }     \* CMD12

------------------------------------------------------------------------------
(* The card's side: the remainder of the data, as a polynomial, divided by *)
(* a generator of the given width, whose other terms are poly.             *)
Power(width) == 2 ^ width
Bit(byte, k) == (byte \div 2 ^ (8 - k)) % 2
Bits(data) == [n \in 1 .. 8 * Len(data) |-> Bit(data[((n - 1) \div 8) + 1], ((n - 1) % 8) + 1)]

Shift(width, poly, state, bit) ==
  LET next == (2 * state) % Power(width)
  IN IF state \div Power(width - 1) = bit THEN next ELSE next ^^ poly

Remainder(width, poly, data) ==
  FoldLeft(LAMBDA state, bit : Shift(width, poly, state, bit), 0, Bits(data))

Remainder7(data) == Remainder(7, 9, data)          \* x^7 + x^3 + 1
Remainder16(data) == Remainder(16, 4129, data)     \* x^16 + x^12 + x^5 + 1

AtWire(sum) == (sum % 256) * 256 + sum \div 256

\* Data with bits of byte n and the next one inverted.
Disturb(data, n, mask) == [data EXCEPT ![n] = @ ^^ mask[1], ![n + 1] = @ ^^ mask[2]]

Checked(cmd) == cmd[6] = 2 * Remainder7(SubSeq(cmd, 1, 5)) + 1

\* What must hold of the codes: see CodesAgree of MCSdCard.
CommandsAgree == \A cmd \in FixedCommands : Checked(cmd)
BlocksAgree == \A data \in Blocks : Crc16(data) = AtWire(Remainder16(data))
ChangesFound ==
  \A data \in Blocks : \A n \in 1 .. Len(data) - 1, mask \in Masks :
    Crc16(Disturb(data, n, mask)) # Crc16(data)

\* The read commands, CMD17 and CMD18, do not in general have the card's check
\* code: the entries of the table are shifted already, and Crc7 shifts the
\* state, and BuildCmd the sum, once more.
ReadCommandsDiffer ==
  \A opcode \in {81, 82} : \E arg \in Arguments : ~Checked(BuildCmd(opcode, arg))
==============================================================================
