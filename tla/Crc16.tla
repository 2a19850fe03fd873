------------------------------- MODULE Crc16 -------------------------------
(***************************************************************************)
(* modbus_rtu_calc_crc, the one function of the protocol that every port   *)
(* implements for itself: with two tables of bytes on Linux (the master    *)
(* and the simulated slave), bit by bit on the controllers.  The two ends  *)
(* of a line run different implementations, so they have to agree on every *)
(* byte range, and they have to tell a frame from the frames that noise    *)
(* makes of it.                                                            *)
(*                                                                         *)
(* A step passes one byte of a frame from the sender to the receiver: one  *)
(* iteration of the sender's table loop on the byte sent, one of the       *)
(* receiver's bitwise loop on the byte received.  The first MAX_FREE bytes *)
(* are arbitrary; the second meets every pair of a table index and a high  *)
(* register, all that a step of either loop depends on, so that agreement  *)
(* after two bytes carries over to ranges of any length.                   *)
(* Noise inverts bits.  Its first bits fall into the first byte: equal     *)
(* bytes before it only change the value both registers start from.        *)
(***************************************************************************)
EXTENDS Integers, FiniteSetsExt, Bitwise

CONSTANTS
    MAX_FREE,      \* how many bytes of a frame without noise are arbitrary
    MAX_PAYLOAD,   \* the bytes of the longest frame without its CRC
    MAX_FLIPS,     \* the bits that noise may invert before the CRC
    NoisyBytes     \* the values of the first byte of a frame with noise

ASSUME CrcBounds ==
    /\ MAX_FREE \in 0..MAX_PAYLOAD
    /\ MAX_FLIPS \in Nat
    /\ NoisyBytes \subseteq 0..255

VARIABLES
    low, high,   \* the sender's registers (the table loop)
    crc16,       \* the receiver's register (the bitwise loop)
    length,      \* the bytes passed so far
    flips        \* the bits inverted so far

crcVars == <<low, high, crc16, length, flips>>

LOW_BYTE(word) == word % 256

HIGH_BYTE(word) == word \div 256

WORD_TO_CRC(word) == <<LOW_BYTE(word), HIGH_BYTE(word)>>

----------------------------------------------------------------------------
(* The two implementations. *)

hcrc16 ==
<< \h00, \hC1, \h81, \h40, \h01, \hC0, \h80, \h41, \h01, \hC0, \h80, \h41, \h00, \hC1, \h81, \h40,
   \h01, \hC0, \h80, \h41, \h00, \hC1, \h81, \h40, \h00, \hC1, \h81, \h40, \h01, \hC0, \h80, \h41,
   \h01, \hC0, \h80, \h41, \h00, \hC1, \h81, \h40, \h00, \hC1, \h81, \h40, \h01, \hC0, \h80, \h41,
   \h00, \hC1, \h81, \h40, \h01, \hC0, \h80, \h41, \h01, \hC0, \h80, \h41, \h00, \hC1, \h81, \h40,
   \h01, \hC0, \h80, \h41, \h00, \hC1, \h81, \h40, \h00, \hC1, \h81, \h40, \h01, \hC0, \h80, \h41,
   \h00, \hC1, \h81, \h40, \h01, \hC0, \h80, \h41, \h01, \hC0, \h80, \h41, \h00, \hC1, \h81, \h40,
   \h00, \hC1, \h81, \h40, \h01, \hC0, \h80, \h41, \h01, \hC0, \h80, \h41, \h00, \hC1, \h81, \h40,
   \h01, \hC0, \h80, \h41, \h00, \hC1, \h81, \h40, \h00, \hC1, \h81, \h40, \h01, \hC0, \h80, \h41,
   \h01, \hC0, \h80, \h41, \h00, \hC1, \h81, \h40, \h00, \hC1, \h81, \h40, \h01, \hC0, \h80, \h41,
   \h00, \hC1, \h81, \h40, \h01, \hC0, \h80, \h41, \h01, \hC0, \h80, \h41, \h00, \hC1, \h81, \h40,
   \h00, \hC1, \h81, \h40, \h01, \hC0, \h80, \h41, \h01, \hC0, \h80, \h41, \h00, \hC1, \h81, \h40,
   \h01, \hC0, \h80, \h41, \h00, \hC1, \h81, \h40, \h00, \hC1, \h81, \h40, \h01, \hC0, \h80, \h41,
   \h00, \hC1, \h81, \h40, \h01, \hC0, \h80, \h41, \h01, \hC0, \h80, \h41, \h00, \hC1, \h81, \h40,
   \h01, \hC0, \h80, \h41, \h00, \hC1, \h81, \h40, \h00, \hC1, \h81, \h40, \h01, \hC0, \h80, \h41,
   \h01, \hC0, \h80, \h41, \h00, \hC1, \h81, \h40, \h00, \hC1, \h81, \h40, \h01, \hC0, \h80, \h41,
   \h00, \hC1, \h81, \h40, \h01, \hC0, \h80, \h41, \h01, \hC0, \h80, \h41, \h00, \hC1, \h81, \h40 >>

lcrc16 ==
<< \h00, \hC0, \hC1, \h01, \hC3, \h03, \h02, \hC2, \hC6, \h06, \h07, \hC7, \h05, \hC5, \hC4, \h04,
   \hCC, \h0C, \h0D, \hCD, \h0F, \hCF, \hCE, \h0E, \h0A, \hCA, \hCB, \h0B, \hC9, \h09, \h08, \hC8,
   \hD8, \h18, \h19, \hD9, \h1B, \hDB, \hDA, \h1A, \h1E, \hDE, \hDF, \h1F, \hDD, \h1D, \h1C, \hDC,
   \h14, \hD4, \hD5, \h15, \hD7, \h17, \h16, \hD6, \hD2, \h12, \h13, \hD3, \h11, \hD1, \hD0, \h10,
   \hF0, \h30, \h31, \hF1, \h33, \hF3, \hF2, \h32, \h36, \hF6, \hF7, \h37, \hF5, \h35, \h34, \hF4,
   \h3C, \hFC, \hFD, \h3D, \hFF, \h3F, \h3E, \hFE, \hFA, \h3A, \h3B, \hFB, \h39, \hF9, \hF8, \h38,
   \h28, \hE8, \hE9, \h29, \hEB, \h2B, \h2A, \hEA, \hEE, \h2E, \h2F, \hEF, \h2D, \hED, \hEC, \h2C,
   \hE4, \h24, \h25, \hE5, \h27, \hE7, \hE6, \h26, \h22, \hE2, \hE3, \h23, \hE1, \h21, \h20, \hE0,
   \hA0, \h60, \h61, \hA1, \h63, \hA3, \hA2, \h62, \h66, \hA6, \hA7, \h67, \hA5, \h65, \h64, \hA4,
   \h6C, \hAC, \hAD, \h6D, \hAF, \h6F, \h6E, \hAE, \hAA, \h6A, \h6B, \hAB, \h69, \hA9, \hA8, \h68,
   \h78, \hB8, \hB9, \h79, \hBB, \h7B, \h7A, \hBA, \hBE, \h7E, \h7F, \hBF, \h7D, \hBD, \hBC, \h7C,
   \hB4, \h74, \h75, \hB5, \h77, \hB7, \hB6, \h76, \h72, \hB2, \hB3, \h73, \hB1, \h71, \h70, \hB0,
   \h50, \h90, \h91, \h51, \h93, \h53, \h52, \h92, \h96, \h56, \h57, \h97, \h55, \h95, \h94, \h54,
   \h9C, \h5C, \h5D, \h9D, \h5F, \h9F, \h9E, \h5E, \h5A, \h9A, \h9B, \h5B, \h99, \h59, \h58, \h98,
   \h88, \h48, \h49, \h89, \h4B, \h8B, \h8A, \h4A, \h4E, \h8E, \h8F, \h4F, \h8D, \h4D, \h4C, \h8C,
   \h44, \h84, \h85, \h45, \h87, \h47, \h46, \h86, \h82, \h42, \h43, \h83, \h41, \h81, \h80, \h40 >>

(* A mutant of table_step that has the two tables the wrong way round. *)
TablesSwapped(l, h, data) ==
    LET i == (l ^^ data) + 1 IN <<h ^^ lcrc16[i], hcrc16[i]>>

(* One iteration of the table loop; TLA+ counts from one. *)
table_step(l, h, data) ==
    LET i == (l ^^ data) + 1 IN <<h ^^ hcrc16[i], lcrc16[i]>>

(* A mutant of crc16_update with the polynomial in the order of its formula,
   0x8005, and not reversed for a register that shifts to the right. *)
PolynomialNotReversed(crc, data) ==
    LET shifted[n \in 0..8] ==
          IF n = 0 THEN crc ^^ data
          ELSE LET c == shifted[n - 1] IN
               IF c % 2 = 1 THEN (c \div 2) ^^ \h8005 ELSE c \div 2
    IN  shifted[8]

(* Eight shifts to the right, with the polynomial x^16 + x^15 + x^2 + 1. *)
crc16_update(crc, data) ==
    LET shifted[n \in 0..8] ==
          IF n = 0 THEN crc ^^ data
          ELSE LET c == shifted[n - 1] IN
               IF c % 2 = 1 THEN (c \div 2) ^^ \hA001 ELSE c \div 2
    IN  shifted[8]

(* Both loops start from 0xFFFF. *)
CrcInit ==
    /\ low = \hFF
    /\ high = \hFF
    /\ crc16 = \hFFFF
    /\ length = 0
    /\ flips = 0

(* One byte of the range, as it was sent and as it was received. *)
modbus_rtu_calc_crc(sent, received) ==
    /\ LET crc == table_step(low, high, sent) IN low' = crc[1] /\ high' = crc[2]
    /\ crc16' = crc16_update(crc16, received)
    /\ length' = length + 1

(* A byte that arrives as it was sent; after the first noise the bytes are
   zero. *)
PassByte ==
    /\ length < (IF flips = 0 THEN MAX_FREE ELSE MAX_PAYLOAD)
    /\ flips < MAX_FLIPS
    /\ \E b \in (IF flips = 0 THEN 0..255 ELSE {0}) : modbus_rtu_calc_crc(b, b)
    /\ UNCHANGED flips

(* The bits that noise may invert in a byte, at most n of them. *)
Masks(n) == {bits \in SUBSET (0..7) : Cardinality(bits) \in 1..n}

(* A byte in which noise inverts bits. *)
PassGarbledByte ==
    /\ length < MAX_PAYLOAD
    /\ flips = 0 => length = 0
    /\ \E b \in (IF flips = 0 THEN NoisyBytes ELSE {0}),
          bits \in Masks(MAX_FLIPS - flips) :
         /\ modbus_rtu_calc_crc(b, b ^^ SumSet({2^i : i \in bits}))
         /\ flips' = flips + Cardinality(bits)

CrcNext == PassByte \/ PassGarbledByte

CrcSpec == CrcInit /\ [][CrcNext]_crcVars

----------------------------------------------------------------------------
(* The ports compute the same CRC of every byte range, in the same order of
   its bytes: a frame that one port sends unharmed is not refused by the
   crc comparison of another (rtu.c:151-156, master.c:44-48). *)
PortsAgree == flips = 0 => WORD_TO_CRC(crc16) = <<low, high>>

(* The bits in which the CRC that is sent differs from the one computed of
   the bytes received. *)
CrcDistance ==
    LET x == crc16 ^^ (low + 256 * high)
    IN  Cardinality({i \in 0..15 : (x \div 2^i) % 2 = 1})

(* Two frames that pass the check differ in at least four bits: when noise
   inverts one or two bits of the payload, the CRC computed from what arrives
   is still so far from the one sent that no one or two, or one, further
   inverted bits in the two CRC bytes make the frame pass adu_check, up to
   the longest frame.  Inverted bits always change the CRC in an even number
   of bits together, so that three of them never cancel out. *)
FourBitsApart ==
    flips > 0 => flips + CrcDistance >= 4 /\ (flips + CrcDistance) % 2 = 0

============================================================================
