-------------------------- MODULE RtuMemoryProofs --------------------------
(***************************************************************************)
(* TLAPS proofs about RtuMemory for every word width, region, limit and    *)
(* set of requests that the assumptions of RtuMemory allow, and that its   *)
(* handlers implement the register file that a master expects.             *)
(***************************************************************************)
EXTENDS RtuMemory, TLAPS

(* The limits on num that the two read functions use. *)
Limits == {MAX_RD_REGISTERS, MAX_BYTES}

(* addr + num stays below 2^16 on the ports where it is computed in 16 bits: the
   memory does not end within a limit of the last address. *)
NoIntWrap == INT_BITS_16 => \A max \in Limits : addr_end + max <= WORD

(* The cells of an access that begins in the region and does not wrap, or ends
   with the last address. *)
InsideOrLast(cells) ==
    /\ cells \subseteq Inside \/ (INT_BITS_16 /\ WORD - 1 - addr_begin \in cells)
    /\ NoIntWrap => cells \subseteq Inside

----------------------------------------------------------------------------
(* Arithmetic of 16-bit offsets. *)

(* A sum or a difference of two words wraps to a word. *)
LEMMA WrapWord ==
  ASSUME NEW x \in Word, NEW y \in Word
  PROVE  Wrap(x + y) \in Word /\ Wrap(x - y) \in Word
  BY WidthAssumption DEF Wrap, Word

(* Every offset of an access of fewer than 2^16 cells is a word. *)
LEMMA OffsetsAreWords ==
  ASSUME NEW addr \in Word, NEW num \in Nat, num <= WORD
  PROVE  Offsets(addr, num) \subseteq Word
<1> SUFFICES ASSUME NEW i \in 0 .. num - 1 PROVE Offset(addr, i) \in Word
  BY DEF Offsets
<1>1. i \in Word
  BY WidthAssumption DEF Word
<1>2. addr_begin \in Word
  BY RegionAssumption, WidthAssumption DEF addr_begin, Word
<1>3. Wrap(addr - addr_begin) \in Word
  BY <1>2, WrapWord
<1>4. QED
  BY <1>1, <1>3, WrapWord DEF Offset

(* The checks of a read let an access through that leaves the region only when
   the sum of the third check wraps. *)
LEMMA ReadAccepted ==
  ASSUME NEW r \in Requests, NEW size \in Nat, NEW max \in Limits,
         ReadError(r, size, max) = "none"
  PROVE  /\ r.num <= max
         /\ r.addr \in addr_begin .. addr_end - 1
         /\ InsideOrLast(Offsets(r.addr, r.num))
<1>1. r.addr \in Word /\ r.num \in Word /\ r.size \in Nat
  BY RequestsAssumption DEF Request
<1>2. /\ addr_begin <= r.addr
      /\ r.addr < addr_end
      /\ 0 < r.num
      /\ r.num <= max
      /\ addr_end >= IntSum(r.addr, r.num)
  BY <1>1, RegionAssumption, LimitsAssumption
  DEF ReadError, addr_begin, addr_end, Limits, Word
<1>3. /\ r.addr \in Nat /\ r.num \in Nat /\ r.addr < WORD /\ WORD \in Nat
      /\ addr_begin \in Nat /\ addr_end \in Nat /\ addr_end < WORD
      /\ addr_end = addr_begin + RTU_MEMORY_SIZE
  BY <1>1, RegionAssumption, WidthAssumption DEF Word, addr_begin, addr_end
<1>4. Wrap(r.addr - addr_begin) = r.addr - addr_begin
  BY <1>2, <1>3 DEF Wrap
<1>5. ASSUME NEW i \in 0 .. r.num - 1, r.addr + i < WORD
      PROVE  Offset(r.addr, i) = r.addr - addr_begin + i
  <2>1. Wrap(r.addr - addr_begin + i) = r.addr - addr_begin + i
    BY <1>2, <1>3, <1>5 DEF Wrap
  <2> QED
    BY <1>4, <2>1 DEF Offset
<1>6. CASE r.addr + r.num <= addr_end
  <2>1. ASSUME NEW i \in 0 .. r.num - 1 PROVE Offset(r.addr, i) \in Inside
    <3>1. Offset(r.addr, i) = r.addr - addr_begin + i
      BY <1>3, <1>5, <1>6
    <3> QED
      BY <1>2, <1>3, <1>6, <3>1, RegionAssumption DEF Inside
  <2> QED
    BY <1>2, <1>3, <2>1 DEF Offsets, InsideOrLast
<1>7. CASE r.addr + r.num > addr_end
  <2>1. INT_BITS_16
    BY <1>2, <1>3, <1>7 DEF IntSum
  <2>2. r.addr + r.num >= WORD
    BY <1>2, <1>3, <1>7, <2>1 DEF IntSum, Wrap
  <2>3. ~NoIntWrap
    BY <1>2, <1>3, <2>1, <2>2, LimitsAssumption DEF NoIntWrap, Limits
  <2> DEFINE i == WORD - 1 - r.addr
  <2>4. i \in 0 .. r.num - 1 /\ r.addr + i < WORD /\ r.addr - addr_begin + i = WORD - 1 - addr_begin
    BY <1>3, <2>2
  <2> HIDE DEF i
  <2>5. WORD - 1 - addr_begin \in Offsets(r.addr, r.num)
    BY <1>5, <2>4 DEF Offsets
  <2> QED
    BY <1>2, <1>3, <2>1, <2>3, <2>5 DEF InsideOrLast
<1> QED
  BY <1>3, <1>6, <1>7

----------------------------------------------------------------------------
(* What a read replies: an exception of two bytes, or num values that were all
   read inside the region if the sum did not wrap. *)
LEMMA ReadReply ==
  ASSUME NEW r \in Requests, NEW fcode, NEW size \in Nat, NEW max \in Limits,
         NEW echo, NEW n \in Nat, Read(r, fcode, size, max, echo, n)
  PROVE  \/ reply'.ecode # "none" /\ reply'.size = 2
         \/ /\ r.num <= max
            /\ reply'.size = n
            /\ InsideOrLast(touched')
<1>1. CASE ReadError(r, size, max) = "none"
  BY <1>1, ReadAccepted DEF Read
<1>2. CASE ReadError(r, size, max) # "none"
  BY <1>2 DEF Read, except, Exception
<1>3. QED
  BY <1>1, <1>2

(* What is true of a reply, whatever request it answers. *)
ReplyOK == (ReadAnswered => InsideOrLast(touched)) /\ ReplyFitsAdu

(* Every handler leaves a reply of the size and the accesses that ReplyOK
   describes. *)
LEMMA StepReplyOK ==
  ASSUME NEW r \in Requests, rtu_memory_impl_pdu_cb(r)
  PROVE  ReplyOK'
<1> USE DEF ReplyOK, ReadAnswered, ReplyFitsAdu
<1>1. r.num \in Nat
  BY RequestsAssumption, WidthAssumption DEF Request, Word
<1>2. ASSUME NEW fcode, NEW ecode, ecode # "none", except(fcode, ecode)
      PROVE  ReplyOK'
  BY <1>2, LimitsAssumption DEF except, Exception
<1>3. CASE read_n16(r)
  <2>1. \/ reply'.ecode # "none" /\ reply'.size = 2
        \/ /\ r.num <= MAX_RD_REGISTERS
           /\ reply'.size = 2 + 2 * r.num
           /\ InsideOrLast(touched')
    <3>1. 2 + 2 * r.num \in Nat /\ MAX_RD_REGISTERS \in Limits /\ 5 \in Nat
      BY <1>1 DEF Limits
    <3> QED
      BY <1>3, <3>1, ReadReply DEF read_n16
  <2>2. QED
    BY <1>1, <2>1, LimitsAssumption
    DEF InsideOrLast, NoIntWrap, Inside, Limits, addr_begin, addr_end
<1>4. CASE read_n8(r)
  <2>1. \/ reply'.ecode # "none" /\ reply'.size = 2
        \/ /\ r.num <= MAX_BYTES
           /\ reply'.size = 4 + r.num
           /\ InsideOrLast(touched')
    <3>1. 4 + r.num \in Nat /\ MAX_BYTES \in Limits /\ 4 \in Nat
      BY <1>1 DEF Limits
    <3> QED
      BY <1>4, <3>1, ReadReply DEF read_n8
  <2>2. QED
    BY <1>1, <2>1, LimitsAssumption
    DEF InsideOrLast, NoIntWrap, Inside, Limits, addr_begin, addr_end
<1>5. ASSUME NEW fcode \in {FCODE_WR_REGISTER, FCODE_WR_REGISTERS, FCODE_WR_BYTES},
             NEW n, NEW ecode, NEW value, NEW size \in {4, 5},
             Write(r, fcode, n, ecode, value, size)
      PROVE  ReplyOK'
  BY <1>5, LimitsAssumption
  DEF Write, Exception, FCODE_WR_REGISTER, FCODE_WR_REGISTERS, FCODE_WR_BYTES,
      FCODE_RD_HOLDING_REGISTERS, FCODE_RD_BYTES
<1>6. CASE write_16(r)
  BY <1>2, <1>5, <1>6 DEF write_16
<1>7. CASE write_n16(r)
  BY <1>2, <1>5, <1>7 DEF write_n16
<1>8. CASE write_n8(r)
  BY <1>2, <1>5, <1>8 DEF write_n8
<1>9. CASE reply' = NoReply
  BY <1>9, LimitsAssumption
  DEF NoReply, FCODE_RD_HOLDING_REGISTERS, FCODE_RD_BYTES
<1>10. QED
  BY <1>2, <1>3, <1>4, <1>6, <1>7, <1>8, <1>9
  DEF rtu_memory_impl_pdu_cb, rtu_memory_pdu_cb

(* Both properties of a reply hold for every behaviour of the handlers. *)
THEOREM RepliesOK == MemSpec => []ReplyOK
<1>1. MemInit => ReplyOK
  BY LimitsAssumption
  DEF MemInit, NoReply, ReplyOK, ReadAnswered, ReplyFitsAdu,
      FCODE_RD_HOLDING_REGISTERS, FCODE_RD_BYTES
<1>2. ReplyOK /\ [MemNext]_mvars => ReplyOK'
  <2>1. ASSUME ReplyOK, MemNext PROVE ReplyOK'
    BY <2>1, StepReplyOK DEF MemNext
  <2>2. ASSUME ReplyOK, UNCHANGED mvars PROVE ReplyOK'
    BY <2>2 DEF ReplyOK, ReadAnswered, ReplyFitsAdu, mvars, InsideOrLast, NoIntWrap, Inside,
                Limits, addr_begin, addr_end
  <2>3. QED
    BY <2>1, <2>2
<1>3. QED
  BY <1>1, <1>2, PTL DEF MemSpec

(* For every memory: a read leaves it only where addr + num wraps in an int of 16
   bits, and such a read reaches the last address of all. *)
THEOREM ReadsInside == MemSpec => []ReadsStayInside
<1>1. ReplyOK => ReadsStayInside
  BY DEF ReplyOK, ReadsStayInside, InsideOrLast
<1> QED
  BY RepliesOK, <1>1, PTL

(* No read leaves a register memory that ends a limit below 2^16, nor one of any
   place on a port with an int of 32 bits. *)
THEOREM ReadsInsideBelowTheEnd ==
  ASSUME NoIntWrap
  PROVE  MemSpec => [](ReadAnswered => touched \subseteq Inside)
<1>1. ReplyOK => (ReadAnswered => touched \subseteq Inside)
  BY DEF ReplyOK, InsideOrLast
<1> QED
  BY RepliesOK, <1>1, PTL

(* Every reply fits into an ADU although the handlers never look at dst_end. *)
THEOREM RepliesFit == MemSpec => []ReplyFitsAdu
<1>1. ReplyOK => ReplyFitsAdu
  BY DEF ReplyOK
<1> QED
  BY RepliesOK, <1>1, PTL

----------------------------------------------------------------------------
(* The contents of the memory. *)

(* Storing data that fits bytes keeps the memory a memory of bytes, wherever
   the offsets wrap. *)
LEMMA StoredType ==
  ASSUME bytes \in [Word -> 0 .. BYTE - 1],
         NEW addr \in Word, NEW data \in Seq(Nat), NEW n \in Nat,
         n <= Len(data), \A i \in 1 .. n : data[i] < BYTE
  PROVE  Stored(addr, data, n) \in [Word -> 0 .. BYTE - 1]
<1> SUFFICES ASSUME NEW o \in Word
             PROVE  LET i == Wrap(o - Wrap(addr - addr_begin)) + 1
                    IN  (IF i <= n THEN data[i] ELSE bytes[o]) \in 0 .. BYTE - 1
  BY DEF Stored
<1> DEFINE i == Wrap(o - Wrap(addr - addr_begin)) + 1
<1>1. addr_begin \in Word
  BY RegionAssumption, WidthAssumption DEF addr_begin, Word
<1>2. Wrap(addr - addr_begin) \in Word
  BY <1>1, WrapWord
<1>3. Wrap(o - Wrap(addr - addr_begin)) \in Word
  BY <1>2, WrapWord
<1>4. i \in Nat /\ i >= 1
  BY <1>3, WidthAssumption DEF Word
<1>5. CASE i <= n
  <2>1. i \in 1 .. n /\ i \in 1 .. Len(data)
    BY <1>4, <1>5
  <2>2. data[i] \in Nat /\ data[i] < BYTE
    BY <2>1
  <2>3. QED
    BY <1>5, <2>2, WidthAssumption
<1>6. CASE ~(i <= n)
  BY <1>6
<1>7. QED
  BY <1>5, <1>6

(* A write that passes the checks on its size has the data of its num
   registers or bytes, no more and no less. *)
LEMMA DataOfWrites ==
  ASSUME NEW r \in Requests
  PROVE  /\ r.fcode = FCODE_WR_REGISTER /\ r.size >= 5 => Len(r.data) = 1
         /\ r.fcode = FCODE_WR_REGISTERS /\ r.count = 2 * r.num /\ r.count = r.size - 6
              => Len(r.data) = r.num
         /\ r.fcode = FCODE_WR_BYTES /\ r.num = r.size - 4
              => Len(r.data) = r.num /\ \A i \in 1 .. r.num : r.data[i] < BYTE
<1>1. r.num \in Nat /\ r.size \in Nat /\ Len(r.data) \in Nat
  BY RequestsAssumption, WidthAssumption DEF Request, Word
<1>2. r.fcode = FCODE_WR_REGISTER /\ r.size >= 5 => Len(r.data) = 1
  BY RequestsAssumption
<1>3. ASSUME r.fcode = FCODE_WR_REGISTERS, r.count = 2 * r.num, r.count = r.size - 6
      PROVE  Len(r.data) = r.num
  <2>1. r.size >= 6
    BY <1>1, <1>3
  <2>2. 2 * Len(r.data) = r.size - 6 \/ 2 * Len(r.data) = r.size - 5
    BY <1>3, <2>1, RequestsAssumption
  <2>3. \A k, n, s \in Nat : 2 * n = s - 6 /\ (2 * k = s - 6 \/ 2 * k = s - 5) => k = n
    OBVIOUS
  <2>4. 2 * r.num = r.size - 6
    BY <1>3
  <2> QED
    BY <1>1, <2>2, <2>3, <2>4
<1>4. ASSUME r.fcode = FCODE_WR_BYTES, r.num = r.size - 4
      PROVE  Len(r.data) = r.num /\ \A i \in 1 .. r.num : r.data[i] < BYTE
  <2>1. r.size >= 4
    BY <1>1, <1>4
  <2>2. Len(r.data) = r.size - 4 /\ \A i \in 1 .. Len(r.data) : r.data[i] < BYTE
    BY <1>4, <2>1, RequestsAssumption
  <2> QED
    BY <1>4, <2>2
<1> QED
  BY <1>2, <1>3, <1>4

(* Every handler keeps the memory a memory of bytes. *)
LEMMA StepTypeOK ==
  ASSUME MemTypeOK, NEW r \in Requests, rtu_memory_impl_pdu_cb(r)
  PROVE  MemTypeOK'
<1>1. /\ r.addr \in Word /\ r.num \in Word /\ r.size \in Nat
      /\ r.fcode \in 0 .. 255 /\ r.data \in Seq(Nat) /\ r.count \in Nat
  BY RequestsAssumption DEF Request
<1>2. r.num \in Nat /\ r.num <= WORD
  BY <1>1, WidthAssumption DEF Word
<1>3. ASSUME NEW fcode \in 0 .. 255, NEW ecode, except(fcode, ecode)
      PROVE  MemTypeOK'
  BY <1>3 DEF except, Exception, MemTypeOK
<1>4. ASSUME NEW fcode \in 0 .. 255, NEW size, NEW max, NEW echo, NEW n \in Nat,
             Read(r, fcode, size, max, echo, n)
      PROVE  MemTypeOK'
  <2>1. ExceptionCode(fcode, ReadError(r, size, max)) \in 0 .. 255
    BY DEF ExceptionCode, FCODE_WR_BYTES
  <2>2. Offsets(r.addr, r.num) \subseteq Word
    BY <1>1, <1>2, OffsetsAreWords
  <2>3. CASE ReadError(r, size, max) # "none"
    BY <1>3, <1>4, <2>1, <2>3 DEF Read
  <2>4. CASE ReadError(r, size, max) = "none"
    <3> DEFINE values == [i \in 1 .. r.num |-> bytes[Offset(r.addr, i - 1)]]
    <3>1. /\ reply' = [fcode |-> fcode, ecode |-> "none", echo |-> echo,
                       data |-> values, size |-> n]
          /\ touched' = Offsets(r.addr, r.num)
          /\ UNCHANGED bytes
      BY <1>4, <2>4 DEF Read
    <3> HIDE DEF values
    <3>2. reply'.fcode = fcode /\ reply'.size = n
      BY <3>1
    <3>3. QED
      BY <2>2, <3>1, <3>2 DEF MemTypeOK
  <2>5. QED
    BY <2>3, <2>4
<1>5. ASSUME NEW fcode \in 0 .. 255, NEW n \in Nat, NEW ecode, NEW value,
             NEW size \in Nat, n <= WORD, n <= Len(r.data),
             \A i \in 1 .. n : r.data[i] < BYTE,
             Write(r, fcode, n, ecode, value, size)
      PROVE  MemTypeOK'
  <2>1. bytes' \in [Word -> 0 .. BYTE - 1]
    BY <1>1, <1>5, StoredType DEF Write, MemTypeOK
  <2>2. touched' \subseteq Word
    BY <1>1, <1>5, OffsetsAreWords DEF Write
  <2>3. reply'.fcode \in 0 .. 255 /\ reply'.size \in Nat
    <3>1. CASE ecode = "none"
      <4>1. reply' = [fcode |-> fcode, ecode |-> "none", echo |-> <<r.addr, value>>,
                      data |-> <<>>, size |-> size]
        BY <1>5, <3>1 DEF Write
      <4>2. QED
        BY <4>1
    <3>2. CASE ecode # "none"
      <4>1. reply' = Exception(fcode, ecode)
        BY <1>5, <3>2 DEF Write
      <4>2. QED
        BY <4>1 DEF Exception
    <3>3. QED
      BY <3>1, <3>2
  <2>4. QED
    BY <2>1, <2>2, <2>3 DEF MemTypeOK
<1>6. CASE r.fcode = FCODE_RD_HOLDING_REGISTERS /\ read_n16(r)
  BY <1>2, <1>4, <1>6 DEF read_n16, FCODE_RD_HOLDING_REGISTERS
<1>7. CASE r.fcode = FCODE_RD_BYTES /\ read_n8(r)
  BY <1>2, <1>4, <1>7 DEF read_n8, FCODE_RD_BYTES
<1>8. CASE r.fcode = FCODE_WR_REGISTER /\ write_16(r)
  <2>1. ASSUME r.size >= 5, r.data[1] < BYTE,
               Write(r, FCODE_WR_REGISTER, 1, "none", r.data[1], 5)
        PROVE  MemTypeOK'
    <3>1. Len(r.data) >= 1
      BY <1>8, <2>1, RequestsAssumption
    <3>2. 1 <= WORD /\ \A i \in 1 .. 1 : r.data[i] < BYTE
      BY <2>1, WidthAssumption
    <3>3. QED
      BY <1>5, <2>1, <3>1, <3>2 DEF FCODE_WR_REGISTER
  <2>2. r.data[1] \in Nat \/ ~(r.size >= 5)
    BY <1>1, <1>8, RequestsAssumption
  <2>3. QED
    BY <1>1, <1>3, <1>8, <2>1, <2>2, WidthAssumption
    DEF write_16, ExceptionCode, FCODE_WR_REGISTER, FCODE_WR_BYTES
<1>9. CASE r.fcode = FCODE_WR_REGISTERS /\ write_n16(r)
  <2>1. ASSUME r.count = 2 * r.num, r.count = r.size - 6,
               NEW n \in 0 .. r.num, LoopStores(r.data, r.num, n),
               NEW ecode, Write(r, FCODE_WR_REGISTERS, n, ecode, r.num, 5)
        PROVE  MemTypeOK'
    <3>1. r.num <= Len(r.data)
      BY <1>2, <1>9, <2>1, DataOfWrites
    <3>2. n \in Nat /\ n <= Len(r.data) /\ n <= WORD
      BY <1>1, <1>2, <2>1, <3>1, WidthAssumption
    <3>3. QED
      BY <1>5, <2>1, <3>2 DEF LoopStores, FCODE_WR_REGISTERS
  <2>2. QED
    BY <1>3, <1>9, <2>1 DEF write_n16, FCODE_WR_REGISTERS, FCODE_WR_BYTES
<1>10. CASE r.fcode = FCODE_WR_BYTES /\ write_n8(r)
  <2>1. ASSUME r.num = r.size - 4,
               Write(r, FCODE_WR_BYTES, r.num, "none", r.num, 4)
        PROVE  MemTypeOK'
    <3>1. r.num <= Len(r.data) /\ \A i \in 1 .. r.num : r.data[i] < BYTE
      BY <1>2, <1>10, <2>1, DataOfWrites
    <3>2. QED
      BY <1>2, <1>5, <2>1, <3>1 DEF FCODE_WR_BYTES
  <2>2. QED
    BY <1>3, <1>10, <2>1 DEF write_n8, FCODE_WR_BYTES
<1>11. CASE reply' = NoReply /\ touched' = {} /\ UNCHANGED bytes
  BY <1>11 DEF NoReply, MemTypeOK
<1>12. CASE except(r.fcode, "ILLEGAL_FUNCTION")
  BY <1>1, <1>3, <1>12
<1>13. QED
  BY <1>6, <1>7, <1>8, <1>9, <1>10, <1>11, <1>12
  DEF rtu_memory_impl_pdu_cb, rtu_memory_pdu_cb

(* The memory holds bytes and the handlers touch no offset that is not a
   16-bit word, also when addr - addr_begin wraps. *)
THEOREM MemTypeCorrect == MemSpec => []MemTypeOK
<1>1. MemInit => MemTypeOK
  BY WidthAssumption DEF MemInit, MemTypeOK, NoReply
<1>2. MemTypeOK /\ [MemNext]_mvars => MemTypeOK'
  <2>1. ASSUME MemTypeOK, MemNext PROVE MemTypeOK'
    BY <2>1, StepTypeOK DEF MemNext
  <2>2. ASSUME MemTypeOK, UNCHANGED mvars PROVE MemTypeOK'
    BY <2>2 DEF MemTypeOK, mvars
  <2>3. QED
    BY <2>1, <2>2
<1>3. QED
  BY <1>1, <1>2, PTL DEF MemSpec

----------------------------------------------------------------------------
(* The register file: the initial states map to initial states, and every
   request is a read, a write, a part of a write or a rejection of RegisterFile. *)


(* The addresses of the registers. *)
Addresses == addr_begin .. addr_end - 1

(* No write of a permitted number of registers or bytes that begins inside the
   region goes all the way round the 16-bit offsets, back into the region. *)
NoOffsetWrap ==
    /\ RTU_MEMORY_SIZE + MAX_WR_REGISTERS <= WORD
    /\ RTU_MEMORY_SIZE + MAX_BYTES <= WORD

(* The registers, as the refinement mapping has them. *)
Regs == [a \in Addresses |-> bytes[a - addr_begin]]

----------------------------------------------------------------------------
(* The offset of a register is a word, and the n cells from addr on are those
   of the registers addr to addr + n - 1, also where addr lies before the region
   and addr - addr_begin wraps. *)
LEMMA StoredAtRegisters ==
  ASSUME NEW addr \in Word, addr < addr_end, NEW data,
         NEW n \in Nat, n >= 1, RTU_MEMORY_SIZE + n <= WORD, NEW a \in Addresses
  PROVE  Stored(addr, data, n)[a - addr_begin]
           = IF a \in addr .. addr + n - 1 THEN data[a - addr + 1] ELSE bytes[a - addr_begin]
<1> DEFINE o == a - addr_begin
           i == Wrap(o - Wrap(addr - addr_begin)) + 1
<1>1. /\ addr \in Nat /\ addr < WORD /\ WORD \in Nat
      /\ RTU_MEMORY_ADDR \in Nat /\ RTU_MEMORY_SIZE \in Nat
      /\ addr_begin = RTU_MEMORY_ADDR /\ addr_end = RTU_MEMORY_ADDR + RTU_MEMORY_SIZE
      /\ RTU_MEMORY_ADDR + RTU_MEMORY_SIZE < WORD
      /\ a \in Nat /\ addr_begin <= a /\ a < addr_end
  BY RegionAssumption, WidthAssumption DEF Word, Addresses, addr_begin, addr_end
<1>2. o \in Word
  BY <1>1 DEF Word
<1>3. Stored(addr, data, n)[o] = IF i <= n THEN data[i] ELSE bytes[o]
  BY <1>2 DEF Stored
<1>4. a >= addr => i = a - addr + 1
  BY <1>1 DEF Wrap
<1>5. a < addr => i = WORD + a - addr + 1
  BY <1>1 DEF Wrap
<1>6. a < addr => ~(i <= n)
  BY <1>1, <1>5
<1>7. a >= addr => (i <= n <=> a \in addr .. addr + n - 1)
  BY <1>1, <1>4
<1> HIDE DEF o, i
<1>8. a >= addr \/ a < addr
  BY <1>1
<1>9. a < addr => a \notin addr .. addr + n - 1
  BY <1>1
<1> QED
  BY <1>3, <1>4, <1>6, <1>7, <1>8, <1>9 DEF o

(* A write stores its data in the registers it names. *)
LEMMA WriteStores ==
  ASSUME NEW r \in Requests, r.addr < addr_end, NEW n \in Nat, n >= 1,
         RTU_MEMORY_SIZE + n <= WORD, bytes' = Stored(r.addr, r.data, n)
  PROVE  Regs' = [a \in Addresses |->
                    IF a \in r.addr .. r.addr + n - 1 THEN r.data[a - r.addr + 1] ELSE Regs[a]]
<1>1. r.addr \in Word
  BY RequestsAssumption DEF Request
<1>2. ASSUME NEW a \in Addresses
      PROVE  bytes'[a - addr_begin]
               = IF a \in r.addr .. r.addr + n - 1 THEN r.data[a - r.addr + 1] ELSE Regs[a]
  BY <1>1, <1>2, StoredAtRegisters DEF Regs
<1>3. Regs' = [a \in Addresses |-> bytes'[a - addr_begin]]
  BY DEF Regs, Addresses, addr_begin, addr_end
<1> QED
  BY <1>2, <1>3

(* A write that stops before its first value stores nothing. *)
LEMMA NothingStored ==
  ASSUME NEW r \in Requests, bytes' = Stored(r.addr, r.data, 0)
  PROVE  Regs' = Regs
<1>1. r.addr \in Word
  BY RequestsAssumption DEF Request
<1>2. addr_begin \in Word
  BY RegionAssumption, WidthAssumption DEF addr_begin, Word
<1>3. ASSUME NEW a \in Addresses
      PROVE  bytes'[a - addr_begin] = bytes[a - addr_begin]
  <2>1. a - addr_begin \in Word
    BY RegionAssumption, WidthAssumption DEF Word, Addresses, addr_begin, addr_end
  <2>2. Wrap((a - addr_begin) - Wrap(r.addr - addr_begin)) \in Word
    BY <1>1, <1>2, <2>1, WrapWord
  <2>3. ~(Wrap((a - addr_begin) - Wrap(r.addr - addr_begin)) + 1 <= 0)
    BY <2>2, WidthAssumption DEF Word
  <2> QED
    BY <2>1, <2>3 DEF Stored
<1>4. /\ Regs' = [a \in Addresses |-> bytes'[a - addr_begin]]
      /\ Regs = [a \in Addresses |-> bytes[a - addr_begin]]
  BY DEF Regs, Addresses, addr_begin, addr_end
<1> QED
  BY <1>3, <1>4

----------------------------------------------------------------------------
(* The steps. *)

(* An exception, and a frame for another slave, changes no register. *)
LEMMA RejectStep ==
  ASSUME Regs' = Regs, reply'.echo = <<>>, reply'.data = <<>>
  PROVE  Registers!Next
<1>1. Registers!Reject
  BY DEF Registers!Reject, Regs, Addresses
<1> QED
  BY <1>1 DEF Registers!Next

LEMMA ExceptStep ==
  ASSUME NEW fcode, NEW ecode, except(fcode, ecode)
  PROVE  Registers!Next
<1>1. UNCHANGED bytes /\ reply'.echo = <<>> /\ reply'.data = <<>>
  BY DEF except, Exception
<1>2. Regs' = Regs
  BY <1>1 DEF Regs, Addresses, addr_begin, addr_end
<1> QED
  BY <1>1, <1>2, RejectStep

(* The i-th cell of a read is the i-th register from addr, if there is one. *)
LEMMA RegisterAtOffset ==
  ASSUME NEW addr \in Addresses, NEW i \in Nat \ {0}, addr + i - 1 \in Addresses
  PROVE  bytes[Offset(addr, i - 1)] = Regs[addr + i - 1]
<1> DEFINE b == addr_begin
           a == addr + i - 1
<1>1. b \in Nat /\ addr_end \in Nat /\ addr_end < WORD /\ WORD \in Nat
  BY RegionAssumption, WidthAssumption DEF addr_begin, addr_end
<1>2. addr \in Nat /\ b <= addr /\ a \in Nat /\ addr <= a /\ a < addr_end
  BY <1>1 DEF Addresses
<1> HIDE DEF b
<1>3. /\ (addr - b) + (i - 1) = a - b
      /\ addr - b \in Nat /\ addr - b < WORD /\ a - b \in Nat /\ a - b < WORD
  BY <1>1, <1>2
<1>4. Wrap(addr - b) = addr - b /\ Wrap(a - b) = a - b
  BY <1>1, <1>3 DEF Wrap
<1>5. Offset(addr, i - 1) = a - b
  BY <1>3, <1>4, Zenon DEF Offset, b
<1> HIDE DEF a
<1>6. Regs[a] = bytes[a - b]
  BY DEF Regs, a, b
<1> QED
  BY <1>5, <1>6 DEF a

(* A read that passes the checks returns the registers it names. *)
LEMMA ReadStep ==
  ASSUME NEW r \in Requests, NEW fcode, NEW size \in Nat, NEW max \in Limits,
         NEW echo \in {<<>>, <<r.addr, r.num>>}, NEW n, Read(r, fcode, size, max, echo, n)
  PROVE  Registers!Next
<1>1. CASE ReadError(r, size, max) # "none"
  BY <1>1, ExceptStep DEF Read
<1>2. CASE ReadError(r, size, max) = "none"
  <2>1. r.addr \in Addresses
    BY <1>2, ReadAccepted DEF Addresses
  <2> DEFINE op == [addr |-> r.addr, num |-> r.num]
             values == [i \in 1 .. r.num |-> bytes[Offset(r.addr, i - 1)]]
  <2>2. /\ reply' = [fcode |-> fcode, ecode |-> "none", echo |-> echo, data |-> values,
                     size |-> n]
        /\ UNCHANGED bytes
    BY <1>2 DEF Read
  <2>3. reply'.data = values /\ reply'.echo = echo
    <3> HIDE DEF values
    <3> QED
      BY <2>2
  <2>4. r.num \in Nat
    BY RequestsAssumption, WidthAssumption DEF Request, Word
  <2>5. \A i \in 1 .. r.num : r.addr + i - 1 \in Addresses =>
                                reply'.data[i] = Regs[r.addr + i - 1]
    <3>1. ASSUME NEW i \in 1 .. r.num, r.addr + i - 1 \in Addresses
          PROVE  bytes[Offset(r.addr, i - 1)] = Regs[r.addr + i - 1]
      BY <2>1, <2>4, <3>1, RegisterAtOffset
    <3> QED
      BY <2>3, <3>1
  <2>6. Registers!Answer(op)
    <3>1. op.addr \in Addresses /\ DOMAIN (reply'.data) = 1 .. op.num
      BY <2>1, <2>3
    <3>2. \A i \in 1 .. op.num : op.addr + i - 1 \in Addresses =>
                                  reply'.data[i] = Regs[op.addr + i - 1]
      BY <2>5
    <3>3. reply'.echo \in {<<>>, <<op.addr, op.num>>}
      BY <2>3
    <3> HIDE DEF op, values
    <3> QED
      BY <2>2, <3>1, <3>2, <3>3 DEF Registers!Answer, Regs, Addresses
  <2>7. op \in ReadOps
    BY DEF ReadOps
  <2> QED
    BY <2>6, <2>7 DEF Registers!Next
<1> QED
  BY <1>1, <1>2

(* A write that passes the checks stores what it acknowledges, or the part
   before a value that does not fit. *)
LEMMA WriteStep ==
  ASSUME NEW r \in Requests, r.addr < addr_end, NEW n \in 0 .. Len(r.data), NEW fcode,
         NEW ecode, NEW value, NEW size, RTU_MEMORY_SIZE + n <= WORD,
         Write(r, fcode, n, ecode, value, size),
         r.data # <<>>,
         \/ n < Len(r.data) /\ ecode # "none"
         \/ n = Len(r.data) /\ ecode = "none" /\ value \in {r.data[1], Len(r.data)}
  PROVE  Registers!Next
<1> DEFINE op == [addr |-> r.addr, data |-> r.data]
<1>1. bytes' = Stored(r.addr, r.data, n) /\ reply'.data = <<>>
  BY DEF Write, Exception
<1>2. op \in WriteOps /\ Len(r.data) \in Nat
  BY RequestsAssumption DEF WriteOps, Request
<1>3. ASSUME n >= 1 PROVE Registers!Store(op, n)
  <2>1. Regs' = [a \in Addresses |->
                   IF a \in op.addr .. op.addr + n - 1 THEN op.data[a - op.addr + 1]
                                                       ELSE Regs[a]]
    BY <1>1, <1>2, <1>3, WriteStores
  <2>2. \E a \in addr_begin .. addr_end - 1 : op.addr <= a
    <3>1. addr_end - 1 \in addr_begin .. addr_end - 1 /\ r.addr <= addr_end - 1
      BY RegionAssumption, RequestsAssumption, WidthAssumption
      DEF addr_begin, addr_end, Request, Word
    <3> QED
      BY <3>1
  <2> HIDE DEF op
  <2> QED
    BY <1>1, <2>1, <2>2 DEF Registers!Store, Regs, Addresses
<1>4. CASE n = Len(r.data) /\ ecode = "none" /\ value \in {r.data[1], Len(r.data)}
  <2>1. n >= 1
    BY <1>2, <1>4, RequestsAssumption DEF Request
  <2>2. reply'.echo = <<r.addr, value>>
    BY <1>4 DEF Write
  <2>3. Registers!Assign(op)
    BY <1>3, <1>4, <2>1, <2>2 DEF Registers!Assign
  <2> QED
    BY <1>2, <2>3 DEF Registers!Next
<1>5. CASE n < Len(r.data) /\ ecode # "none"
  <2>1. reply'.echo = <<>>
    BY <1>5 DEF Write, Exception
  <2>2. CASE n >= 1
    <3>1. Registers!AssignPart(op, n) /\ n \in 1 .. Len(op.data) - 1
      BY <1>2, <1>3, <1>5, <2>1, <2>2 DEF Registers!AssignPart
    <3> QED
      BY <1>2, <3>1 DEF Registers!Next
  <2>3. CASE n = 0
    <3>1. Regs' = Regs
      BY <1>1, <2>3, NothingStored
    <3> QED
      BY <1>1, <2>1, <3>1, RejectStep
  <2> QED
    BY <1>2, <2>2, <2>3
<1> QED
  BY <1>4, <1>5

(* Every request is a step of the register file. *)
LEMMA RequestStep ==
  ASSUME NoOffsetWrap, NEW r \in Requests, rtu_memory_impl_pdu_cb(r)
  PROVE  Registers!Next
<1>1. /\ r.num \in Nat /\ r.size \in Nat /\ r.addr \in Nat /\ r.count \in Nat
      /\ r.data \in Seq(Nat) /\ Len(r.data) \in Nat
  BY RequestsAssumption, WidthAssumption DEF Request, Word
<1>2. addr_end \in Nat /\ RTU_MEMORY_SIZE \in Nat /\ RTU_MEMORY_SIZE + 1 <= WORD
  BY RegionAssumption, WidthAssumption DEF addr_end
<1>3. CASE read_n16(r)
  BY <1>3, ReadStep DEF read_n16, Limits
<1>4. CASE read_n8(r)
  BY <1>4, ReadStep DEF read_n8, Limits
<1>5. CASE r.fcode = FCODE_WR_REGISTER /\ write_16(r)
  <2>1. ASSUME r.size >= 5, r.addr < addr_end,
               Write(r, FCODE_WR_REGISTER, 1, "none", r.data[1], 5)
        PROVE  Registers!Next
    <3>1. Len(r.data) = 1
      BY <1>5, <2>1, DataOfWrites
    <3>2. r.data # <<>> /\ 1 \in 0 .. Len(r.data)
      BY <3>1
    <3> QED
      BY <1>2, <2>1, <3>1, <3>2, WriteStep
  <2>2. \/ \E fcode, ecode : except(fcode, ecode)
        \/ /\ r.size >= 5 /\ r.addr < addr_end
           /\ Write(r, FCODE_WR_REGISTER, 1, "none", r.data[1], 5)
    BY <1>1, <1>2, <1>5 DEF write_16
  <2> QED
    BY <2>1, <2>2, ExceptStep
<1>6. CASE r.fcode = FCODE_WR_REGISTERS /\ write_n16(r)
  <2>1. ASSUME r.addr < addr_end, 0 < r.num, r.num <= MAX_WR_REGISTERS,
               r.count = 2 * r.num, r.count = r.size - 6, NEW n \in 0 .. r.num,
               Write(r, FCODE_WR_REGISTERS, n,
                     IF n = r.num THEN "none" ELSE "ILLEGAL_DATA_VALUE", r.num, 5)
        PROVE  Registers!Next
    <3>1. Len(r.data) = r.num
      BY <1>6, <2>1, DataOfWrites
    <3>2. r.data # <<>> /\ n \in 0 .. Len(r.data)
      BY <1>1, <2>1, <3>1
    <3>3. RTU_MEMORY_SIZE + n <= WORD
      BY <1>1, <1>2, <2>1, WidthAssumption, LimitsAssumption DEF NoOffsetWrap
    <3>4. CASE n = Len(r.data)
      <4>1. Write(r, FCODE_WR_REGISTERS, n, "none", r.num, 5)
        BY <2>1, <3>1, <3>4
      <4> QED
        BY <2>1, <3>1, <3>2, <3>3, <3>4, <4>1, WriteStep
    <3>5. CASE n # Len(r.data)
      <4>1. Write(r, FCODE_WR_REGISTERS, n, "ILLEGAL_DATA_VALUE", r.num, 5)
        BY <2>1, <3>1, <3>5
      <4>2. n < Len(r.data)
        BY <1>1, <3>2, <3>5
      <4> QED
        BY <2>1, <3>2, <3>3, <4>1, <4>2, WriteStep
    <3> QED
      BY <3>4, <3>5
  <2>2. \/ \E fcode, ecode : except(fcode, ecode)
        \/ /\ r.addr < addr_end /\ 0 < r.num /\ r.num <= MAX_WR_REGISTERS
           /\ r.count = 2 * r.num /\ r.count = r.size - 6
           /\ \E n \in 0 .. r.num :
                Write(r, FCODE_WR_REGISTERS, n,
                      IF n = r.num THEN "none" ELSE "ILLEGAL_DATA_VALUE", r.num, 5)
    BY <1>1, <1>2, <1>6 DEF write_n16
  <2> QED
    BY <2>1, <2>2, ExceptStep
<1>7. CASE r.fcode = FCODE_WR_BYTES /\ write_n8(r)
  <2>1. ASSUME r.addr < addr_end, 0 < r.num, r.num <= MAX_BYTES, r.num = r.size - 4,
               Write(r, FCODE_WR_BYTES, r.num, "none", r.num, 4)
        PROVE  Registers!Next
    <3>1. Len(r.data) = r.num
      BY <1>7, <2>1, DataOfWrites
    <3>2. r.data # <<>> /\ r.num \in 0 .. Len(r.data)
      BY <1>1, <2>1, <3>1
    <3>3. RTU_MEMORY_SIZE + r.num <= WORD
      BY <1>1, <1>2, <2>1, WidthAssumption, LimitsAssumption DEF NoOffsetWrap
    <3> QED
      BY <2>1, <3>1, <3>2, <3>3, WriteStep
  <2>2. \/ \E fcode, ecode : except(fcode, ecode)
        \/ /\ r.addr < addr_end /\ 0 < r.num /\ r.num <= MAX_BYTES
           /\ r.num = r.size - 4
           /\ Write(r, FCODE_WR_BYTES, r.num, "none", r.num, 4)
    BY <1>1, <1>2, <1>7 DEF write_n8
  <2> QED
    BY <2>1, <2>2, ExceptStep
<1>8. CASE reply' = NoReply /\ UNCHANGED bytes
  <2>1. Regs' = Regs
    BY <1>8 DEF Regs, Addresses, addr_begin, addr_end
  <2> QED
    BY <1>8, <2>1, RejectStep DEF NoReply
<1>9. CASE except(r.fcode, "ILLEGAL_FUNCTION")
  BY <1>9, ExceptStep
<1> QED
  BY <1>3, <1>4, <1>5, <1>6, <1>7, <1>8, <1>9
  DEF rtu_memory_impl_pdu_cb, rtu_memory_pdu_cb

----------------------------------------------------------------------------
(* rtu_memory.c implements the register file: up to the first access that leaves
   the memory, every read returns the registers it names, every acknowledged
   write has stored all its data there and a rejected one a prefix at most.  No
   write may be so long that its offsets come round to the region again
   (NoOffsetWrap). *)
THEOREM MemoryIsRegisterFile ==
  ASSUME NoOffsetWrap
  PROVE  MemSpec => ImplementsRegisterFile
<1>1. MemInit => Registers!Init
  <2> SUFFICES ASSUME MemInit PROVE Registers!Init
    OBVIOUS
  <2>1. ASSUME NEW a \in addr_begin .. addr_end - 1 PROVE bytes[a - addr_begin] = 0
    <3>1. a - addr_begin \in Word
      BY RegionAssumption, WidthAssumption DEF Word, addr_begin, addr_end
    <3> QED
      BY <3>1 DEF MemInit
  <2>2. reply.echo = <<>> /\ reply.data = <<>>
    BY DEF MemInit, NoReply
  <2> QED
    BY <2>1, <2>2 DEF Registers!Init
<1>2. ASSUME [MemNext]_mvars
      PROVE  [Registers!Next]_<<[a \in addr_begin .. addr_end - 1 |-> bytes[a - addr_begin]],
                                reply.echo, reply.data>>
  <2>1. CASE MemNext
    BY <2>1, RequestStep DEF MemNext
  <2>2. CASE UNCHANGED mvars
    <3>1. bytes' = bytes /\ reply' = reply
      BY <2>2 DEF mvars
    <3> QED
      BY <3>1 DEF addr_begin, addr_end
  <2> QED
    BY <1>2, <2>1, <2>2
<1> QED
  BY <1>1, <1>2, PTL DEF MemSpec, ImplementsRegisterFile, Registers!Spec

============================================================================
