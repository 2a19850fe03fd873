----------------------------- MODULE RtuMemory -----------------------------
(***************************************************************************)
(* The PDU handler of rtu_memory.c: five functions that read and write the *)
(* slave's register memory, each a chain of checks that return an          *)
(* exception, followed by the access.  rtu_memory_impl_pdu_cb, which the   *)
(* ports give to the core as pdu_cb, first compares the slave address.     *)
(*                                                                         *)
(* A request is a record of what the handlers read from the received ADU:  *)
(* slave address, function code, the two numbers after it, the byte count, *)
(* the data (registers or bytes) and the size of the PDU.                  *)
(***************************************************************************)
EXTENDS Integers, Sequences

CONSTANTS
    WORD,             \* 2^16: addresses and offsets are uint16_t
    BYTE,             \* 2^8: a register value from BYTE up has a high byte
    RTU_MEMORY_ADDR,  \* the first address of the register memory
    RTU_MEMORY_SIZE,  \* and the number of its bytes
    INT_BITS_16,      \* int is 16 bits wide (AVR, STM8), so addr + num wraps
    MAX_RD_REGISTERS, \* 0x7D, rtu_memory.c:76
    MAX_WR_REGISTERS, \* 0x7B, rtu_memory.c:172
    MAX_BYTES,        \* 249, rtu_memory.c:236 and 286
    ADU_CAPACITY,     \* 256, rtu.h:171
    Requests,         \* the requests that arrive
    SelfAddr          \* priv.self_addr

Word == 0 .. WORD - 1

Request ==
    [slave : 0 .. 255, fcode : 0 .. 255, addr : Word, num : Word, count : Nat,
     size : Nat, data : Seq(Nat)]

FCODE_RD_HOLDING_REGISTERS == 3
FCODE_WR_REGISTER          == 6
FCODE_WR_REGISTERS         == 16
FCODE_RD_BYTES             == 65
FCODE_WR_BYTES             == 66

ASSUME WidthAssumption ==
    /\ WORD \in Nat \ {0}
    /\ BYTE \in Nat \ {0}
    /\ INT_BITS_16 \in BOOLEAN

(* The region lies inside the address space and ends before its last address,
   as addr_end is a uint16_t. *)
ASSUME RegionAssumption ==
    /\ RTU_MEMORY_ADDR \in Nat
    /\ RTU_MEMORY_SIZE \in Nat \ {0}
    /\ RTU_MEMORY_ADDR + RTU_MEMORY_SIZE < WORD

(* The limits on the number of registers and bytes are chosen for an ADU:
   address, function code, count and data, CRC. *)
ASSUME LimitsAssumption ==
    /\ MAX_RD_REGISTERS \in Nat
    /\ MAX_WR_REGISTERS \in Nat
    /\ MAX_BYTES \in Nat
    /\ ADU_CAPACITY \in Nat
    /\ 1 + 2 + 2 * MAX_RD_REGISTERS + 2 <= ADU_CAPACITY
    /\ 1 + 4 + MAX_BYTES + 2 <= ADU_CAPACITY
    /\ 1 + 5 + 2 <= ADU_CAPACITY
    /\ MAX_RD_REGISTERS < WORD /\ MAX_WR_REGISTERS < WORD /\ MAX_BYTES < WORD

(* The data of a request is the value of a register write and, in the other
   writes, what the size of the PDU leaves for it: words, the last of which may
   be cut, or bytes. *)
ASSUME RequestsAssumption ==
    /\ Requests \subseteq Request
    /\ \A r \in Requests :
        /\ r.fcode = FCODE_WR_REGISTER /\ r.size >= 5 => Len(r.data) = 1
        /\ r.fcode = FCODE_WR_REGISTERS /\ r.size >= 6 =>
             2 * Len(r.data) \in {r.size - 6, r.size - 5}
        /\ r.fcode = FCODE_WR_BYTES /\ r.size >= 4 =>
             /\ Len(r.data) = r.size - 4
             /\ \A i \in 1 .. Len(r.data) : r.data[i] < BYTE

VARIABLES
    bytes,    \* what bytes[offset] denotes for every uint16_t offset
    reply,    \* the last reply PDU
    touched   \* the offsets the last request read or wrote

mvars == <<bytes, reply, touched>>

addr_begin == RTU_MEMORY_ADDR
addr_end   == RTU_MEMORY_ADDR + RTU_MEMORY_SIZE

(* The offsets of the register memory.  The others lie outside it, those of
   addresses before addr_begin too, which are negative where write_16 computes
   with a 32-bit int and wrap elsewhere. *)
Inside == 0 .. RTU_MEMORY_SIZE - 1

(* One addition or subtraction of 16-bit words. *)
Wrap(x) == IF x < 0 THEN x + WORD ELSE IF x >= WORD THEN x - WORD ELSE x

(* addr + num as an int. *)
IntSum(addr, num) == IF INT_BITS_16 THEN Wrap(addr + num) ELSE addr + num

(* The offsets from addr - addr_begin on, num of them. *)
Offset(addr, i)   == Wrap(Wrap(addr - addr_begin) + i)
Offsets(addr, num) == {Offset(addr, i) : i \in 0 .. num - 1}

(* A mutant of Stored that takes the address for the offset. *)
StoredAtAddress(addr, data, n) ==
    [o \in Word |-> LET i == Wrap(o - addr) + 1
                    IN  IF i <= n THEN data[i] ELSE bytes[o]]

(* bytes with the first n of data stored from addr - addr_begin on. *)
Stored(addr, data, n) ==
    [o \in Word |->
        LET i == Wrap(o - Wrap(addr - addr_begin)) + 1
        IN  IF i <= n THEN data[i] ELSE bytes[o]]

----------------------------------------------------------------------------
(* A reply PDU: function code, exception code, the part of the request that is
   copied back, the values read, and the size in bytes. *)
NoReply == [fcode |-> 0, ecode |-> "none", echo |-> <<>>, data |-> <<>>, size |-> 0]

(* fcode + 0x80 is a uint8_t *)
Exception(fcode, ecode) ==
    [fcode |-> (fcode + 128) % 256, ecode |-> ecode, echo |-> <<>>, data |-> <<>>,
     size |-> 2]

except(fcode, ecode) ==
    /\ reply' = Exception(fcode, ecode)
    /\ touched' = {}
    /\ UNCHANGED bytes

(* A mutant of ReadError that checks the first register and not the last. *)
ReadErrorFirstOnly(r, request_size, max) ==
    IF request_size > r.size THEN "FORMAT_ERROR"
    ELSE IF ~(addr_end > r.addr /\ addr_begin <= r.addr) THEN "ILLEGAL_DATA_ADDRESS"
    ELSE IF ~(0 < r.num /\ r.num <= max) THEN "ILLEGAL_DATA_VALUE"
    ELSE "none"

(* A mutant of ReadError whose limit on num is off by one. *)
ReadErrorOffByOne(r, request_size, max) ==
    IF request_size > r.size THEN "FORMAT_ERROR"
    ELSE IF ~(addr_end > r.addr /\ addr_begin <= r.addr) THEN "ILLEGAL_DATA_ADDRESS"
    ELSE IF ~(0 < r.num /\ r.num <= max + 1) THEN "ILLEGAL_DATA_VALUE"
    ELSE IF ~(addr_end >= IntSum(r.addr, r.num)) THEN "ILLEGAL_DATA_ADDRESS"
    ELSE "none"

(* A mutant of ReadError that has no limit on num. *)
ReadErrorWithoutLimit(r, request_size, max) ==
    IF request_size > r.size THEN "FORMAT_ERROR"
    ELSE IF ~(addr_end > r.addr /\ addr_begin <= r.addr) THEN "ILLEGAL_DATA_ADDRESS"
    ELSE IF ~(0 < r.num) THEN "ILLEGAL_DATA_VALUE"
    ELSE "none"

(* The checks of read_n16 and read_n8, in their order. *)
ReadError(r, request_size, max) ==
    IF request_size > r.size THEN "FORMAT_ERROR"
    ELSE IF ~(addr_end > r.addr /\ addr_begin <= r.addr) THEN "ILLEGAL_DATA_ADDRESS"
    ELSE IF ~(0 < r.num /\ r.num <= max) THEN "ILLEGAL_DATA_VALUE"
    ELSE IF ~(addr_end >= IntSum(r.addr, r.num)) THEN "ILLEGAL_DATA_ADDRESS"
    ELSE "none"

(* A format error is reported with the function code of write_n8, whatever the
   request's is. *)
ExceptionCode(fcode, ecode) ==
    IF ecode = "FORMAT_ERROR" THEN FCODE_WR_BYTES ELSE fcode

Read(r, fcode, request_size, max, echo, reply_size) ==
    LET ecode == ReadError(r, request_size, max)
    IN  \/ ecode # "none" /\ except(ExceptionCode(fcode, ecode), ecode)
        \/ /\ ecode = "none"
           /\ reply' = [fcode |-> fcode, ecode |-> "none", echo |-> echo,
                        data |-> [i \in 1 .. r.num |-> bytes[Offset(r.addr, i - 1)]],
                        size |-> reply_size]
           /\ touched' = Offsets(r.addr, r.num)
           /\ UNCHANGED bytes

(* Reply: function code, byte count, num registers of two bytes. *)
read_n16(r) ==
    Read(r, FCODE_RD_HOLDING_REGISTERS, 5, MAX_RD_REGISTERS, <<>>, 2 + 2 * r.num)

(* Reply: the request, num bytes. *)
read_n8(r) == Read(r, FCODE_RD_BYTES, 4, MAX_BYTES, <<r.addr, r.num>>, 4 + r.num)

(* n cells are stored; the reply is the head of the request (address and value
   or number) or, when not all the data is stored, an exception. *)
Write(r, fcode, n, ecode, value, request_size) ==
    /\ bytes' = Stored(r.addr, r.data, n)
    /\ touched' = Offsets(r.addr, n)
    /\ reply' = IF ecode = "none"
                  THEN [fcode |-> fcode, ecode |-> "none", echo |-> <<r.addr, value>>,
                        data |-> <<>>, size |-> request_size]
                  ELSE Exception(fcode, ecode)

write_16(r) ==
    LET ecode ==
            IF 5 > r.size THEN "FORMAT_ERROR"
            ELSE IF ~(addr_end > r.addr) THEN "ILLEGAL_DATA_ADDRESS"
            ELSE IF r.data[1] >= BYTE THEN "ILLEGAL_DATA_VALUE"
            ELSE "none"
    IN  \/ ecode # "none" /\ except(ExceptionCode(FCODE_WR_REGISTER, ecode), ecode)
        \/ ecode = "none" /\ Write(r, FCODE_WR_REGISTER, 1, "none", r.data[1], 5)

(* A mutant of LoopStores that checks a register after it has stored it. *)
StoresBeforeCheck(data, num, n) ==
    /\ \A i \in 1 .. n - 1 : data[i] < BYTE
    /\ n < num => n > 0 /\ data[n] >= BYTE

(* The loop stores the first n of num registers: it returns at the first one
   with a high byte. *)
LoopStores(data, num, n) ==
    /\ \A i \in 1 .. n : data[i] < BYTE
    /\ n < num => data[n + 1] >= BYTE

write_n16(r) ==
    LET ecode ==
            IF ~(addr_end > r.addr) THEN "ILLEGAL_DATA_ADDRESS"
            ELSE IF ~(0 < r.num /\ r.num <= MAX_WR_REGISTERS) THEN "ILLEGAL_DATA_VALUE"
            ELSE IF r.count # 2 * r.num THEN "ILLEGAL_DATA_VALUE"
            ELSE IF r.count # r.size - 6 THEN "FORMAT_ERROR"
            ELSE "none"
    IN  \/ 5 > r.size /\ except(FCODE_WR_BYTES, "FORMAT_ERROR")
        \/ 5 <= r.size /\ ecode # "none" /\ except(FCODE_WR_REGISTERS, ecode)
        \/ /\ 5 <= r.size /\ ecode = "none"
           /\ \E n \in 0 .. r.num :
                /\ LoopStores(r.data, r.num, n)
                /\ Write(r, FCODE_WR_REGISTERS, n,
                         IF n = r.num THEN "none" ELSE "ILLEGAL_DATA_VALUE", r.num, 5)

write_n8(r) ==
    LET ecode ==
            IF 4 > r.size THEN "FORMAT_ERROR"
            ELSE IF ~(addr_end > r.addr) THEN "ILLEGAL_DATA_ADDRESS"
            ELSE IF ~(0 < r.num /\ r.num <= MAX_BYTES) THEN "ILLEGAL_DATA_VALUE"
            ELSE IF r.num # r.size - 4 THEN "ILLEGAL_DATA_VALUE"
            ELSE "none"
    IN  \/ ecode # "none" /\ except(FCODE_WR_BYTES, ecode)
        \/ ecode = "none" /\ Write(r, FCODE_WR_BYTES, r.num, "none", r.num, 4)

rtu_memory_pdu_cb(r) ==
    \/ r.fcode = FCODE_RD_HOLDING_REGISTERS /\ read_n16(r)
    \/ r.fcode = FCODE_WR_REGISTER /\ write_16(r)
    \/ r.fcode = FCODE_WR_REGISTERS /\ write_n16(r)
    \/ r.fcode = FCODE_RD_BYTES /\ read_n8(r)
    \/ r.fcode = FCODE_WR_BYTES /\ write_n8(r)
    \/ /\ r.fcode \notin {FCODE_RD_HOLDING_REGISTERS, FCODE_WR_REGISTER,
                          FCODE_WR_REGISTERS, FCODE_RD_BYTES, FCODE_WR_BYTES}
       /\ except(r.fcode, "ILLEGAL_FUNCTION")

(* A frame for another slave gets no reply. *)
rtu_memory_impl_pdu_cb(r) ==
    \/ r.slave = SelfAddr /\ rtu_memory_pdu_cb(r)
    \/ r.slave # SelfAddr /\ reply' = NoReply /\ touched' = {} /\ UNCHANGED bytes

(* rtu_memory_impl_clear *)
MemInit ==
    /\ bytes = [o \in Word |-> 0]
    /\ reply = NoReply
    /\ touched = {}

(* What follows an access outside the memory is undefined (the header with the
   two addresses lies right in front of bytes): a behaviour ends with it. *)
MemNext == touched \subseteq Inside /\ \E r \in Requests : rtu_memory_impl_pdu_cb(r)

MemSpec == MemInit /\ [][MemNext]_mvars

----------------------------------------------------------------------------
(* Every byte of the memory is a byte and every offset a 16-bit word. *)
MemTypeOK ==
    /\ bytes \in [Word -> 0 .. BYTE - 1]
    /\ touched \subseteq Word
    /\ reply.fcode \in 0 .. 255
    /\ reply.size \in Nat

ReadAnswered ==
    /\ reply.fcode \in {FCODE_RD_HOLDING_REGISTERS, FCODE_RD_BYTES}
    /\ reply.ecode = "none"

(* A read is answered from the register memory alone (README.md:101: `Accesses
   outside [addr_begin, addr_end) return an exception response'), by the checks
   of read_n16 and read_n8 (rtu_memory.c:68-81 and 227-240), but for one case:
   addr + num is computed in 16 bits and wraps, and then the read has reached
   the last of all addresses. *)
ReadsStayInside ==
    ReadAnswered =>
        \/ touched \subseteq Inside
        \/ INT_BITS_16 /\ WORD - 1 - addr_begin \in touched

(* The handlers ignore dst_end (rtu_memory.c:319): the limits on num alone keep
   slave address, reply and CRC within the transmit buffer of an ADU. *)
ReplyFitsAdu == 1 + reply.size + 2 <= ADU_CAPACITY

ReadOps == {[addr |-> r.addr, num |-> r.num] : r \in Requests}

WriteOps == {[addr |-> r.addr, data |-> r.data] : r \in {q \in Requests : q.data # <<>>}}

(* The register file that a master sees through the handlers. *)
Registers == INSTANCE RegisterFile WITH
    Addrs  <- addr_begin .. addr_end - 1,
    Reads  <- ReadOps,
    Writes <- WriteOps,
    regs   <- [a \in addr_begin .. addr_end - 1 |-> bytes[a - addr_begin]],
    echo   <- reply.echo,
    out    <- reply.data

(* Up to and with the first access that leaves the memory, a master sees a
   register file: a read returns the registers it names, an acknowledged write
   has stored all its data in the registers the acknowledgement names, a
   rejected one a prefix of its data at most, and nothing else changes a
   register.  No access begins after the last register. *)
ImplementsRegisterFile == Registers!Spec

============================================================================
