-------------------------- MODULE MasterLinkProofs --------------------------
(***************************************************************************)
(* TLAPS proofs about MasterLink, for every set of calls, every memory and *)
(* every limit: the types, and, while no reply comes after the timeout of  *)
(* its call, that success means done.                                      *)
(***************************************************************************)
EXTENDS MasterLink, RtuMemoryProofs, SequenceTheorems

(* A byte of one of the replies R. *)
ByteOf(R) == [of : R, pos : 0 .. ADU_CAPACITY]

(* The types, with what they rest on: a reply that fits an ADU, and a buffer
   that is empty between two calls. *)
LinkTypes ==
    /\ MemTypeOK /\ ReplyFitsAdu
    /\ pc \in {"app", "read_impl"}
    /\ call \in Calls
    /\ inbox \in Seq({make_request(c) : c \in Calls})
    /\ \E R : rx \in Seq(ByteOf(R))
    /\ pc = "app" => got = <<>>
    /\ Len(got) < expected_size(call)

(* What the slave holds where a call reads or writes. *)
Memory(c) == [i \in 1 .. c.num |-> bytes[Offset(c.addr, i - 1)]]

(* A reply that says what the slave's memory holds. *)
Real(c, r) ==
    /\ r.ecode = "none"
    /\ r.fcode = c.fcode
    /\ IF c.fcode \in {FCODE_RD_HOLDING_REGISTERS, FCODE_RD_BYTES}
         THEN r.data = Memory(c)
         ELSE c.data = Memory(c)

(* A positive reply as the parsers expect it. *)
Layout(c, r) ==
    \/ c.fcode = FCODE_RD_HOLDING_REGISTERS /\ c.num > 0 /\ r.size = 2 + 2 * c.num
    \/ c.fcode = FCODE_RD_BYTES /\ c.num > 0 /\ r.size = 4 + c.num
       /\ r.echo = <<c.addr, c.num>>
    \/ c.fcode \in {FCODE_WR_REGISTER, FCODE_WR_REGISTERS} /\ r.size = 5
    \/ c.fcode = FCODE_WR_BYTES /\ r.size = 4

Served(c) == Real(c, reply) /\ Layout(c, reply)

(* What a slave may refuse. *)
OutOfRange(c) ==
    \/ c.num = 0 \/ c.num > MaxNum(c.fcode)
    \/ c.fcode \in {FCODE_RD_COILS, FCODE_WR_COIL}
    \/ c.addr < addr_begin \/ c.addr + c.num > addr_end
    \/ \E i \in DOMAIN c.data : c.data[i] >= BYTE

Refused(c) ==
    /\ reply.ecode \in {"ILLEGAL_FUNCTION", "ILLEGAL_DATA_ADDRESS", "ILLEGAL_DATA_VALUE",
                        "FORMAT_ERROR"}
    /\ reply.size = 2
    /\ OutOfRange(c)

(* How far a call has come: its request is on the way, or ignored, or answered
   with bytes of its own reply, not more than there are. *)
Asked   == inbox = <<make_request(call)>> /\ valid_params(call) /\ rx = <<>> /\ got = <<>>
Ignored == inbox = <<>> /\ reply = NoReply /\ rx = <<>> /\ got = <<>>

Replied ==
    /\ inbox = <<>>
    /\ Served(call) \/ Refused(call)
    /\ rx \in Seq(ByteOf({reply})) /\ got \in Seq(ByteOf({reply}))
    /\ Len(got) + Len(rx) <= 1 + reply.size + 2

LinkInv ==
    /\ LinkTypes
    /\ pc = "app" =>
        /\ inbox = <<>> /\ rx = <<>>
        /\ result # NoReply => Real(call, result)
    /\ pc = "read_impl" => Asked \/ Ignored \/ Replied

----------------------------------------------------------------------------
(* Calls, requests and sizes. *)

(* A call has the types of its parameters, and its request is one that the
   theorems about the slave's memory are about. *)
LEMMA CallType ==
  ASSUME NEW c \in Calls
  PROVE  /\ c.fcode \in {FCODE_RD_COILS, FCODE_RD_HOLDING_REGISTERS, FCODE_WR_COIL,
                         FCODE_WR_REGISTER, FCODE_WR_REGISTERS, FCODE_RD_BYTES,
                         FCODE_WR_BYTES}
         /\ c.addr \in Word /\ c.num \in Word /\ c.num \in Nat /\ c.addr \in Nat
         /\ c.data \in Seq(Nat) /\ c.num < WORD
         /\ make_request(c) \in Requests
<1>1. c.num \in Word /\ c.addr \in Word
  BY CallsAssumption
<1>2. c.num \in Nat /\ c.num < WORD /\ c.addr \in Nat
  BY <1>1, WidthAssumption DEF Word
<1> QED
  BY <1>1, <1>2, CallsAssumption

(* A call waits for some bytes, a transaction for those of an exception at
   least. *)
LEMMA ExpectedSize ==
  ASSUME NEW c \in Calls
  PROVE  /\ expected_size(c) \in Nat
         /\ expected_size(c) >= 5
         /\ ~Transaction(c) => expected_size(c) = ADU_CAPACITY
<1>1. c.num \in Nat
  BY CallType
<1>2. CASE ~Transaction(c)
  BY <1>2, LimitsAssumption DEF expected_size
<1>3. CASE Transaction(c)
  <2>1. c.fcode \in {FCODE_RD_HOLDING_REGISTERS, FCODE_RD_BYTES, FCODE_WR_REGISTERS,
                     FCODE_WR_BYTES}
    BY <1>3, CallsAssumption
  <2> QED
    BY <1>1, <1>3, <2>1
    DEF expected_size, FCODE_RD_HOLDING_REGISTERS, FCODE_RD_BYTES, FCODE_WR_REGISTERS,
        FCODE_WR_BYTES
<1> QED
  BY <1>2, <1>3

----------------------------------------------------------------------------
(* Bytes on the line. *)

(* A sequence cut in two. *)
LEMMA SplitSeq ==
  ASSUME NEW S, NEW s \in Seq(S), NEW n \in 0 .. Len(s)
  PROVE  /\ SubSeq(s, 1, n) \in Seq(S) /\ Len(SubSeq(s, 1, n)) = n
         /\ SubSeq(s, n + 1, Len(s)) \in Seq(S)
         /\ Len(SubSeq(s, n + 1, Len(s))) = Len(s) - n
<1>1. \A k \in 1 .. n : s[k] \in S
  OBVIOUS
<1>2. \A k \in n + 1 .. Len(s) : s[k] \in S
  OBVIOUS
<1>3. SubSeq(s, 1, n) \in Seq(S) /\ Len(SubSeq(s, 1, n)) = n
  BY <1>1, SubSeqProperties
<1>4. /\ SubSeq(s, n + 1, Len(s)) \in Seq(S)
      /\ Len(SubSeq(s, n + 1, Len(s))) = Len(s) - n
  BY <1>2, SubSeqProperties
<1> QED
  BY <1>3, <1>4

(* The bytes of a reply. *)
LEMMA AduBytes ==
  ASSUME NEW r, r.size \in Nat, 1 + r.size + 2 <= ADU_CAPACITY
  PROVE  Adu(r) \in Seq(ByteOf({r})) /\ Len(Adu(r)) = 1 + r.size + 2
<1> DEFINE n == 1 + r.size + 2
<1>1. n \in Nat /\ n <= ADU_CAPACITY
  BY LimitsAssumption
<1> HIDE DEF n
<1>2. ASSUME NEW i \in 1 .. n PROVE [of |-> r, pos |-> i] \in ByteOf({r})
  BY <1>1, <1>2, LimitsAssumption DEF ByteOf
<1>3. [i \in 1 .. n |-> [of |-> r, pos |-> i]] \in Seq(ByteOf({r}))
  BY <1>1, <1>2, IsASeq
<1>4. Len([i \in 1 .. n |-> [of |-> r, pos |-> i]]) = n
  BY <1>1
<1> QED
  BY <1>3, <1>4 DEF Adu, n

(* Whatever the line does to it, what arrives of a reply are bytes of that reply
   and not more of them. *)
LEMMA ReceivedBytes ==
  ASSUME NEW r, r.size \in Nat, 1 + r.size + 2 <= ADU_CAPACITY, NEW adu \in Received(Adu(r))
  PROVE  /\ adu \in Seq(ByteOf({r}))
         /\ Len(adu) \in Nat
         /\ Len(adu) <= 1 + r.size + 2
<1> DEFINE a == Adu(r)
<1>1. a \in Seq(ByteOf({r})) /\ Len(a) = 1 + r.size + 2
  BY AduBytes
<1> HIDE DEF a
<1>0. Len(a) \in Nat
  BY <1>1
<1>2. CASE adu = a
  BY <1>0, <1>1, <1>2
<1>3. CASE \E n \in 0 .. Len(a) - 1 : adu = SubSeq(a, 1, n)
  <2>1. PICK n \in 0 .. Len(a) - 1 : adu = SubSeq(a, 1, n)
    BY <1>3
  <2>2. n \in 0 .. Len(a)
    BY <1>0
  <2>3. SubSeq(a, 1, n) \in Seq(ByteOf({r})) /\ Len(SubSeq(a, 1, n)) = n
    BY <1>1, <2>2, SplitSeq
  <2> QED
    BY <1>0, <1>1, <2>1, <2>3
<1>4. CASE \E i \in DOMAIN a : adu = [a EXCEPT ![i].pos = 0]
  <2>1. PICK i \in DOMAIN a : adu = [a EXCEPT ![i].pos = 0]
    BY <1>4
  <2>2. i \in 1 .. Len(a)
    BY <1>1, <2>1
  <2>3. a[i] \in ByteOf({r})
    BY <1>1, <2>2, ElementOfSeq
  <2>4. [a[i] EXCEPT !.pos = 0] \in ByteOf({r})
    BY <2>3, LimitsAssumption DEF ByteOf
  <2>5. adu = [a EXCEPT ![i] = [a[i] EXCEPT !.pos = 0]]
    BY <2>1
  <2>6. adu \in Seq(ByteOf({r})) /\ Len(adu) = Len(a)
    BY <1>1, <2>2, <2>4, <2>5, ExceptSeq
  <2> QED
    BY <1>0, <1>1, <2>6
<1>5. adu \in Received(a)
  BY DEF a
<1>6. \/ adu = a
      \/ \E n \in 0 .. Len(a) - 1 : adu = SubSeq(a, 1, n)
      \/ \E i \in DOMAIN a : adu = [a EXCEPT ![i].pos = 0]
  BY <1>5 DEF Received
<1> QED
  BY <1>2, <1>3, <1>4, <1>6

(* Bytes of some replies are bytes of more replies. *)
LEMMA MoreReplies ==
  ASSUME NEW R, NEW T, R \subseteq T, NEW s \in Seq(ByteOf(R))
  PROVE  s \in Seq(ByteOf(T))
<1>1. ByteOf(R) \subseteq ByteOf(T)
  BY DEF ByteOf
<1> QED
  BY <1>1, SeqMonotonic

----------------------------------------------------------------------------
(* Types. *)

LEMMA LinkInitTypes == ASSUME LinkInit PROVE LinkTypes
<1>1. MemTypeOK /\ ReplyFitsAdu
  BY WidthAssumption, LimitsAssumption DEF LinkInit, MemInit, MemTypeOK, NoReply, ReplyFitsAdu
<1>2. call \in Calls
  BY CallsAssumption DEF LinkInit
<1>3. Len(got) < expected_size(call)
  BY <1>2, ExpectedSize DEF LinkInit
<1>4. rx \in Seq(ByteOf({}))
  BY DEF LinkInit
<1> QED
  BY <1>1, <1>2, <1>3, <1>4 DEF LinkInit, LinkTypes

LEMMA LinkNextTypes == ASSUME LinkTypes, LinkNext PROVE LinkTypes'
<1> DEFINE made == {make_request(c) : c \in Calls}
<1>0. /\ MemTypeOK /\ ReplyFitsAdu /\ pc \in {"app", "read_impl"} /\ call \in Calls
      /\ inbox \in Seq(made)
      /\ pc = "app" => got = <<>>
      /\ Len(got) < expected_size(call)
  BY DEF LinkTypes
<1> USE <1>0
<1>1. PICK R : rx \in Seq(ByteOf(R))
  BY DEF LinkTypes
<1>2. ASSUME UNCHANGED mvars PROVE (MemTypeOK /\ ReplyFitsAdu)'
  BY <1>2 DEF mvars, MemTypeOK, ReplyFitsAdu
<1>3. ASSUME NEW c \in Calls, rtu_master(c) PROVE LinkTypes'
  <2>1. /\ pc = "app" /\ call' = c /\ pc' \in {"app", "read_impl"} /\ got' = got /\ rx' = rx
        /\ UNCHANGED mvars /\ (inbox' = inbox \/ inbox' = Append(inbox, make_request(c)))
    BY <1>3 DEF rtu_master
  <2>2. inbox' \in Seq(made)
    <3>1. make_request(c) \in made
      BY <1>3
    <3> HIDE DEF made
    <3> QED
      BY <2>1, <3>1, AppendProperties
  <2>3. got' = <<>> /\ Len(got') < expected_size(call')
    <3>1. expected_size(c) \in Nat /\ expected_size(c) >= 5
      BY <1>3, ExpectedSize
    <3> QED
      BY <2>1, <3>1
  <2> QED
    BY <1>1, <1>2, <2>1, <2>2, <2>3 DEF LinkTypes
<1>4. CASE tty_read
  <2>1. PICK n \in 1 .. expected_size(call) - Len(got) :
          /\ n <= Len(rx)
          /\ rx' = SubSeq(rx, n + 1, Len(rx))
          /\ \/ /\ Len(got \o SubSeq(rx, 1, n)) < expected_size(call)
                /\ got' = got \o SubSeq(rx, 1, n)
                /\ UNCHANGED <<pc, result>>
             \/ got' = <<>> /\ pc' = "app"
    BY <1>4 DEF tty_read
  <2>2. /\ pc = "read_impl" /\ UNCHANGED mvars /\ call' = call /\ inbox' = inbox
    BY <1>4 DEF tty_read
  <2>3. n \in Int /\ 1 <= n
    OBVIOUS
  <2>4. rx' \in Seq(ByteOf(R))
    BY <1>1, <2>1, <2>3, SubSeqProperties, ElementOfSeq
  <2>5. Len(got') < expected_size(call') /\ pc' \in {"app", "read_impl"}
        /\ (pc' = "app" => got' = <<>>)
    BY <2>1, <2>2, ExpectedSize
  <2> QED
    BY <1>2, <2>2, <2>4, <2>5 DEF LinkTypes
<1>5. CASE timed_out
  <2>1. /\ pc' = "app" /\ got' = <<>> /\ UNCHANGED mvars /\ call' = call /\ inbox' = inbox
        /\ rx' = rx
    BY <1>5 DEF timed_out
  <2>2. Len(got') < expected_size(call')
    BY <2>1, ExpectedSize
  <2> QED
    BY <1>1, <1>2, <2>1, <2>2 DEF LinkTypes
<1>6. CASE SlaveAnswers
  <2>1. /\ inbox # <<>> /\ inbox' = Tail(inbox) /\ rtu_memory_impl_pdu_cb(Head(inbox))
        /\ pc' = pc /\ call' = call /\ got' = got
    BY <1>6 DEF SlaveAnswers, master
  <2>2. inbox' \in Seq(made) /\ Head(inbox) \in made
    <3> HIDE DEF made
    <3> QED
      BY <2>1, HeadTailProperties
  <2>3. Head(inbox) \in Requests
    BY <2>2, CallType
  <2>4. (MemTypeOK /\ ReplyFitsAdu)'
    BY <2>1, <2>3, StepTypeOK, StepReplyOK DEF ReplyOK
  <2>5. PICK adu \in Received(Adu(reply')) : rx' = rx \o adu
    BY <1>6 DEF SlaveAnswers
  <2>6. adu \in Seq(ByteOf({reply'}))
    BY <2>4, ReceivedBytes DEF MemTypeOK, ReplyFitsAdu
  <2> DEFINE T == R \cup {reply'}
  <2>7. rx \in Seq(ByteOf(T)) /\ adu \in Seq(ByteOf(T))
    BY <1>1, <2>6, MoreReplies
  <2> HIDE DEF T
  <2>8. rx' \in Seq(ByteOf(T))
    BY <2>5, <2>7, ConcatProperties
  <2> QED
    BY <2>1, <2>2, <2>4, <2>8 DEF LinkTypes, ByteOf
<1>7. CASE SlaveIgnores
  <2>1. /\ inbox # <<>> /\ inbox' = Tail(inbox) /\ bytes' = bytes /\ rx' = rx
        /\ reply' = NoReply /\ touched' = {} /\ pc' = pc /\ call' = call /\ got' = got
    BY <1>7 DEF SlaveIgnores, master
  <2>2. inbox' \in Seq(made)
    <3> HIDE DEF made
    <3> QED
      BY <2>1, HeadTailProperties
  <2>3. (MemTypeOK /\ ReplyFitsAdu)'
    BY <2>1, LimitsAssumption DEF MemTypeOK, ReplyFitsAdu, NoReply
  <2> QED
    BY <1>1, <2>1, <2>2, <2>3 DEF LinkTypes
<1> QED
  BY <1>3, <1>4, <1>5, <1>6, <1>7 DEF LinkNext

LEMMA LinkStuttersTypes == ASSUME LinkTypes, UNCHANGED link PROVE LinkTypes'
<1>1. /\ bytes' = bytes /\ reply' = reply /\ touched' = touched /\ pc' = pc /\ call' = call
      /\ got' = got /\ inbox' = inbox /\ rx' = rx
  BY DEF link, mvars, master
<1>2. (MemTypeOK /\ ReplyFitsAdu)'
  BY <1>1 DEF LinkTypes, MemTypeOK, ReplyFitsAdu
<1> QED
  BY <1>1, <1>2 DEF LinkTypes

THEOREM LinkTypesHold == LinkSpec => []LinkTypes
<1>1. LinkTypes /\ [LinkNext]_link => LinkTypes'
  BY LinkNextTypes, LinkStuttersTypes
<1> QED
  BY LinkInitTypes, <1>1, PTL DEF LinkSpec

(* The state keeps its types, also when replies are late. *)
THEOREM LinkTypeCorrect == LinkSpec => []LinkTypeOK
<1>1. ASSUME LinkTypes PROVE LinkTypeOK
  <2>1. PICK R : rx \in Seq(ByteOf(R))
    BY <1>1 DEF LinkTypes
  <2>2. ASSUME NEW i \in DOMAIN rx PROVE rx[i].pos \in 0 .. ADU_CAPACITY
    <3>1. i \in 1 .. Len(rx)
      BY <2>1, <2>2
    <3>2. rx[i] \in ByteOf(R)
      BY <2>1, <3>1, ElementOfSeq
    <3> QED
      BY <3>2 DEF ByteOf
  <2> QED
    BY <1>1, <2>2 DEF LinkTypes, LinkTypeOK
<1> QED
  BY LinkTypesHold, <1>1, PTL

----------------------------------------------------------------------------
(* The slave's answer to a call. *)

(* A value that is stored is found where the next read looks for it, however the
   offsets wrap. *)
LEMMA StoredThere ==
  ASSUME NEW addr \in Word, NEW data, NEW n \in Nat, n <= WORD, NEW i \in 1 .. n
  PROVE  Stored(addr, data, n)[Offset(addr, i - 1)] = data[i]
<1> DEFINE x == Wrap(addr - addr_begin)
           o == Wrap(x + (i - 1))
<1>1. addr_begin \in Word
  BY RegionAssumption, WidthAssumption DEF addr_begin, Word
<1>2. x \in Word
  BY <1>1, WrapWord
<1>3. i - 1 \in Word
  BY WidthAssumption DEF Word
<1>4. Offset(addr, i - 1) = o
  BY DEF Offset
<1> HIDE DEF x
<1>5. o \in Word
  BY <1>2, <1>3, WrapWord
<1>6. Wrap(o - x) + 1 = i
  BY <1>2, <1>3, WidthAssumption DEF Wrap, Word
<1> HIDE DEF o
<1>7. Stored(addr, data, n)[o] = IF Wrap(o - x) + 1 <= n THEN data[Wrap(o - x) + 1]
                                                         ELSE bytes[o]
  BY <1>5 DEF Stored, x
<1> QED
  BY <1>4, <1>6, <1>7

(* The request of a call. *)
LEMMA RequestOf ==
  ASSUME NEW c \in Calls, NEW r, r = make_request(c)
  PROVE  /\ r \in Requests
         /\ r.slave = SelfAddr /\ r.fcode = c.fcode /\ r.addr = c.addr /\ r.num = c.num
         /\ r.data = c.data /\ r.size = RequestSize(c)
         /\ r.count = IF c.fcode = FCODE_WR_REGISTERS THEN 2 * c.num ELSE 0
  BY CallType DEF make_request

ECodes == {"ILLEGAL_FUNCTION", "ILLEGAL_DATA_ADDRESS", "ILLEGAL_DATA_VALUE", "FORMAT_ERROR"}

(* An exception to a call that is out of range. *)
LEMMA ExceptRefuses ==
  ASSUME NEW c \in Calls, OutOfRange(c), NEW fcode, NEW ecode \in ECodes, except(fcode, ecode)
  PROVE  Refused(c)'
<1>1. reply'.ecode = ecode /\ reply'.size = 2
  BY DEF except, Exception
<1>2. OutOfRange(c)'
  BY DEF OutOfRange, MaxNum, addr_begin, addr_end, FCODE_RD_COILS, FCODE_WR_COIL,
         FCODE_RD_HOLDING_REGISTERS, FCODE_WR_REGISTERS, FCODE_RD_BYTES, FCODE_WR_BYTES,
         FCODE_WR_REGISTER
<1> QED
  BY <1>1, <1>2 DEF Refused, ECodes

(* A read of registers or bytes that are there returns them. *)
LEMMA ReadServes ==
  ASSUME NEW c \in Calls, NEW r, r = make_request(c),
         c.fcode \in {FCODE_RD_HOLDING_REGISTERS, FCODE_RD_BYTES},
         NEW size \in Nat, size <= r.size, NEW max \in Nat, max = MaxNum(c.fcode),
         NEW echo, NEW n, Read(r, c.fcode, size, max, echo, n)
  PROVE  \/ Refused(c)'
         \/ /\ Real(c, reply)' /\ c.num > 0
            /\ reply'.size = n /\ reply'.echo = echo
<1>1. /\ r.addr = c.addr /\ r.num = c.num /\ c.addr \in Nat /\ c.num \in Nat
      /\ c.addr < WORD /\ c.num < WORD /\ r.size \in Nat
  <2>1. r.size \in Nat /\ r.addr = c.addr /\ r.num = c.num
    BY RequestOf, RequestsAssumption DEF Request
  <2> QED
    BY <2>1, CallType, WidthAssumption DEF Word
<1>2. addr_begin \in Nat /\ addr_end \in Nat /\ addr_end < WORD /\ WORD \in Nat
  BY RegionAssumption, WidthAssumption DEF addr_begin, addr_end
<1>3. CASE ReadError(r, size, max) # "none"
  <2>1. ReadError(r, size, max) \in ECodes
    BY <1>3 DEF ReadError, ECodes
  <2>2. c.addr + c.num <= addr_end => IntSum(c.addr, c.num) = c.addr + c.num
    BY <1>1, <1>2 DEF IntSum, Wrap
  <2>3. \/ ~(addr_end > c.addr /\ addr_begin <= c.addr)
        \/ ~(0 < c.num /\ c.num <= max)
        \/ ~(addr_end >= IntSum(c.addr, c.num))
    BY <1>1, <1>3 DEF ReadError
  <2>4. \/ c.num = 0 \/ c.num > max
        \/ c.addr < addr_begin \/ c.addr + c.num > addr_end
    BY <1>1, <1>2, <2>2, <2>3
  <2>5. OutOfRange(c)
    BY <2>4 DEF OutOfRange
  <2>6. except(ExceptionCode(c.fcode, ReadError(r, size, max)), ReadError(r, size, max))
    BY <1>3 DEF Read
  <2> QED
    BY <2>1, <2>5, <2>6, ExceptRefuses
<1>4. CASE ReadError(r, size, max) = "none"
  <2> DEFINE values == [i \in 1 .. r.num |-> bytes[Offset(r.addr, i - 1)]]
  <2>1. /\ reply' = [fcode |-> c.fcode, ecode |-> "none", echo |-> echo, data |-> values,
                     size |-> n]
        /\ bytes' = bytes
    BY <1>4 DEF Read
  <2>2. values = [i \in 1 .. c.num |-> bytes'[Offset(c.addr, i - 1)]]
    BY <1>1, <2>1
  <2> HIDE DEF values
  <2>3. /\ reply'.ecode = "none" /\ reply'.fcode = c.fcode /\ reply'.data = values
        /\ reply'.size = n /\ reply'.echo = echo
    BY <2>1
  <2>4. Memory(c)' = values
    BY <2>2 DEF Memory, Offset, Wrap, addr_begin
  <2>5. Real(c, reply)'
    BY <2>3, <2>4 DEF Real, FCODE_RD_HOLDING_REGISTERS, FCODE_RD_BYTES
  <2>6. c.num > 0
    BY <1>1, <1>4 DEF ReadError
  <2> QED
    BY <2>3, <2>5, <2>6
<1> QED
  BY <1>3, <1>4

(* A write that is acknowledged is in the memory. *)
LEMMA WriteServes ==
  ASSUME NEW c \in Calls, NEW r, r = make_request(c),
         c.fcode \in {FCODE_WR_REGISTER, FCODE_WR_REGISTERS, FCODE_WR_BYTES},
         NEW value, NEW size, Write(r, c.fcode, c.num, "none", value, size)
  PROVE  Real(c, reply)' /\ reply'.size = size
<1>1. /\ c.addr \in Word /\ c.num \in Nat /\ c.num <= WORD /\ c.data \in Seq(Nat)
      /\ r.addr = c.addr /\ r.data = c.data
  BY CallType, RequestOf, WidthAssumption DEF Word
<1>2. Len(c.data) = c.num
  BY CallsAssumption
<1>3. bytes' = Stored(c.addr, c.data, c.num)
  BY <1>1 DEF Write
<1>4. /\ reply'.ecode = "none" /\ reply'.fcode = c.fcode /\ reply'.size = size
  BY DEF Write
<1>5. \A i \in 1 .. c.num : bytes'[Offset(c.addr, i - 1)] = c.data[i]
  BY <1>1, <1>3, StoredThere
<1>6. c.data = [i \in 1 .. c.num |-> c.data[i]]
  BY <1>1, <1>2
<1>7. c.data = [i \in 1 .. c.num |-> bytes'[Offset(c.addr, i - 1)]]
  BY <1>5, <1>6
<1>8. Memory(c)' = c.data
  BY <1>7 DEF Memory, Offset, Wrap, addr_begin
<1>9. c.fcode \notin {FCODE_RD_HOLDING_REGISTERS, FCODE_RD_BYTES}
  BY DEF FCODE_WR_REGISTER, FCODE_WR_REGISTERS, FCODE_WR_BYTES,
         FCODE_RD_HOLDING_REGISTERS, FCODE_RD_BYTES
<1> QED
  BY <1>4, <1>8, <1>9 DEF Real, FCODE_RD_HOLDING_REGISTERS, FCODE_RD_BYTES

(* What the slave makes of the request of a call: it serves it, or it refuses
   what is out of range. *)
LEMMA SlaveReplies ==
  ASSUME NEW c \in Calls, valid_params(c), rtu_memory_impl_pdu_cb(make_request(c))
  PROVE  Served(c)' \/ Refused(c)'
<1> DEFINE r == make_request(c)
<1> USE DEF FCODE_RD_COILS, FCODE_WR_COIL, FCODE_RD_HOLDING_REGISTERS, FCODE_RD_BYTES,
            FCODE_WR_REGISTER, FCODE_WR_REGISTERS, FCODE_WR_BYTES
<1>1. /\ r \in Requests
      /\ r.slave = SelfAddr /\ r.fcode = c.fcode /\ r.addr = c.addr /\ r.num = c.num
      /\ r.data = c.data /\ r.size = RequestSize(c)
      /\ r.count = IF c.fcode = FCODE_WR_REGISTERS THEN 2 * c.num ELSE 0
  BY RequestOf
<1>2. /\ c.addr \in Nat /\ c.num \in Nat /\ addr_end \in Nat
      /\ c.data \in Seq(Nat) /\ BYTE \in Nat
  BY CallType, RegionAssumption, WidthAssumption DEF addr_end
<1>r. r = make_request(c)
  OBVIOUS
<1> HIDE DEF r
<1>3. rtu_memory_pdu_cb(r)
  BY <1>1, <1>r DEF rtu_memory_impl_pdu_cb
<1>4. CASE c.fcode = FCODE_RD_HOLDING_REGISTERS
  <2>1. read_n16(r)
    BY <1>1, <1>3, <1>4 DEF rtu_memory_pdu_cb
  <2>2. RequestSize(c) = 5 /\ MaxNum(c.fcode) = MAX_RD_REGISTERS
    BY <1>4 DEF RequestSize, MaxNum
  <2>3. Read(r, c.fcode, 5, MAX_RD_REGISTERS, <<>>, 2 + 2 * c.num)
    BY <1>1, <1>4, <2>1 DEF read_n16
  <2>4. \/ Refused(c)'
        \/ Real(c, reply)' /\ c.num > 0 /\ reply'.size = 2 + 2 * c.num
    <3>1. 5 \in Nat /\ 5 <= r.size /\ MAX_RD_REGISTERS \in Nat
      BY <1>1, <2>2, LimitsAssumption
    <3>2. c.fcode \in {FCODE_RD_HOLDING_REGISTERS, FCODE_RD_BYTES}
      BY <1>4
    <3> HIDE DEF FCODE_RD_HOLDING_REGISTERS, FCODE_RD_BYTES
    <3> QED
      BY <1>r, <2>2, <2>3, <3>1, <3>2, ReadServes
  <2> QED
    BY <1>4, <2>4 DEF Served, Layout
<1>5. CASE c.fcode = FCODE_RD_BYTES
  <2>1. read_n8(r)
    BY <1>1, <1>3, <1>5 DEF rtu_memory_pdu_cb
  <2>2. RequestSize(c) = 4 /\ MaxNum(c.fcode) = MAX_BYTES
    BY <1>5 DEF RequestSize, MaxNum
  <2>3. Read(r, c.fcode, 4, MAX_BYTES, <<c.addr, c.num>>, 4 + c.num)
    BY <1>1, <1>5, <2>1 DEF read_n8
  <2>4. \/ Refused(c)'
        \/ /\ Real(c, reply)' /\ c.num > 0 /\ reply'.size = 4 + c.num
           /\ reply'.echo = <<c.addr, c.num>>
    <3> DEFINE head == <<c.addr, c.num>>
               n == 4 + c.num
    <3>1. 4 \in Nat /\ 4 <= r.size /\ MAX_BYTES \in Nat
      BY <1>1, <2>2, LimitsAssumption
    <3>2. c.fcode \in {FCODE_RD_HOLDING_REGISTERS, FCODE_RD_BYTES}
      BY <1>5
    <3>3. Read(r, c.fcode, 4, MAX_BYTES, head, n) /\ MAX_BYTES = MaxNum(c.fcode)
      BY <2>2, <2>3
    <3> HIDE DEF FCODE_RD_HOLDING_REGISTERS, FCODE_RD_BYTES, head, n
    <3>4. \/ Refused(c)'
          \/ /\ Real(c, reply)' /\ c.num > 0
             /\ reply'.size = n /\ reply'.echo = head
      <4>1. ASSUME NEW echo, NEW m, Read(r, c.fcode, 4, MAX_BYTES, echo, m)
            PROVE  \/ Refused(c)'
                   \/ /\ Real(c, reply)' /\ c.num > 0
                      /\ reply'.size = m /\ reply'.echo = echo
        BY <1>r, <3>1, <3>2, <3>3, <4>1, ReadServes
      <4> QED
        BY <3>3, <4>1
    <3> QED
      BY <3>4 DEF head, n
  <2> QED
    BY <1>5, <2>4 DEF Served, Layout
<1>6. CASE c.fcode = FCODE_WR_REGISTER
  <2>1. write_16(r)
    BY <1>1, <1>3, <1>6 DEF rtu_memory_pdu_cb
  <2>2. c.num = 1 /\ Len(c.data) = 1 /\ r.size = 5
    <3>1. c.num = 1 /\ Len(c.data) = c.num
      BY <1>6, CallsAssumption
    <3>2. RequestSize(c) = 5
      BY <1>6 DEF RequestSize
    <3> QED
      BY <1>1, <3>1, <3>2
  <2>3. CASE addr_end > c.addr /\ ~(c.data[1] >= BYTE)
    <3>1. Write(r, c.fcode, c.num, "none", c.data[1], 5)
      BY <1>1, <1>6, <2>1, <2>2, <2>3 DEF write_16
    <3>2. Real(c, reply)' /\ reply'.size = 5
      BY <1>6, <1>r, <3>1, WriteServes
    <3> QED
      BY <1>6, <3>2 DEF Served, Layout
  <2>4. CASE ~(addr_end > c.addr /\ ~(c.data[1] >= BYTE))
    <3>1. 1 \in DOMAIN c.data
      BY <1>2, <2>2
    <3>2. OutOfRange(c)
      BY <1>2, <2>2, <2>4, <3>1 DEF OutOfRange
    <3>3. \E fcode : \E ecode \in ECodes : except(fcode, ecode)
      BY <1>1, <2>1, <2>2, <2>4 DEF write_16, ECodes
    <3> QED
      BY <3>2, <3>3, ExceptRefuses
  <2> QED
    BY <2>3, <2>4
<1>7. CASE c.fcode = FCODE_WR_REGISTERS
  <2>1. write_n16(r)
    BY <1>1, <1>3, <1>7 DEF rtu_memory_pdu_cb
  <2>2. /\ Len(c.data) = c.num /\ r.size = 6 + 2 * c.num /\ r.count = 2 * c.num
        /\ c.num <= MAX_WR_REGISTERS
    <3>1. c.num <= MaxNum(c.fcode)
      BY <1>7 DEF valid_params
    <3>2. MaxNum(c.fcode) = MAX_WR_REGISTERS
      BY <1>7 DEF MaxNum
    <3> QED
      BY <1>1, <1>7, <3>1, <3>2, CallsAssumption DEF RequestSize
  <2>3. CASE addr_end > c.addr /\ 0 < c.num
    <3>1. PICK n \in 0 .. c.num :
            /\ LoopStores(c.data, c.num, n)
            /\ Write(r, c.fcode, n, IF n = c.num THEN "none" ELSE "ILLEGAL_DATA_VALUE",
                     c.num, 5)
      BY <1>1, <1>2, <1>7, <2>1, <2>2, <2>3 DEF write_n16
    <3>2. CASE n = c.num
      <4>1. Write(r, c.fcode, c.num, "none", c.num, 5)
        BY <3>1, <3>2
      <4>2. Real(c, reply)' /\ reply'.size = 5
        BY <1>7, <1>r, <4>1, WriteServes
      <4> QED
        BY <1>7, <4>2 DEF Served, Layout
    <3>3. CASE n # c.num
      <4>1. n + 1 \in DOMAIN c.data /\ c.data[n + 1] >= BYTE
        BY <1>2, <2>2, <3>1, <3>3 DEF LoopStores
      <4>2. OutOfRange(c)
        BY <4>1 DEF OutOfRange
      <4>3. reply' = Exception(c.fcode, "ILLEGAL_DATA_VALUE")
        BY <3>1, <3>3 DEF Write
      <4>4. reply'.ecode = "ILLEGAL_DATA_VALUE" /\ reply'.size = 2
        BY <4>3 DEF Exception
      <4> QED
        BY <4>2, <4>4 DEF Refused, OutOfRange, MaxNum, addr_begin, addr_end
    <3> QED
      BY <3>2, <3>3
  <2>4. CASE ~(addr_end > c.addr /\ 0 < c.num)
    <3>1. OutOfRange(c)
      BY <1>2, <2>4 DEF OutOfRange
    <3>2. \E fcode : \E ecode \in ECodes : except(fcode, ecode)
      BY <1>1, <1>2, <2>1, <2>2, <2>4 DEF write_n16, ECodes
    <3> QED
      BY <3>1, <3>2, ExceptRefuses
  <2> QED
    BY <2>3, <2>4
<1>8. CASE c.fcode = FCODE_WR_BYTES
  <2>1. write_n8(r)
    BY <1>1, <1>3, <1>8 DEF rtu_memory_pdu_cb
  <2>2. r.size = 4 + c.num /\ c.num <= MAX_BYTES
    <3>1. c.num <= MaxNum(c.fcode)
      BY <1>8 DEF valid_params
    <3>2. MaxNum(c.fcode) = MAX_BYTES
      BY <1>8 DEF MaxNum
    <3> QED
      BY <1>1, <1>8, <3>1, <3>2 DEF RequestSize
  <2>3. CASE addr_end > c.addr /\ 0 < c.num
    <3>1. Write(r, c.fcode, c.num, "none", c.num, 4)
      BY <1>1, <1>2, <1>8, <2>1, <2>2, <2>3 DEF write_n8
    <3>2. Real(c, reply)' /\ reply'.size = 4
      BY <1>8, <1>r, <3>1, WriteServes
    <3> QED
      BY <1>8, <3>2 DEF Served, Layout
  <2>4. CASE ~(addr_end > c.addr /\ 0 < c.num)
    <3>1. OutOfRange(c)
      BY <1>2, <2>4 DEF OutOfRange
    <3>2. \E fcode : \E ecode \in ECodes : except(fcode, ecode)
      BY <1>1, <1>2, <2>1, <2>2, <2>4 DEF write_n8, ECodes
    <3> QED
      BY <3>1, <3>2, ExceptRefuses
  <2> QED
    BY <2>3, <2>4
<1>9. CASE c.fcode \in {FCODE_RD_COILS, FCODE_WR_COIL}
  <2>1. except(r.fcode, "ILLEGAL_FUNCTION")
    BY <1>1, <1>3, <1>9 DEF rtu_memory_pdu_cb
  <2>2. OutOfRange(c)
    BY <1>9 DEF OutOfRange
  <2> QED
    BY <2>1, <2>2, ExceptRefuses DEF ECodes
<1> QED
  BY <1>4, <1>5, <1>6, <1>7, <1>8, <1>9, CallType

----------------------------------------------------------------------------
(* The parsers. *)

(* The CRC is right for the reply and nothing else. *)
LEMMA CrcOfReply ==
  ASSUME reply.size \in Nat, ReplyFitsAdu, NEW adu \in Seq(ByteOf({reply})), valid_crc(adu)
  PROVE  adu[1].of = reply /\ Len(adu) = 1 + reply.size + 2
<1>1. Len(adu) > 2 /\ adu = Adu(adu[1].of) /\ Len(adu) \in Nat
  BY DEF valid_crc
<1>2. adu[1] \in ByteOf({reply})
  BY <1>1, ElementOfSeq
<1>3. adu[1].of = reply
  BY <1>2 DEF ByteOf
<1>4. Len(Adu(reply)) = 1 + reply.size + 2
  BY AduBytes DEF ReplyFitsAdu
<1> QED
  BY <1>1, <1>3, <1>4

(* No parser takes an exception for what it parses. *)
LEMMA ParsedIsReal ==
  ASSUME reply.size \in Nat, ReplyFitsAdu, NEW c \in Calls, Served(c) \/ Refused(c),
         NEW adu \in Seq(ByteOf({reply})), parse_reply(c, adu)
  PROVE  Real(c, reply) /\ adu[1].of = reply
<1> USE DEF FCODE_RD_COILS, FCODE_WR_COIL, FCODE_RD_HOLDING_REGISTERS, FCODE_RD_BYTES,
            FCODE_WR_REGISTER, FCODE_WR_REGISTERS, FCODE_WR_BYTES
<1>1. /\ valid_crc(adu)
      /\ \/ 5 + ThirdByte(adu[1].of) = Len(adu)
         \/ Len(adu) = 7 \/ Len(adu) = 8 \/ 7 <= Len(adu)
  BY Zenon
  DEF parse_reply, parse_reply_rd_holding_registers, parse_reply_rd_bytes,
      parse_reply_wr_register, parse_reply_wr_registers, parse_reply_wr_bytes
<1>2. adu[1].of = reply /\ Len(adu) = 1 + reply.size + 2
  BY <1>1, CrcOfReply
<1>3. ASSUME Refused(c) PROVE FALSE
  <2>1. reply.size = 2 /\ reply.ecode \in ECodes
    BY <1>3 DEF Refused, ECodes
  <2>2. ThirdByte(reply) \in {1, 2, 3, 128}
    BY <2>1 DEF ThirdByte, ECodes
  <2>3. Len(adu) = 5 /\ 5 + ThirdByte(reply) = Len(adu)
    BY <1>1, <1>2, <2>1
  <2> QED
    BY <2>2, <2>3
<1> QED
  BY <1>2, <1>3 DEF Served

(* There is nothing to parse without bytes. *)
LEMMA NothingParsed == ASSUME NEW c \in Calls PROVE ~parse_reply(c, <<>>)
<1>1. ~valid_crc(<<>>)
  BY DEF valid_crc
<1> QED
  BY <1>1
  DEF parse_reply, parse_reply_rd_holding_registers, parse_reply_rd_bytes,
      parse_reply_wr_register, parse_reply_wr_registers, parse_reply_wr_bytes

(* A reply is never longer than what its call waits for. *)
LEMMA ReplyAsExpected ==
  ASSUME reply.size \in Nat, ReplyFitsAdu, NEW c \in Calls, Served(c) \/ Refused(c)
  PROVE  1 + reply.size + 2 <= expected_size(c)
<1> USE DEF FCODE_RD_COILS, FCODE_WR_COIL, FCODE_RD_HOLDING_REGISTERS, FCODE_RD_BYTES,
            FCODE_WR_REGISTER, FCODE_WR_REGISTERS, FCODE_WR_BYTES
<1>1. c.num \in Nat
  BY CallType
<1>2. CASE ~Transaction(c)
  BY <1>2, ExpectedSize DEF ReplyFitsAdu
<1>3. CASE Refused(c)
  <2>1. reply.size = 2
    BY <1>3 DEF Refused
  <2>2. expected_size(c) \in Nat /\ expected_size(c) >= 5
    BY ExpectedSize
  <2> QED
    BY <2>1, <2>2
<1>4. CASE Transaction(c) /\ Served(c)
  <2>1. c.fcode \in {FCODE_RD_HOLDING_REGISTERS, FCODE_RD_BYTES, FCODE_WR_REGISTERS,
                     FCODE_WR_BYTES}
    BY <1>4, CallsAssumption
  <2>2. Layout(c, reply)
    BY <1>4 DEF Served
  <2>3. CASE c.fcode = FCODE_RD_HOLDING_REGISTERS
    <3>1. expected_size(c) = 3 + 2 * c.num + 2 /\ reply.size = 2 + 2 * c.num
      BY <1>4, <2>2, <2>3 DEF expected_size, Layout
    <3> QED
      BY <1>1, <3>1
  <2>4. CASE c.fcode = FCODE_RD_BYTES
    <3>1. expected_size(c) = 5 + c.num + 2 /\ reply.size = 4 + c.num
      BY <1>4, <2>2, <2>4 DEF expected_size, Layout
    <3> QED
      BY <1>1, <3>1
  <2>5. CASE c.fcode = FCODE_WR_REGISTERS
    BY <1>4, <2>2, <2>5 DEF expected_size, Layout
  <2>6. CASE c.fcode = FCODE_WR_BYTES
    BY <1>4, <2>2, <2>6 DEF expected_size, Layout
  <2> QED
    BY <2>1, <2>3, <2>4, <2>5, <2>6
<1> QED
  BY <1>2, <1>3, <1>4

(* Both parsers and find_ecode know a whole reply for what it is. *)
LEMMA WholeReply ==
  ASSUME reply.size \in Nat, ReplyFitsAdu, NEW c \in Calls, Served(c) \/ Refused(c)
  PROVE  /\ parse_reply(c, Adu(reply)) <=> reply.ecode = "none"
         /\ find_ecode(Adu(reply)) <=> reply.ecode # "none"
<1> DEFINE adu == Adu(reply)
<1>1. adu \in Seq(ByteOf({reply})) /\ Len(adu) = 1 + reply.size + 2
  BY AduBytes DEF ReplyFitsAdu
<1>2. adu[1].of = reply
  <2>1. 1 \in 1 .. 1 + reply.size + 2
    OBVIOUS
  <2> QED
    BY <2>1 DEF Adu
<1>e. adu = Adu(reply)
  OBVIOUS
<1> HIDE DEF adu
<1>3. Len(adu) > 2
  BY <1>1
<1>4. valid_crc(adu)
  BY <1>2, <1>3, <1>e DEF valid_crc
<1>5. CASE Refused(c)
  <2>1. reply.size = 2 /\ reply.ecode # "none"
    BY <1>5 DEF Refused
  <2>2. find_ecode(adu)
    BY <1>1, <1>4, <2>1 DEF find_ecode
  <2>3. ~Real(c, reply)
    BY <2>1 DEF Real
  <2>4. ~parse_reply(c, adu)
    BY <1>1, <2>3, ParsedIsReal
  <2> QED
    BY <1>e, <2>1, <2>2, <2>4
<1>6. CASE Served(c)
  <2>1. /\ reply.ecode = "none" /\ reply.fcode = c.fcode /\ Layout(c, reply)
        /\ c.num \in Nat
    BY <1>6, CallType DEF Served, Real
  <2>2. CASE c.fcode = FCODE_RD_HOLDING_REGISTERS
    <3>1. c.num > 0 /\ reply.size = 2 + 2 * c.num
      BY <2>1, <2>2
      DEF Layout, FCODE_RD_HOLDING_REGISTERS, FCODE_RD_BYTES, FCODE_WR_REGISTER,
          FCODE_WR_REGISTERS, FCODE_WR_BYTES
    <3>2. reply.data = Memory(c)
      BY <1>6, <2>2 DEF Served, Real
    <3>3. Len(reply.data) = c.num
      BY <2>1, <3>2 DEF Memory
    <3>4. ThirdByte(reply) = 2 * Len(reply.data)
      BY <2>1, <2>2 DEF ThirdByte
    <3>5. 5 <= Len(adu) /\ 5 + ThirdByte(adu[1].of) = Len(adu) /\ Len(adu) # 5
      <4>1. ThirdByte(adu[1].of) = 2 * c.num
        BY <1>2, <3>3, <3>4
      <4>2. Len(adu) = 5 + 2 * c.num
        BY <1>1, <2>1, <3>1
      <4> QED
        BY <2>1, <3>1, <4>1, <4>2
    <3>6. parse_reply(c, adu)
      BY <1>4, <2>2, <3>5 DEF parse_reply, parse_reply_rd_holding_registers
    <3>7. ~find_ecode(adu)
      BY <3>5 DEF find_ecode
    <3> QED
      BY <1>e, <2>1, <3>6, <3>7
  <2>3. CASE c.fcode = FCODE_RD_BYTES
    <3>1. c.num > 0 /\ reply.size = 4 + c.num /\ reply.echo = <<c.addr, c.num>>
      BY <2>1, <2>3
      DEF Layout, FCODE_RD_HOLDING_REGISTERS, FCODE_RD_BYTES, FCODE_WR_REGISTER,
          FCODE_WR_REGISTERS, FCODE_WR_BYTES
    <3>2. FifthByte(reply) = reply.echo[2]
      BY <2>1, <2>3
      DEF FifthByte, FCODE_RD_HOLDING_REGISTERS, FCODE_RD_BYTES, FCODE_WR_REGISTER,
          FCODE_WR_REGISTERS, FCODE_WR_BYTES
    <3>3. 7 <= Len(adu) /\ 7 + FifthByte(adu[1].of) = Len(adu) /\ Len(adu) # 5
      BY <1>1, <1>2, <2>1, <3>1, <3>2
    <3>4. parse_reply(c, adu)
      BY <1>4, <2>3, <3>3 DEF parse_reply, parse_reply_rd_bytes
    <3>5. ~find_ecode(adu)
      BY <3>3 DEF find_ecode
    <3> QED
      BY <1>e, <2>1, <3>4, <3>5
  <2>4. CASE c.fcode \in {FCODE_WR_REGISTER, FCODE_WR_REGISTERS, FCODE_WR_BYTES}
    <3>1. IF c.fcode = FCODE_WR_BYTES THEN reply.size = 4 ELSE reply.size = 5
      BY <2>1, <2>4
      DEF Layout, FCODE_RD_HOLDING_REGISTERS, FCODE_RD_BYTES, FCODE_WR_REGISTER,
          FCODE_WR_REGISTERS, FCODE_WR_BYTES
    <3>2. (IF c.fcode = FCODE_WR_BYTES THEN 7 = Len(adu) ELSE 8 = Len(adu)) /\ Len(adu) # 5
      BY <1>1, <3>1
    <3>3. parse_reply(c, adu)
      BY <1>4, <2>4, <3>2
      DEF parse_reply, parse_reply_wr_register, parse_reply_wr_registers,
          parse_reply_wr_bytes
    <3>4. ~find_ecode(adu)
      BY <3>2 DEF find_ecode
    <3> QED
      BY <1>e, <2>1, <3>3, <3>4
  <2> QED
    BY <2>1, <2>2, <2>3, <2>4 DEF Layout
<1> QED
  BY <1>5, <1>6

----------------------------------------------------------------------------
(* The invariant. *)

(* What has been said of a reply stays true while the slave does nothing. *)
LEMMA StillTrue ==
  ASSUME UNCHANGED <<bytes, reply, call>>
  PROVE  /\ Served(call) => Served(call)'
         /\ Refused(call) => Refused(call)'
         /\ \A r : Real(call, r) => Real(call, r)'
<1>1. bytes' = bytes /\ reply' = reply /\ call' = call
  OBVIOUS
<1>2. Memory(call)' = Memory(call)
  BY <1>1 DEF Memory, Offset, Wrap, addr_begin
<1>3. \A r : Real(call, r) => Real(call, r)'
  BY <1>1, <1>2 DEF Real, FCODE_RD_HOLDING_REGISTERS, FCODE_RD_BYTES
<1>4. Served(call) => Served(call)'
  BY <1>1, <1>2
  DEF Served, Real, Layout, FCODE_RD_HOLDING_REGISTERS, FCODE_RD_BYTES, FCODE_WR_REGISTER,
      FCODE_WR_REGISTERS, FCODE_WR_BYTES
<1>5. Refused(call) => Refused(call)'
  BY <1>1
  DEF Refused, OutOfRange, MaxNum, addr_begin, addr_end, FCODE_RD_COILS, FCODE_WR_COIL,
      FCODE_RD_HOLDING_REGISTERS, FCODE_RD_BYTES, FCODE_WR_REGISTER, FCODE_WR_REGISTERS,
      FCODE_WR_BYTES
<1> QED
  BY <1>3, <1>4, <1>5

LEMMA LinkInitInv == ASSUME LinkInit PROVE LinkInv
<1>1. /\ pc = "app" /\ inbox = <<>> /\ rx = <<>> /\ result = NoReply
  BY DEF LinkInit
<1> QED
  BY <1>1, LinkInitTypes DEF LinkInv

LEMMA LinkNextInv == ASSUME ~LATE, LinkInv, LinkNext PROVE LinkInv'
<1>1. LinkTypes /\ LinkTypes'
  BY LinkNextTypes DEF LinkInv
<1>2. /\ call \in Calls /\ reply.size \in Nat /\ ReplyFitsAdu /\ pc \in {"app", "read_impl"}
      /\ pc = "app" => got = <<>>
  BY <1>1 DEF LinkTypes, MemTypeOK
<1>3. ASSUME NEW c \in Calls, rtu_master(c) PROVE LinkInv'
  <2>1. /\ pc = "app" /\ inbox = <<>> /\ rx = <<>> /\ got = <<>>
        /\ call' = c /\ result' = NoReply /\ rx' = rx /\ got' = got
        /\ \/ valid_params(c) /\ pc' = "read_impl" /\ inbox' = Append(inbox, make_request(c))
           \/ pc' = pc /\ inbox' = inbox
    BY <1>2, <1>3 DEF rtu_master, LinkInv
  <2>2. CASE valid_params(c) /\ pc' = "read_impl" /\ inbox' = Append(inbox, make_request(c))
    <3>1. inbox' = <<make_request(call')>> /\ valid_params(call')
      BY <2>1, <2>2
    <3>2. Asked'
      BY <2>1, <3>1 DEF Asked
    <3> QED
      BY <1>1, <2>2, <3>2 DEF LinkInv
  <2>3. CASE pc' = pc /\ inbox' = inbox
    BY <1>1, <2>1, <2>3 DEF LinkInv
  <2> QED
    BY <2>1, <2>2, <2>3
<1>4. CASE tty_read
  <2>1. pc = "read_impl" /\ UNCHANGED <<bytes, reply, call>> /\ inbox' = inbox
    BY <1>4 DEF tty_read, mvars
  <2>2. PICK n \in 1 .. expected_size(call) - Len(got) :
          /\ n <= Len(rx)
          /\ rx' = SubSeq(rx, n + 1, Len(rx))
          /\ LET adu == got \o SubSeq(rx, 1, n)
             IN  \/ /\ Len(adu) < expected_size(call)
                    /\ got' = adu
                    /\ UNCHANGED <<pc, result>>
                 \/ /\ Len(adu) = expected_size(call)
                    /\ got' = <<>>
                    /\ pc' = "app"
                    /\ result' = IF parse_reply(call, adu) THEN adu[1].of ELSE NoReply
    BY <1>4 DEF tty_read
  <2>3. Replied
    BY <2>1, <2>2 DEF LinkInv, Asked, Ignored
  <2> DEFINE S == ByteOf({reply})
             adu == got \o SubSeq(rx, 1, n)
  <2>4. /\ rx \in Seq(S) /\ got \in Seq(S) /\ Len(rx) \in Nat /\ Len(got) \in Nat
        /\ Len(got) + Len(rx) <= 1 + reply.size + 2 /\ inbox = <<>>
        /\ Served(call) \/ Refused(call)
    BY <2>3 DEF Replied
  <2>5. n \in 0 .. Len(rx)
    BY <2>2, <2>4
  <2> HIDE DEF S
  <2>6. /\ SubSeq(rx, 1, n) \in Seq(S) /\ Len(SubSeq(rx, 1, n)) = n
        /\ rx' \in Seq(S) /\ Len(rx') = Len(rx) - n
    BY <2>2, <2>4, <2>5, SplitSeq
  <2>7. adu \in Seq(S) /\ Len(adu) = Len(got) + n
    BY <2>4, <2>6, ConcatProperties
  <2> HIDE DEF adu
  <2>8. CASE got' = adu /\ UNCHANGED <<pc, result>>
    <3>1. /\ got' \in Seq(S) /\ Len(got') + Len(rx') <= 1 + reply'.size + 2
      BY <1>2, <2>1, <2>4, <2>5, <2>6, <2>7, <2>8
    <3>2. (Served(call) \/ Refused(call))'
      BY <2>1, <2>4, StillTrue
    <3>3. rx' \in Seq(ByteOf({reply'})) /\ got' \in Seq(ByteOf({reply'}))
      BY <2>1, <2>6, <3>1 DEF S
    <3>4. Replied'
      BY <2>1, <2>4, <3>1, <3>2, <3>3 DEF Replied, ByteOf
    <3> QED
      BY <1>1, <2>1, <2>8, <3>4 DEF LinkInv
  <2>9. CASE /\ Len(adu) = expected_size(call)
             /\ pc' = "app"
             /\ result' = IF parse_reply(call, adu) THEN adu[1].of ELSE NoReply
    <3>1. 1 + reply.size + 2 <= Len(adu)
      BY <1>2, <2>4, <2>9, ReplyAsExpected
    <3>2. rx' = <<>>
      <4>1. Len(rx') = 0
        BY <1>2, <2>4, <2>5, <2>6, <2>7, <3>1
      <4> QED
        BY <2>6, <4>1
    <3>3. ASSUME result' # NoReply PROVE Real(call, result)'
      <4>1. parse_reply(call, adu)
        BY <2>9, <3>3
      <4>2. Real(call, reply) /\ adu[1].of = reply
        BY <1>2, <2>4, <2>7, <4>1, ParsedIsReal DEF S
      <4>3. Real(call, reply)' /\ result' = reply'
        BY <2>1, <2>9, <4>1, <4>2, StillTrue
      <4> QED
        BY <4>3 DEF Real, FCODE_RD_HOLDING_REGISTERS, FCODE_RD_BYTES
    <3> QED
      BY <1>1, <2>1, <2>4, <2>9, <3>2, <3>3 DEF LinkInv
  <2> QED
    BY <2>2, <2>8, <2>9 DEF adu
<1>5. CASE timed_out
  <2>1. /\ pc = "read_impl" /\ pc' = "app" /\ inbox = <<>> /\ rx = <<>>
        /\ UNCHANGED <<bytes, reply, call>> /\ inbox' = inbox /\ rx' = rx
        /\ result' = IF ~Transaction(call) /\ parse_reply(call, got) THEN got[1].of
                                                                     ELSE NoReply
    BY <1>5 DEF timed_out, mvars
  <2>2. ASSUME result' # NoReply PROVE Real(call, result)'
    <3>1. parse_reply(call, got) /\ result' = got[1].of
      BY <2>1, <2>2
    <3>2. got # <<>>
      BY <1>2, <3>1, NothingParsed
    <3>3. Replied
      BY <2>1, <3>2 DEF LinkInv, Asked, Ignored
    <3>4. Real(call, reply) /\ got[1].of = reply
      BY <1>2, <3>1, <3>3, ParsedIsReal DEF Replied
    <3>5. Real(call, reply)' /\ result' = reply'
      BY <2>1, <3>1, <3>4, StillTrue
    <3> QED
      BY <3>5 DEF Real, FCODE_RD_HOLDING_REGISTERS, FCODE_RD_BYTES
  <2> QED
    BY <1>1, <2>1, <2>2 DEF LinkInv
<1>6. ASSUME inbox # <<>> PROVE pc = "read_impl" /\ Asked
  BY <1>2, <1>6 DEF LinkInv, Ignored, Replied
<1>7. CASE SlaveAnswers
  <2>1. /\ pc = "read_impl" /\ Asked /\ inbox' = Tail(inbox) /\ pc' = pc /\ call' = call
        /\ got' = got /\ rtu_memory_impl_pdu_cb(Head(inbox))
    BY <1>6, <1>7 DEF SlaveAnswers, master
  <2>2. /\ inbox' = <<>> /\ got' = <<>> /\ rx = <<>> /\ valid_params(call)
        /\ rtu_memory_impl_pdu_cb(make_request(call))
    BY <2>1 DEF Asked
  <2>3. ASSUME NEW c \in Calls, c = call PROVE (Served(c) \/ Refused(c))'
    BY <2>2, <2>3, SlaveReplies
  <2>4. (Served(call) \/ Refused(call))'
    <3>1. PICK c \in Calls : c = call /\ call' = c
      BY <1>2, <2>1
    <3>2. (Served(c) \/ Refused(c))'
      BY <2>3, <3>1
    <3> QED
      BY <3>1, <3>2
      DEF Served, Refused, Real, Layout, Memory, OutOfRange
  <2>5. PICK adu \in Received(Adu(reply')) : rx' = rx \o adu
    BY <1>7 DEF SlaveAnswers
  <2>6. /\ adu \in Seq(ByteOf({reply'})) /\ Len(adu) <= 1 + reply'.size + 2
        /\ Len(adu) \in Nat
    BY <1>1, ReceivedBytes DEF LinkTypes, MemTypeOK, ReplyFitsAdu
  <2>7. rx' = adu
    BY <2>2, <2>5, <2>6, ConcatEmptySeq
  <2>8. Replied'
    <3>1. rx' \in Seq(ByteOf({reply'})) /\ got' \in Seq(ByteOf({reply'}))
      BY <2>2, <2>6, <2>7
    <3>2. Len(got') + Len(rx') <= 1 + reply'.size + 2
      BY <2>2, <2>6, <2>7
    <3> QED
      BY <2>2, <2>4, <3>1, <3>2 DEF Replied, ByteOf
  <2> QED
    BY <1>1, <2>1, <2>8 DEF LinkInv
<1>8. CASE SlaveIgnores
  <2>1. /\ pc = "read_impl" /\ Asked /\ inbox' = Tail(inbox) /\ pc' = pc
        /\ got' = got /\ rx' = rx /\ reply' = NoReply
    BY <1>6, <1>8 DEF SlaveIgnores, master
  <2>2. Ignored'
    BY <2>1 DEF Asked, Ignored, NoReply
  <2> QED
    BY <1>1, <2>1, <2>2 DEF LinkInv
<1> QED
  BY <1>3, <1>4, <1>5, <1>7, <1>8 DEF LinkNext

LEMMA LinkStuttersInv == ASSUME LinkInv, UNCHANGED link PROVE LinkInv'
<1>1. /\ UNCHANGED <<bytes, reply, call>> /\ pc' = pc /\ got' = got /\ inbox' = inbox
      /\ rx' = rx /\ result' = result
  BY DEF link, mvars, master
<1>2. LinkTypes'
  BY LinkStuttersTypes DEF LinkInv
<1>3. Asked => Asked'
  BY <1>1 DEF Asked
<1>4. Ignored => Ignored'
  BY <1>1 DEF Ignored, NoReply
<1>5. Replied => Replied'
  BY <1>1, StillTrue DEF Replied, ByteOf
<1>6. Real(call, result) => Real(call, result)'
  <2>1. Memory(call)' = Memory(call)
    BY <1>1 DEF Memory, Offset, Wrap, addr_begin
  <2> QED
    BY <1>1, <2>1 DEF Real, FCODE_RD_HOLDING_REGISTERS, FCODE_RD_BYTES
<1> QED
  BY <1>1, <1>2, <1>3, <1>4, <1>5, <1>6 DEF LinkInv, NoReply

----------------------------------------------------------------------------
(* The invariant of a link on which no reply is late: a call's bytes are those
   of its own reply. *)
THEOREM LinkInvariance == ASSUME ~LATE PROVE LinkSpec => []LinkInv
<1>1. LinkInv /\ [LinkNext]_link => LinkInv'
  BY LinkNextInv, LinkStuttersInv
<1> QED
  BY LinkInitInv, <1>1, PTL DEF LinkSpec

(* A call that returns success has done what it was asked to: the slave's memory
   holds what was written, and what was read is what the slave's memory holds. *)
THEOREM SuccessMeansDone == ASSUME ~LATE PROVE LinkSpec => []SuccessIsReal
<1>1. LinkInv => SuccessIsReal
  BY DEF LinkInv, SuccessIsReal, Real, Memory
<1> QED
  BY LinkInvariance, <1>1, PTL

(* No call leaves bytes or a request behind that the next one would meet. *)
THEOREM CallsDoNotMix == ASSUME ~LATE PROVE LinkSpec => []NothingLeftBehind
<1>1. LinkInv => NothingLeftBehind
  BY DEF LinkInv, NothingLeftBehind
<1> QED
  BY LinkInvariance, <1>1, PTL

(* Builders and handlers agree on sizes, counts and limits: the slave refuses
   only what is out of range. *)
THEOREM SlaveServesCalls == ASSUME ~LATE PROVE LinkSpec => []LegalCallsAreServed
<1>1. ASSUME LinkInv PROVE LegalCallsAreServed
  <2> SUFFICES ASSUME pc = "read_impl", inbox = <<>>, reply.ecode # "none"
               PROVE  OutOfRange(call)
    BY DEF LegalCallsAreServed, OutOfRange
  <2>1. Replied
    BY <1>1 DEF LinkInv, Asked, Ignored, NoReply
  <2> QED
    BY <2>1 DEF Replied, Served, Real, Refused
<1> QED
  BY LinkInvariance, <1>1, PTL

(* Parsers and handlers agree on the layout of every reply. *)
THEOREM RepliesAreUnderstood == ASSUME ~LATE PROVE LinkSpec => []WholeRepliesAreUnderstood
<1>1. ASSUME LinkInv PROVE WholeRepliesAreUnderstood
  <2> SUFFICES ASSUME pc = "read_impl", got # <<>>, got = Adu(reply)
               PROVE  /\ parse_reply(call, got) <=> reply.ecode = "none"
                      /\ find_ecode(got) <=> reply.ecode # "none"
    BY DEF WholeRepliesAreUnderstood
  <2>1. Replied
    BY <1>1 DEF LinkInv, Asked, Ignored
  <2>2. call \in Calls /\ reply.size \in Nat /\ ReplyFitsAdu
    BY <1>1 DEF LinkInv, LinkTypes, MemTypeOK
  <2> QED
    BY <2>1, <2>2, WholeReply DEF Replied
<1> QED
  BY LinkInvariance, <1>1, PTL

(* There are never more bytes to read than the array of a transaction has room
   for, also where the caller's number asks for more. *)
THEOREM BufferSuffices == ASSUME ~LATE PROVE LinkSpec => []ReadsFitBuffer
<1>1. ASSUME LinkInv PROVE ReadsFitBuffer
  <2> SUFFICES ASSUME pc = "read_impl" PROVE Len(got) + Len(rx) <= ADU_CAPACITY
    BY DEF ReadsFitBuffer
  <2>1. CASE Asked \/ Ignored
    BY <2>1, LimitsAssumption DEF Asked, Ignored
  <2>2. CASE Replied
    BY <1>1, <2>2, LimitsAssumption DEF LinkInv, LinkTypes, MemTypeOK, ReplyFitsAdu, Replied
  <2> QED
    BY <1>1, <2>1, <2>2 DEF LinkInv
<1> QED
  BY LinkInvariance, <1>1, PTL

============================================================================
