---------------------------- MODULE RegisterFile ----------------------------
(***************************************************************************)
(* What the memory handler promises a master: registers with addresses,    *)
(* written by address and read back by address.  A write of several        *)
(* registers may stop early, as write_n16 does at a value that does not    *)
(* fit a register.  An access may reach beyond the registers there are,    *)
(* and a write may begin before them, but none begins after the last.      *)
(***************************************************************************)
EXTENDS Integers, Sequences

CONSTANTS
    Addrs,   \* the addresses of the registers
    Reads,   \* the reads a master may ask for: [addr, num]
    Writes   \* the writes a master may ask for: [addr, data]

VARIABLES
    regs,    \* the value of every register
    echo,    \* <<address, value or number>> of the last request, or <<>>
    out      \* the values returned by the last request

Init ==
    /\ regs = [a \in Addrs |-> 0]
    /\ echo = <<>>
    /\ out = <<>>

(* The values of the registers asked for are returned, and anything for an
   address that is not one. *)
Answer(r) ==
    /\ r.addr \in Addrs
    /\ DOMAIN out' = 1 .. r.num
    /\ \A i \in 1 .. r.num : r.addr + i - 1 \in Addrs => out'[i] = regs[r.addr + i - 1]
    /\ echo' \in {<<>>, <<r.addr, r.num>>}
    /\ UNCHANGED regs

(* The first n values are stored at consecutive addresses. *)
Store(w, n) ==
    /\ \E a \in Addrs : w.addr <= a
    /\ regs' = [a \in Addrs |->
                  IF a \in w.addr .. w.addr + n - 1 THEN w.data[a - w.addr + 1]
                                                    ELSE regs[a]]
    /\ out' = <<>>

(* A write that is acknowledged stores all its values. *)
Assign(w) ==
    /\ Store(w, Len(w.data))
    /\ echo' \in {<<w.addr, w.data[1]>>, <<w.addr, Len(w.data)>>}

(* A rejected write may have stored the values before the offending one. *)
AssignPart(w, n) ==
    /\ Store(w, n)
    /\ echo' = <<>>

Reject ==
    /\ out' = <<>>
    /\ echo' = <<>>
    /\ UNCHANGED regs

Next ==
    \/ \E r \in Reads : Answer(r)
    \/ \E w \in Writes : Assign(w)
    \/ \E w \in Writes : \E n \in 1 .. Len(w.data) - 1 : AssignPart(w, n)
    \/ Reject

Spec == Init /\ [][Next]_<<regs, echo, out>>

============================================================================
