---------------------------- MODULE MCMasterLink ----------------------------
(***************************************************************************)
(* MasterLink for TLC: two registers, reads inside, across and outside     *)
(* them, of none up to one more than the limit, and writes that stay       *)
(* inside, of values that fit a byte and one that does not.                *)
(***************************************************************************)
EXTENDS MasterLink

MCCall(api, fcode, addr, data) ==
    [api |-> api, fcode |-> fcode, addr |-> addr, num |-> Len(data), data |-> data]

MCReadCalls ==
    [api : {"master_impl", "builders"}, fcode : {FCODE_RD_HOLDING_REGISTERS, FCODE_RD_BYTES},
     addr : addr_begin - 1 .. addr_end, num : {0, 1, 2, MAX_BYTES + 1}, data : {<<>>}]

MCOnes(n) == [i \in 1 .. n |-> 1]

MCWriteCalls ==
    UNION {
      {MCCall(api, FCODE_WR_REGISTERS, addr_begin, d) :
         d \in {<<>>, <<1, 0>>, <<0, 1>>, <<1, BYTE>>, MCOnes(MAX_WR_REGISTERS + 1)}}
      \cup {MCCall(api, FCODE_WR_BYTES, a, <<v>>) :
              a \in addr_begin .. addr_end - 1, v \in 0 .. 1}
      \cup {MCCall(api, FCODE_WR_BYTES, addr_begin, d) :
              d \in {<<>>, MCOnes(MAX_BYTES + 1)}}
      : api \in {"master_impl", "builders"}}

(* What only the builders offer. *)
MCBuilderCalls ==
    {MCCall("builders", FCODE_WR_REGISTER, addr_begin, <<v>>) : v \in {0, 1, BYTE}}
    \cup {MCCall("builders", FCODE_WR_COIL, addr_begin, <<v>>) : v \in {1, BYTE - 1}}
    \cup [api : {"builders"}, fcode : {FCODE_RD_COILS}, addr : {addr_begin},
          num : {1, MAX_RD_REGISTERS + 1}, data : {<<>>}]

MCCalls == MCReadCalls \cup MCWriteCalls \cup MCBuilderCalls

MCRequests == {make_request(c) : c \in Calls}

============================================================================
