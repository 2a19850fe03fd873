------------------------------- MODULE MCRtu -------------------------------
(***************************************************************************)
(* Rtu for TLC: two byte values, a buffer one byte longer than the         *)
(* shortest frame, and a toy CRC that tells frames apart.                  *)
(***************************************************************************)
EXTENDS Rtu, FiniteSetsExt

MCByte == {0, 1}

MCReplies == {<<>>, <<1>>, <<0, 1>>}

(* Parity of the ones and parity of the length. *)
MCCalcCrc(s) ==
    << Cardinality({i \in DOMAIN s : s[i] = 1}) % 2, Len(s) % 2 >>

============================================================================
