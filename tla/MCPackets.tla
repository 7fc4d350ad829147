----------------------------- MODULE MCPackets -----------------------------
(***************************************************************************)
(* Three types of packets with bytes of four values: a list, which is      *)
(* merged, that the relay appends its UID to, and two from whose front it  *)
(* pops a value.  One message is of 5 bytes, a size with a low byte of 1   *)
(* that the server may take for all of it when it arrives alone.           *)
(***************************************************************************)
EXTENDS Packets

MCTypes == {1, 2, 3}
MCFormat == <<<<"b", "s">>, <<"w", "s">>, <<"b", "w">>>>
MCRelays == <<"append", "pop", "pop">>
MCNewType == <<3, 1, 2>>
MCContents == <<{<<<<2>>, <<1>>>>, <<<<2>>, <<1, 3>>>>, <<<<2>>, <<>>>>},
                {<<<<5>>, <<1>>>>, <<<<5>>, <<>>>>},
                {<<<<1>>, <<5>>>>}>>

=============================================================================
