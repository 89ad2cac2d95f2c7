------------------------- MODULE MCStreamTestbench -------------------------
(***************************************************************************)
(* Tests of a bus of two bytes: packets of one and of three bytes, of      *)
(* every type of byte, with and without tuser, and pauses between them.    *)
(***************************************************************************)
EXTENDS StreamTestbench

Item(type, tdata, tuser) == [type |-> type, tdata |-> tdata, tuser |-> tuser]

Short == Item("DATA", <<TdataByte(1, "DATA_BYTE")>>, <<>>)

Long == Item("DATA", <<TdataByte(2, "DATA_BYTE"), TdataByte(1, "POSITION_BYTE"),
                       TdataByte(3, "RESERVED")>>, <<1>>)

Pause == Item("IDLE", <<>>, <<>>)

MCPackets == {<<Long>>, <<Short, Long>>, <<Short, Pause, Short>>}

MCRxIdle == <<0, 1>>

MCTxIdle == <<0, 1>>

=============================================================================
