---------------------------- MODULE MC_AddressData ----------------------------
(* The address rows' data, shared by MC_AddressLedger and MC_Store.      *)

\* Spec scenario 4 on four blocks.  Block 1: F pays A outputs o1, o2, o3
\* (100, 200, 300).  Block 2: T spends o2 and pays A o4 (150); a coinbase C;
\* a ticket purchase S (stake tree) pays A o5 (50).  Block 3: U spends o1
\* and o3.  Block 4 carries the verdict on block 3.
MCNumBlocks == 4
MCTxs == {"F", "T", "C", "S", "U"}
MCOuts == {"o1", "o2", "o3", "o4", "o5"}
MCVins == {"t0", "c0", "u0", "u1"}
MCTxBlock == [t \in MCTxs |-> CASE t = "F" -> 1
                                [] t \in {"T", "C", "S"} -> 2
                                [] t = "U" -> 3]
MCTxTree == [t \in MCTxs |-> IF t = "S" THEN 1 ELSE 0]
MCOutTx == [o \in MCOuts |-> CASE o \in {"o1", "o2", "o3"} -> "F"
                              [] o = "o4" -> "T"
                              [] o = "o5" -> "S"]
MCOutValue == [o \in MCOuts |-> CASE o = "o1" -> 100 [] o = "o2" -> 200
                                  [] o = "o3" -> 300 [] o = "o4" -> 150
                                  [] o = "o5" -> 50]
MCVinTx == [v \in MCVins |-> CASE v = "t0" -> "T" [] v = "c0" -> "C"
                              [] v \in {"u0", "u1"} -> "U"]
MCVinSpends == [v \in MCVins |-> CASE v = "t0" -> "o2" [] v = "c0" -> "zero"
                                  [] v = "u0" -> "o1" [] v = "u1" -> "o3"]
MCZeroOutpoint == "zero"

MCBothVerdicts == {TRUE, FALSE}
MCApproveOnly == {TRUE}

MCAllStatements == {"SetAddressMainchainForVinIDs",
                    "SetAddressMainchainForVoutIDs"}

MCMaxReads == 2

=============================================================================
