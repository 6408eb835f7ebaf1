------------------------------ MODULE TxTable ------------------------------
(***************************************************************************)
(* The transactions table of the PostgreSQL store: its row statements      *)
(* (src/v4/db/dcrpg/internal/txstmts.go) and the functions of package      *)
(* dcrpg that run them (src/unnamed/part_001, "transactions table" and the *)
(* UPDATE functions).  A row is a transaction in a block: (tx_hash,        *)
(* block_hash) with its tree and the block's is_valid and is_mainchain.    *)
(*                                                                         *)
(* The store's caller may call any of them in any order: before the        *)
(* unique index uix_tx_hashes exists it inserts unchecked, and a restart   *)
(* stores a block again, so a pair may have several rows until            *)
(* DeleteDuplicateTxns runs and the index is created.  A caller keeps the  *)
(* row ids InsertTxns returns (the tickets table's purchase_tx_db_id, the  *)
(* blocks table's tx ids); firstId records the first id a pair was given.  *)
(* The id sequence (SERIAL8) hands out a value to every INSERT attempted,  *)
(* and a rollback does not give it back.                                   *)
(***************************************************************************)
EXTENDS Integers, Sequences, SequencesExt

CONSTANTS
  Txs, Blocks,
  TxTree,       \* the tree of each transaction: 0 regular, 1 stake
  BlockTxs,     \* the transactions of each block, per tree, in block order
  InsertFlags,  \* the (is_valid, is_mainchain) a block's rows are stored with
  MaxInserts    \* InsertTxns calls (model bound)

ASSUME /\ TxTree \in [Txs -> {0, 1}]
       /\ BlockTxs \in [Blocks -> [{0, 1} -> Seq(Txs)]]
       /\ InsertFlags \subseteq BOOLEAN \X BOOLEAN
       /\ MaxInserts \in Nat

VARIABLES
  rows,         \* the committed rows: [id, tx, blk, valid, main]
  nextId,       \* the next value of the id sequence
  uixTxHashes,  \* the unique index on (tx_hash, block_hash) exists
  out,          \* what the last call returned
  firstId,      \* the first id InsertTxns returned for each pair (0: none)
  inserts

vars == <<rows, nextId, uixTxHashes, out, firstId, inserts>>

Pairs == Txs \X Blocks
PairOf(r) == <<r.tx, r.blk>>
RowsOf(T, p) == {r \in T : PairOf(r) = p}
IdsOf(T) == {r.id : r \in T}

NoRows == 0   \* sql.ErrNoRows: the statement returned no row
Failed == -1  \* the statement failed

Row(id, p, valid, main) ==
  [id |-> id, tx |-> p[1], blk |-> p[2], valid |-> valid, main |-> main]

(* What a call returns: its error and row ids; InsertTxns also keeps the  *)
(* transactions it was given.                                              *)
Out(op, err, ids, batch) == [op |-> op, err |-> err, ids |-> ids, batch |-> batch]

SortedIds(T) == SetToSortSeq(IdsOf(T), <)

-----------------------------------------------------------------------------
(* Each statement below maps the table, the next id and the pair to the   *)
(* table after it and the id it returns.                                   *)

(* InsertTxRow: a plain INSERT ... RETURNING id, which the unique index    *)
(* rejects when the pair has a row.                                        *)
InsertTxRow(T, id, p, valid, main) ==
  IF uixTxHashes /\ RowsOf(T, p) # {}
    THEN [rows |-> T, ret |-> Failed]
    ELSE [rows |-> T \cup {Row(id, p, valid, main)}, ret |-> id]

(* UpsertTxRow: ON CONFLICT DO UPDATE SET is_valid, is_mainchain,         *)
(* returning the inserted or updated row's id.                             *)
UpsertTxRow(T, id, p, valid, main) ==
  IF RowsOf(T, p) = {}
    THEN [rows |-> T \cup {Row(id, p, valid, main)}, ret |-> id]
    ELSE LET r == CHOOSE r \in RowsOf(T, p) : TRUE
         IN [rows |-> (T \ {r}) \cup {[r EXCEPT !.valid = valid, !.main = main]},
             ret |-> r.id]

\* Mutant: the conflicting row's id is not selected (no UNION ALL).
DoNothingResult_noFallback(T, id, p, valid, main) ==
  IF RowsOf(T, p) = {}
    THEN [rows |-> T \cup {Row(id, p, valid, main)}, ret |-> id]
    ELSE [rows |-> T, ret |-> NoRows]

(* InsertTxRowOnConflictDoNothing: the INSERT does nothing on a conflict  *)
(* and the UNION ALL then selects the existing row's id, untouched.        *)
DoNothingResult(T, id, p, valid, main) ==
  IF RowsOf(T, p) = {}
    THEN [rows |-> T \cup {Row(id, p, valid, main)}, ret |-> id]
    ELSE [rows |-> T, ret |-> (CHOOSE r \in RowsOf(T, p) : TRUE).id]

(* MakeTxInsertStatement. *)
MakeTxInsertStatement(checked, updateOnConflict) ==
  IF ~checked THEN "InsertTxRow"
  ELSE IF updateOnConflict THEN "UpsertTxRow"
  ELSE "InsertTxRowOnConflictDoNothing"

Statement(stmt, T, id, p, valid, main) ==
  CASE stmt = "InsertTxRow" -> InsertTxRow(T, id, p, valid, main)
    [] stmt = "UpsertTxRow" -> UpsertTxRow(T, id, p, valid, main)
    [] OTHER -> DoNothingResult(T, id, p, valid, main)

(* The loop of InsertTxns over the prepared statement in one database     *)
(* transaction: a row that is not returned is skipped, a failed statement *)
(* ends the loop.                                                          *)
RECURSIVE InsertLoop(_, _, _, _, _)
InsertLoop(stmt, st, batch, valid, main) ==
  IF batch = <<>> THEN st
  ELSE LET q == Statement(stmt, st.rows, st.next, Head(batch), valid, main)
       IN IF q.ret = Failed
            THEN [st EXCEPT !.next = @ + 1, !.err = TRUE]
            ELSE InsertLoop(stmt,
                   [rows |-> q.rows, next |-> st.next + 1, err |-> FALSE,
                    ids |-> IF q.ret = NoRows THEN st.ids
                            ELSE Append(st.ids, q.ret)],
                   Tail(batch), valid, main)

(* InsertTxns with the transactions of block b's tree t.  An ON CONFLICT   *)
(* with no unique index on its columns fails at Prepare; a failed          *)
(* statement rolls the database transaction back.                          *)
InsertTxns(b, t, checked, updateExistingRecords, valid, main) ==
  LET batch == [k \in DOMAIN BlockTxs[b][t] |-> <<BlockTxs[b][t][k], b>>]
      stmt == MakeTxInsertStatement(checked, updateExistingRecords)
      st == InsertLoop(stmt, [rows |-> rows, next |-> nextId, err |-> FALSE,
                              ids |-> <<>>], batch, valid, main)
  IN /\ inserts < MaxInserts
     /\ inserts' = inserts + 1
     /\ IF checked /\ ~uixTxHashes
          THEN /\ out' = Out("InsertTxns", TRUE, <<>>, batch)
               /\ UNCHANGED <<rows, nextId, firstId>>
        ELSE IF st.err
          THEN /\ out' = Out("InsertTxns", TRUE, <<>>, batch)
               /\ nextId' = st.next
               /\ UNCHANGED <<rows, firstId>>
        ELSE /\ rows' = st.rows /\ nextId' = st.next
             /\ out' = Out("InsertTxns", FALSE, st.ids, batch)
             /\ firstId' = [p \in Pairs |->
                  IF firstId[p] = 0 /\ RowsOf(st.rows, p) # {}
                    THEN (CHOOSE r \in RowsOf(st.rows, p) : TRUE).id
                    ELSE firstId[p]]
     /\ UNCHANGED uixTxHashes

(* InsertTx: one statement, autocommitted.  A statement returning no row  *)
(* is the error sql.ErrNoRows from Scan.                                   *)
InsertTx(b, x, checked, updateExistingRecords, valid, main) ==
  LET q == Statement(MakeTxInsertStatement(checked, updateExistingRecords),
                     rows, nextId, <<x, b>>, valid, main)
      ok == ~(checked /\ ~uixTxHashes) /\ q.ret \notin {Failed, NoRows}
  IN /\ inserts < MaxInserts
     /\ inserts' = inserts + 1
     /\ rows' = IF ok THEN q.rows ELSE rows
     /\ nextId' = IF checked /\ ~uixTxHashes THEN nextId ELSE nextId + 1
     /\ out' = Out("InsertTx", ~ok, IF ok THEN <<q.ret>> ELSE <<>>, <<<<x, b>>>>)
     /\ firstId' = IF ok /\ firstId[<<x, b>>] = 0
                      THEN [firstId EXCEPT ![<<x, b>>] = q.ret] ELSE firstId
     /\ UNCHANGED uixTxHashes

-----------------------------------------------------------------------------
\* Mutant: ROW_NUMBER ordered by id DESC, so the newest row is kept.
DuplicateRows_keepNewest(T) ==
  {r \in T : \E s \in RowsOf(T, PairOf(r)) : s.id > r.id}

(* DeleteTxDuplicateRows: every row numbered above 1 in its (tx_hash,      *)
(* block_hash) partition ordered by id, i.e. all but the lowest id.        *)
DuplicateRows(T) ==
  {r \in T : \E s \in RowsOf(T, PairOf(r)) : s.id < r.id}

(* DeleteDuplicateTxns: nothing to do when uix_tx_hashes exists and is    *)
(* unique (the only index of that name the store creates is); otherwise   *)
(* the duplicates are deleted.                                             *)
DeleteDuplicateTxns ==
  /\ rows' = IF uixTxHashes THEN rows ELSE rows \ DuplicateRows(rows)
  /\ out' = Out("DeleteDuplicateTxns", FALSE, <<>>, <<>>)
  /\ UNCHANGED <<nextId, uixTxHashes, firstId, inserts>>

(* IndexTransactionTableOnHashes: CREATE UNIQUE INDEX fails when the index *)
(* exists or a pair has two rows; DeindexTransactionTableOnHashes drops it.*)
IndexTransactionTableOnHashes ==
  /\ LET ok == ~uixTxHashes /\ \A p \in Pairs : \A r, s \in RowsOf(rows, p) : r = s
     IN /\ uixTxHashes' = (uixTxHashes \/ ok)
        /\ out' = Out("IndexTransactionTableOnHashes", ~ok, <<>>, <<>>)
  /\ UNCHANGED <<rows, nextId, firstId, inserts>>

DeindexTransactionTableOnHashes ==
  /\ uixTxHashes' = FALSE
  /\ out' = Out("DeindexTransactionTableOnHashes", ~uixTxHashes, <<>>, <<>>)
  /\ UNCHANGED <<rows, nextId, firstId, inserts>>

-----------------------------------------------------------------------------
(* UpdateTxnsMainchainByBlock: is_mainchain of every row of block b.     *)
UpdateTxnsMainchainByBlock(T, b, isMainchain) ==
  {IF r.blk = b THEN [r EXCEPT !.main = isMainchain] ELSE r : r \in T}

(* UpdateRegularTxnsValidByBlock: is_valid of block b's regular rows.      *)
UpdateRegularTxnsValidByBlock(T, b, isValid) ==
  {IF r.blk = b /\ TxTree[r.tx] = 0 THEN [r EXCEPT !.valid = isValid] ELSE r
     : r \in T}

(* UpdateTransactionsMainchain: the statement returns the ids of the rows *)
(* it updated, which the function collects.                                *)
UpdateTransactionsMainchain(b, isMainchain) ==
  /\ rows' = UpdateTxnsMainchainByBlock(rows, b, isMainchain)
  /\ out' = Out("UpdateTransactionsMainchain", FALSE,
                SortedIds({r \in rows : r.blk = b}), <<>>)
  /\ UNCHANGED <<nextId, uixTxHashes, firstId, inserts>>

(* UpdateTransactionsValid: UpdateRegularTxnsValidByBlock has no          *)
(* RETURNING clause, so the rows loop sees no row and the function        *)
(* returns 0 and no ids.                                                   *)
UpdateTransactionsValid(b, isValid) ==
  /\ rows' = UpdateRegularTxnsValidByBlock(rows, b, isValid)
  /\ out' = Out("UpdateTransactionsValid", FALSE, <<>>, <<>>)
  /\ UNCHANGED <<nextId, uixTxHashes, firstId, inserts>>

(* RetrieveTxByHash: SelectTxByHash orders the transaction's rows by       *)
(* is_mainchain, then is_valid, and the first is scanned; rows that tie    *)
(* come in any order.  No row is sql.ErrNoRows.                            *)
Rank(r) == (IF r.main THEN 2 ELSE 0) + (IF r.valid THEN 1 ELSE 0)

RetrieveTxByHash(x) ==
  LET of == {r \in rows : r.tx = x}
      top == {r \in of : \A s \in of : Rank(s) <= Rank(r)}
  IN /\ IF of = {}
          THEN out' = Out("RetrieveTxByHash", TRUE, <<>>, <<>>)
          ELSE \E r \in top : out' = Out("RetrieveTxByHash", FALSE, <<r.id>>, <<>>)
     /\ UNCHANGED <<rows, nextId, uixTxHashes, firstId, inserts>>

-----------------------------------------------------------------------------
Init ==
  /\ rows = {} /\ nextId = 1 /\ uixTxHashes = FALSE
  /\ out = Out("none", FALSE, <<>>, <<>>)
  /\ firstId = [p \in Pairs |-> 0]
  /\ inserts = 0

Next ==
  \/ \E b \in Blocks, t \in {0, 1}, checked, update \in BOOLEAN, f \in InsertFlags :
       InsertTxns(b, t, checked, update, f[1], f[2])
  \/ \E b \in Blocks, t \in {0, 1}, checked, update \in BOOLEAN, f \in InsertFlags :
       \E k \in DOMAIN BlockTxs[b][t] :
         InsertTx(b, BlockTxs[b][t][k], checked, update, f[1], f[2])
  \/ DeleteDuplicateTxns
  \/ IndexTransactionTableOnHashes
  \/ DeindexTransactionTableOnHashes
  \/ \E b \in Blocks, m \in BOOLEAN : UpdateTransactionsMainchain(b, m)
  \/ \E b \in Blocks, v \in BOOLEAN : UpdateTransactionsValid(b, v)
  \/ \E x \in Txs : RetrieveTxByHash(x)

Spec == Init /\ [][Next]_vars

-----------------------------------------------------------------------------
TypeOK ==
  /\ rows \subseteq [id : Nat \ {0}, tx : Txs, blk : Blocks, valid : BOOLEAN,
                     main : BOOLEAN]
  /\ \A r, s \in rows : r.id = s.id => r = s
  /\ nextId \in Nat \ {0} /\ uixTxHashes \in BOOLEAN
  /\ out.err \in BOOLEAN /\ out.ids \in Seq(Nat)
  /\ firstId \in [Pairs -> Nat] /\ inserts \in 0..MaxInserts

(* When InsertTxns (or InsertTx) returns without an error, it returns one *)
(* id for each transaction it was given, in order, and each names that    *)
(* transaction's row in that block: the caller stores them by position.  Under          *)
(* InsertTxRowOnConflictDoNothing a conflicting row must still be         *)
(* returned, or the loop's ErrNoRows skip shifts the ids that follow.     *)
IdsNameTheirRows ==
  out.op \in {"InsertTxns", "InsertTx"} /\ ~out.err =>
    /\ Len(out.ids) = Len(out.batch)
    /\ \A k \in DOMAIN out.ids :
         \E r \in RowsOf(rows, out.batch[k]) : r.id = out.ids[k]

(* After DeleteDuplicateTxns (and at any time once uix_tx_hashes exists)   *)
(* every pair InsertTxns has stored has exactly one row, and it is the    *)
(* first row the pair was given, whose id the caller may have stored.      *)
DedupeKeepsFirstOfEach ==
  out.op = "DeleteDuplicateTxns" \/ uixTxHashes =>
    \A p \in Pairs :
      firstId[p] # 0 => {r.id : r \in RowsOf(rows, p)} = {firstId[p]}

=============================================================================
