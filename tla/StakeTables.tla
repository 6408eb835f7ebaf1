----------------------------- MODULE StakeTables -----------------------------
(***************************************************************************)
(* The stake tables of the PostgreSQL store (src/unnamed/part_001, the    *)
(* dcrpg package): blocks, tickets, votes and misses, written for each    *)
(* new main chain block by the per-block store sequence of the spec       *)
(* (section 4.3.1 and 4.3.5): the block row, the block's ticket purchases  *)
(* (InsertTickets), its votes and the misses computed from the header's   *)
(* validators (InsertVotes), then the voted tickets' spending info        *)
(* (SetSpendingForTickets) and the missed tickets' pool status            *)
(* (SetPoolStatusForTicketsByHash).  Every one of these functions begins  *)
(* and commits its own database transaction, so the process may stop     *)
(* between any two of them; on restart the sync resumes above the best    *)
(* block of the blocks table (RetrieveBestBlockHeight).                    *)
(*                                                                         *)
(* A ticket is a model value; a vote is identified by the ticket it spends *)
(* (TxIn[1] of the SSGen); the other tables are left to AddressLedger.    *)
(***************************************************************************)
EXTENDS Integers, SequencesExt

CONSTANTS
  Tickets,          \* ticket purchase transactions
  NumBlocks,        \* the node's chain is blocks 1..NumBlocks
  Purchases,        \* Purchases[b]: the tickets bought in block b
  Validators,       \* Validators[b]: msgBlock.Validators, in header order
  VoteChoices,      \* VoteChoices[b]: the possible vote sequences of block b
  TicketsPerBlock,  \* the 5 of the panic check in InsertVotes
  MaxCrashes        \* process stops in a behaviour (model bound)

Blocks == 1..NumBlocks

ASSUME NumBlocks \in Nat /\ TicketsPerBlock \in Nat /\ MaxCrashes \in Nat
ASSUME \A b \in Blocks : Purchases[b] \subseteq Tickets
                         /\ VoteChoices[b] \subseteq Seq(Tickets)

PoolStatuses == {"Live", "Voted", "Missed"}
SpendTypes == {"Unspent", "Voted"}

TicketRow == [present : BOOLEAN, status : PoolStatuses, spend : SpendTypes]
NoTicketRow == [present |-> FALSE, status |-> "Live", spend |-> "Unspent"]

Phases == {"block", "tickets", "votes", "spending", "missStatus", "done",
           "panicked"}

VARIABLES
  votes,       \* votes[b]: block b's votes as fetched from the node
  blockRows,   \* blocks table: the heights with a main chain row
  ticketRows,  \* tickets table, by ticket
  voteRows,    \* votes table: voteRows[b] the tickets b's vote rows spend
  missRows,    \* misses table: missRows[b] the tickets b missed
  missList,    \* the misses InsertVotes returned for the block in hand
  cur,         \* the block being stored
  phase,       \* the step of the store sequence cur is at
  crashes

vars == <<votes, blockRows, ticketRows, voteRows, missRows, missList, cur,
          phase, crashes>>

-----------------------------------------------------------------------------
(* Miss accounting in InsertVotes: misses starts as a copy of Validators  *)
(* and, for each vote in block order, the first entry equal to the spent *)
(* ticket is overwritten with the last entry and the slice shortened.     *)

\* Mutant: the slice is shortened without moving the last entry down.
RemoveSpent_noSwap(ms, h) ==
  IF h \in Range(ms) THEN SubSeq(ms, 1, Len(ms) - 1) ELSE ms

RemoveSpent(ms, h) ==
  IF h \in Range(ms)
    THEN LET i == CHOOSE i \in DOMAIN ms :
                    ms[i] = h /\ \A j \in 1..(i - 1) : ms[j] # h
         IN  SubSeq([ms EXCEPT ![i] = ms[Len(ms)]], 1, Len(ms) - 1)
    ELSE ms

Misses(validators, vs) == FoldLeft(RemoveSpent, validators, vs)

\* Mutant: the block's validators are handed on as the spent tickets.
SpentTickets_validators(b) == Range(Validators[b])

(* spentTicketHashes: the stake submission of every vote of block b. *)
SpentTickets(b) == Range(votes[b])

-----------------------------------------------------------------------------

(* InsertBlock of the node's block cur, checked: its row is added, or    *)
(* the existing row kept.                                                  *)
InsertBlock ==
  /\ phase = "block"
  /\ \E vs \in VoteChoices[cur] : votes' = [votes EXCEPT ![cur] = vs]
  /\ blockRows' = blockRows \cup {cur}
  /\ phase' = "tickets"
  /\ UNCHANGED <<ticketRows, voteRows, missRows, missList, cur, crashes>>

(* InsertTickets: every ticket purchase of the block, with spend type     *)
(* TicketUnspent and pool status PoolStatusLive; on conflict the existing *)
(* row is kept.                                                            *)
InsertTickets ==
  /\ phase = "tickets"
  /\ ticketRows' = [t \in Tickets |->
                      IF t \in Purchases[cur] /\ ~ticketRows[t].present
                        THEN [present |-> TRUE, status |-> "Live",
                              spend |-> "Unspent"]
                        ELSE ticketRows[t]]
  /\ phase' = "votes"
  /\ UNCHANGED <<votes, blockRows, voteRows, missRows, missList, cur, crashes>>

(* InsertVotes: no vote transactions, return before the database         *)
(* transaction; otherwise insert a vote row per vote, panic (rolling back) *)
(* if the validators are known and votes + misses != 5, else insert the   *)
(* misses and commit.                                                      *)
InsertVotes ==
  /\ phase = "votes"
  /\ LET vs == votes[cur]
         ms == Misses(Validators[cur], vs)
     IN  \/ /\ vs = <<>>
            /\ missList' = {}
            /\ phase' = "spending"
            /\ UNCHANGED <<voteRows, missRows>>
         \/ /\ vs # <<>>
            /\ IF Validators[cur] # <<>> /\ Len(vs) + Len(ms) # TicketsPerBlock
                 THEN /\ phase' = "panicked"
                      /\ UNCHANGED <<voteRows, missRows, missList>>
                 ELSE /\ voteRows' = [voteRows EXCEPT ![cur] = @ \cup Range(vs)]
                      /\ missRows' = [missRows EXCEPT ![cur] = @ \cup Range(ms)]
                      /\ missList' = Range(ms)
                      /\ phase' = "spending"
  /\ UNCHANGED <<votes, blockRows, ticketRows, cur, crashes>>

(* SetSpendingForTickets for the spent tickets: spend type Voted and pool *)
(* status Voted; a ticket with no row only logs a warning.                 *)
SetSpendingForTickets ==
  /\ phase = "spending"
  /\ ticketRows' = [t \in Tickets |->
                      IF t \in SpentTickets(cur) /\ ticketRows[t].present
                        THEN [ticketRows[t] EXCEPT !.status = "Voted",
                                                   !.spend = "Voted"]
                        ELSE ticketRows[t]]
  /\ phase' = "missStatus"
  /\ UNCHANGED <<votes, blockRows, voteRows, missRows, missList, cur, crashes>>

(* The block is stored: go on to the next block of the node's chain. *)
NextBlock ==
  /\ cur' = cur + 1
  /\ phase' = IF cur = NumBlocks THEN "done" ELSE "block"

(* SetPoolStatusForTicketsByHash for the misses, pool status Missed; with *)
(* no misses it returns at once.                                           *)
SetPoolStatusForTicketsByHash ==
  /\ phase = "missStatus"
  /\ ticketRows' = [t \in Tickets |->
                      IF t \in missList /\ ticketRows[t].present
                        THEN [ticketRows[t] EXCEPT !.status = "Missed"]
                        ELSE ticketRows[t]]
  /\ NextBlock
  /\ UNCHANGED <<votes, blockRows, voteRows, missRows, missList, crashes>>

\* Mutant: the resume height is taken one block too high.
BestBlockHeight_plusOne ==
  IF blockRows = {} THEN 1
  ELSE (CHOOSE h \in blockRows : \A g \in blockRows : g <= h) + 1

(* RetrieveBestBlockHeight: the highest main chain block row, 0 (genesis) *)
(* if there is none.                                                       *)
BestBlockHeight ==
  IF blockRows = {} THEN 0
  ELSE CHOOSE h \in blockRows : \A g \in blockRows : g <= h

(* The process stops between two committed steps (or panicked) and is     *)
(* restarted: the sync resumes at the block above the best block.         *)
CrashRestart ==
  /\ phase # "done"
  /\ crashes < MaxCrashes
  /\ crashes' = crashes + 1
  /\ cur' = BestBlockHeight + 1
  /\ phase' = IF BestBlockHeight = NumBlocks THEN "done" ELSE "block"
  /\ missList' = {}
  /\ UNCHANGED <<votes, blockRows, ticketRows, voteRows, missRows>>

-----------------------------------------------------------------------------

Init ==
  /\ votes = [b \in Blocks |-> <<>>]
  /\ blockRows = {}
  /\ ticketRows = [t \in Tickets |-> NoTicketRow]
  /\ voteRows = [b \in Blocks |-> {}]
  /\ missRows = [b \in Blocks |-> {}]
  /\ missList = {}
  /\ cur = 1
  /\ phase = "block"
  /\ crashes = 0

Next ==
  \/ InsertBlock \/ InsertTickets \/ InsertVotes
  \/ SetSpendingForTickets \/ SetPoolStatusForTicketsByHash
  \/ CrashRestart

Spec == Init /\ [][Next]_vars

-----------------------------------------------------------------------------

TypeOK ==
  /\ votes \in [Blocks -> Seq(Tickets)]
  /\ blockRows \subseteq Blocks
  /\ ticketRows \in [Tickets -> TicketRow]
  /\ voteRows \in [Blocks -> SUBSET Tickets]
  /\ missRows \in [Blocks -> SUBSET Tickets]
  /\ missList \subseteq Tickets
  /\ cur \in 1..(NumBlocks + 1)
  /\ phase \in Phases
  /\ crashes \in 0..MaxCrashes

(* Miss accounting (spec section 3 and the panic in InsertVotes): the     *)
(* store never panics, and every block with vote rows and validators has  *)
(* exactly TicketsPerBlock votes and misses together, its misses being    *)
(* the validators that did not vote, whatever order the votes come in.    *)
MissAccounting ==
  /\ phase # "panicked"
  /\ \A b \in Blocks :
       voteRows[b] # {} /\ Validators[b] # <<>> =>
         /\ Cardinality(voteRows[b]) + Cardinality(missRows[b])
              = TicketsPerBlock
         /\ missRows[b] = Range(Validators[b]) \ voteRows[b]

(* The pool status the chain gives ticket t after the blocks below h. *)
ChainStatus(t, h) ==
  IF \E b \in 1..(h - 1) : t \in Range(votes[b]) THEN "Voted"
  ELSE IF \E b \in 1..(h - 1) : t \in Range(Validators[b]) THEN "Missed"
  ELSE "Live"

(* Ticket lifecycle (spec section 4.3.6, scenario 1): whenever the sync   *)
(* is about to fetch a block, every ticket bought below it has a row, and *)
(* its pool status and spend type are those the chain below gives it.     *)
TicketStatusMatchesChain ==
  phase \in {"block", "done"} =>
    \A b \in 1..(cur - 1), t \in Tickets :
      t \in Purchases[b] =>
        /\ ticketRows[t].present
        /\ ticketRows[t].status = ChainStatus(t, cur)
        /\ (ticketRows[t].spend = "Voted") <=> (ChainStatus(t, cur) = "Voted")

(* Whatever process stops happen between the per-block commits, a ticket  *)
(* row that records a vote or a miss is right about it: its pool status   *)
(* is the one the stored blocks give it, and its spend type is Voted      *)
(* exactly when its pool status is.                                        *)
SpentStatusNeverWrong ==
  \A t \in Tickets :
    ticketRows[t].present /\ ticketRows[t].status # "Live" =>
      /\ ticketRows[t].status = ChainStatus(t, BestBlockHeight + 1)
      /\ (ticketRows[t].spend = "Voted") <=> (ticketRows[t].status = "Voted")

=============================================================================
