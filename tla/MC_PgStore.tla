------------------------------ MODULE MC_PgStore ------------------------------
(***************************************************************************)
(* The PostgreSQL store's address rows (MC_AddressLedger) and stake       *)
(* tables (StakeTables) on their own data.  `which` picks the component a *)
(* behaviour runs; the other's tables stay as they start.                 *)
(*                                                                         *)
(* The stake tables' data: three blocks of a chain with TicketsPerBlock = *)
(* 5.  Block 1 buys six tickets and has no validators (before stake       *)
(* validation), block 2 buys four more and is voted on by three to five   *)
(* of the first five, in every order, and block 3 is voted on by tickets  *)
(* of both earlier blocks.                                                 *)
(***************************************************************************)
EXTENDS MC_AddressLedger, Functions

CONSTANTS t1, t2, t3, t4, t5, t6, t7, t8, t9, t10

VARIABLES which, votes, blockRows, ticketRows, voteRows, missRows, missList,
          stCur, phase, crashes

MCTickets == {t1, t2, t3, t4, t5, t6, t7, t8, t9, t10}

MCPurchases == <<{t1, t2, t3, t4, t5, t6}, {t7, t8, t9, t10}, {}>>

MCValidators == <<<<>>, <<t1, t2, t3, t4, t5>>, <<t6, t7, t8, t9, t10>>>>

(* Every sequence of 3 to 5 distinct tickets of S: a block needs a        *)
(* majority of its 5 validators' votes.                                    *)
OrderedVotes(S) == UNION {{f \in [1..k -> S] : IsInjective(f)} : k \in 3..5}

MCVoteChoices ==
  <<{<<>>},
    OrderedVotes({t1, t2, t3, t4, t5}),
    {<<t8, t6, t10>>, <<t10, t9, t8, t7, t6>>}>>

ST == INSTANCE StakeTables
        WITH Tickets <- MCTickets, NumBlocks <- 3, Purchases <- MCPurchases,
             Validators <- MCValidators, VoteChoices <- MCVoteChoices,
             TicketsPerBlock <- 5, MaxCrashes <- 1, cur <- stCur

stakeVars == <<votes, blockRows, ticketRows, voteRows, missRows, missList,
               stCur, phase, crashes>>

PgInit == which \in {"stake", "address"} /\ Init /\ ST!Init

PgNext ==
  \/ which = "address" /\ Next /\ UNCHANGED <<which, stakeVars>>
  \/ which = "stake" /\ ST!Next /\ UNCHANGED <<which, vars>>

PgSpec == PgInit /\ [][PgNext]_<<which, vars, stakeVars>>

PgTypeOK == TypeOK /\ ST!TypeOK

(* InsertVotes never panics and every block's votes and misses add up to *)
(* its validators (see StakeTables!MissAccounting).                        *)
MissAccounting == ST!MissAccounting

(* A ticket row recording a vote or a miss is right about it, whatever   *)
(* process stops happen (see StakeTables!SpentStatusNeverWrong).           *)
SpentStatusNeverWrong == ST!SpentStatusNeverWrong

(* Every ticket bought below the block being fetched has the chain's      *)
(* status (see StakeTables!TicketStatusMatchesChain).                      *)
TicketStatusMatchesChain == ST!TicketStatusMatchesChain
=============================================================================
