---------------------------- MODULE InsightBlocks ----------------------------
(***************************************************************************)
(* The Insight API's block summaries of one day, getBlockSummaryByTime    *)
(* (src/unnamed/part_002, package insight): the date of the request, or   *)
(* today's when it is empty, is parsed into the day's first and last      *)
(* second; ChainDB.BlockSummaryTimeRange returns the day's blocks; with a *)
(* positive limit the page is cut after `limit` blocks, More set when a   *)
(* block is left over and MoreTs lowered to the oldest block time of the  *)
(* page, while with no limit the whole day is returned with MoreTs the    *)
(* day's first second.                                                     *)
(*                                                                         *)
(* A day is a number and a time a number of seconds; a date string is a   *)
(* day, the empty string (EmptyDate) or one time.Parse rejects (BadDate).  *)
(***************************************************************************)
EXTENDS Integers, SequencesExt

CONSTANTS
  Days,          \* the days a request may name
  Today,         \* time.Now().UTC()'s day
  EmptyDate,     \* the empty blockDate
  BadDate,       \* a date string time.Parse rejects
  DayLength,     \* seconds in a day
  Summaries,     \* the blocks of the store
  BlockTime,     \* BlockTime[s]: the block's time, in seconds
  Limits,        \* the limits GetLimitCtx may give
  FailOps        \* the ways BlockSummaryTimeRange may fail in this model

ASSUME Today \in Days /\ {EmptyDate, BadDate} \cap Days = {}
ASSUME DayLength \in Nat \ {0}
ASSUME BlockTime \in [Summaries -> Nat] /\ Limits \subseteq Int
ASSUME FailOps \subseteq {"dbTimeout", "dbError"}

VARIABLES
  bsReq,   \* the request: [date, limit]
  bsPc,
  bsOut    \* what is written: the status and the summary output

bsVars == <<bsReq, bsPc, bsOut>>

NoDay == -1

NoOutput == [status |-> "none", blocks |-> <<>>, more |-> FALSE, moreTs |-> 0,
             isToday |-> FALSE, current |-> NoDay, next |-> NoDay,
             prev |-> NoDay, length |-> 0]

(* The day's first and last second: minDate and maxDate as Unix times. *)
MinTime(d) == d * DayLength
MaxTime(d) == d * DayLength + DayLength - 1

(* BlockSummaryTimeRange(minTime, maxTime, 0): the blocks of the day,     *)
(* newest first; blocks of the same second may come in either order.      *)
DayRows(d) ==
  LET S == {s \in Summaries : BlockTime[s] \in MinTime(d)..MaxTime(d)}
  IN  {r \in [1..Cardinality(S) -> S] :
         /\ IsInjective(r)
         /\ \A i \in 1..(Len(r) - 1) : BlockTime[r[i]] >= BlockTime[r[i + 1]]}

\* Mutant: the loop stops one block late (`if i > limit`).
PageStep_offByOne(limit, acc, s) ==
  IF acc.stop THEN acc
  ELSE IF Len(acc.blocks) > limit
    THEN [acc EXCEPT !.more = TRUE, !.stop = TRUE]
  ELSE [acc EXCEPT !.blocks = Append(@, s),
                   !.moreTs = IF BlockTime[s] < @ THEN BlockTime[s] ELSE @]

(* One iteration of `for i, block := range blockSummary`; i is the number *)
(* of blocks appended so far, as every iteration before the break appends. *)
PageStep(limit, acc, s) ==
  IF acc.stop THEN acc
  ELSE IF Len(acc.blocks) >= limit
    THEN [acc EXCEPT !.more = TRUE, !.stop = TRUE]
  ELSE [acc EXCEPT !.blocks = Append(@, s),
                   !.moreTs = IF BlockTime[s] < @ THEN BlockTime[s] ELSE @]

(* The pagination of the handler: the loop with a positive limit, the     *)
(* whole day otherwise.                                                    *)
Paginate(rows, limit, d) ==
  IF limit > 0
    THEN LET acc == FoldLeft(LAMBDA a, s : PageStep(limit, a, s),
                             [blocks |-> <<>>, more |-> FALSE,
                              moreTs |-> MaxTime(d), stop |-> FALSE],
                             rows)
         IN  [blocks |-> acc.blocks, more |-> acc.more, moreTs |-> acc.moreTs]
    ELSE [blocks |-> rows, more |-> FALSE, moreTs |-> MinTime(d)]

-----------------------------------------------------------------------------

(* The blockDate: empty means today; time.Parse of "<date> 00:00:00" and  *)
(* of "<date> 23:59:59" fails on a bad date and the handler writes the   *)
(* error.                                                                  *)
ParseDate ==
  /\ bsPc = "parse"
  /\ \/ /\ bsReq.date = BadDate
        /\ bsOut' = [NoOutput EXCEPT !.status = "insightError"]
        /\ bsPc' = "done"
     \/ /\ bsReq.date # BadDate
        /\ LET d == IF bsReq.date = EmptyDate THEN Today ELSE bsReq.date
           IN  bsOut' = [NoOutput EXCEPT !.isToday = (d = Today),
                                         !.current = d, !.next = d + 1,
                                         !.prev = d - 1]
        /\ bsPc' = "query"
  /\ UNCHANGED bsReq

(* BlockSummaryTimeRange times out (503), fails (error written), or       *)
(* returns the day's blocks, which are paginated and written.             *)
QueryDay ==
  /\ bsPc = "query"
  /\ LET d == bsOut.current
     IN  \/ /\ "dbTimeout" \in FailOps
            /\ bsOut' = [NoOutput EXCEPT !.status = "unavailable"]
         \/ /\ "dbError" \in FailOps
            /\ bsOut' = [NoOutput EXCEPT !.status = "insightError"]
         \/ \E rows \in DayRows(d) :
              LET p == Paginate(rows, bsReq.limit, d)
              IN  bsOut' = [bsOut EXCEPT !.status = "ok", !.blocks = p.blocks,
                                         !.more = p.more, !.moreTs = p.moreTs,
                                         !.length = Len(p.blocks)]
  /\ bsPc' = "done"
  /\ UNCHANGED bsReq

BSInit ==
  /\ bsReq \in [date : Days \cup {EmptyDate, BadDate}, limit : Limits]
  /\ bsPc = "parse"
  /\ bsOut = NoOutput

BSNext == ParseDate \/ QueryDay

BSTypeOK ==
  /\ bsReq \in [date : Days \cup {EmptyDate, BadDate}, limit : Limits]
  /\ bsPc \in {"parse", "query", "done"}
  /\ bsOut.status \in {"none", "ok", "unavailable", "insightError"}
  /\ bsOut.blocks \in Seq(Summaries)

-----------------------------------------------------------------------------

(* A page of a day's summaries, for the pagination Insight clients use:   *)
(* with a positive limit, the first `limit` blocks of the day, newest     *)
(* first, More exactly when the day has more, and MoreTs the time of the  *)
(* page's last (oldest) block, or the day's last second for an empty      *)
(* page; with no limit, the whole day from its first second.  Length     *)
(* counts the blocks written.                                              *)
SummaryPageMatchesReference ==
  bsOut.status = "ok" =>
    LET d == bsOut.current
        dayBlocks == {s \in Summaries :
                        BlockTime[s] \in MinTime(d)..MaxTime(d)}
        lim == bsReq.limit
        n == IF lim > 0 /\ lim < Cardinality(dayBlocks)
               THEN lim ELSE Cardinality(dayBlocks)
    IN  /\ Len(bsOut.blocks) = n /\ bsOut.length = n
        /\ IsInjective(bsOut.blocks)
        /\ Range(bsOut.blocks) \subseteq dayBlocks
        /\ \A s \in dayBlocks \ Range(bsOut.blocks), i \in 1..n :
             BlockTime[s] <= BlockTime[bsOut.blocks[i]]
        /\ bsOut.more = (lim > 0 /\ Cardinality(dayBlocks) > lim)
        /\ bsOut.moreTs = IF lim <= 0 THEN MinTime(d)
                          ELSE IF n = 0 THEN MaxTime(d)
                          ELSE BlockTime[bsOut.blocks[n]]

=============================================================================
