---------------------------- MODULE AccountCache ----------------------------
(***************************************************************************)
(* The account transaction cache: a goroutine fetches one block after the  *)
(* other from the node, and writes the number of the block, the pages of   *)
(* the accounts in it and, with the extended APIs, a running summary of    *)
(* the chain, in one batch.  A block that fails is tried again; a restart  *)
(* goes on from what the database holds.                                   *)
(*                                                                         *)
(* Of the summary the block number and the sum of the rewards are kept:    *)
(* the other sums are formed in the same way.                              *)
(***************************************************************************)
EXTENDS Integers, Sequences, FiniteSetsExt

CONSTANTS
    Users,           \* the accounts
    None,            \* the receiver of a transaction that creates a contract
    Blocks,          \* the blocks that occur
    PageSize,
    MaxBlocks        \* bound on the number of blocks

ASSUME CacheAssumption ==
    /\ PageSize \in Nat \ {0, 1}
    /\ MaxBlocks \in Nat
    /\ None \notin Users
    /\ Blocks \subseteq [txns : Seq([from : Users, to : Users \cup {None}]),
                        reward : Nat]

VARIABLES
    enableExtendedApis,  \* a setting of the process
    chain,           \* the blocks of the node, from block 1 on
    lastBlock,       \* LastBlockKey of the database; 0 if there is none
    txnCount,        \* AccountTxnCountKey, for each account
    pages,           \* AccountTransactionPageKey, by account and page number
    summary,         \* SummaryKey
    blockNumber,     \* the loop variable of start
    runningSummary   \* the summary in memory

db == <<lastBlock, txnCount, pages, summary>>
vars == <<enableExtendedApis, chain, db, blockNumber, runningSummary>>

EmptySummary == [blockNumber |-> 0, rewards |-> 0]

Init ==
    /\ enableExtendedApis \in BOOLEAN
    /\ chain = <<>>
    /\ lastBlock = 0
    /\ txnCount = [a \in Users |-> 0]
    /\ pages = [a \in Users |-> <<>>]
    /\ summary = EmptySummary
    /\ blockNumber = 0
    /\ runningSummary = EmptySummary

-----------------------------------------------------------------------------

\* liveAccountMap: the transactions of block n in which an account takes part, each
\* of them by the number of its block and its place in the block.
liveAccountMap(n, a) ==
    LET txns == chain[n].txns
        list[i \in 0 .. Len(txns)] ==
            IF i = 0 THEN <<>>
            ELSE IF a \in {txns[i].from, txns[i].to} THEN Append(list[i - 1], <<n, i>>)
            ELSE list[i - 1]
    IN list[Len(txns)]

getPageCount(count) ==
    IF count % PageSize = 0 THEN count \div PageSize ELSE count \div PageSize + 1

\* The page that the next transaction of an account goes to, newest first.
OpenPage(a) ==
    IF (txnCount[a] + 1) % PageSize = 1 THEN <<>>
    ELSE pages[a][getPageCount(txnCount[a] + 1)]

\* The checks of a page that was loaded.
PageLoads(a) ==
    (txnCount[a] + 1) % PageSize # 1 =>
        /\ getPageCount(txnCount[a] + 1) \in DOMAIN pages[a]
        /\ Len(OpenPage(a)) = txnCount[a] % PageSize

\* Mutant of NewestFirst: new transactions go to the end of a page.
NewestLast(txn, page) == Append(page, txn)

NewestFirst(txn, page) ==
    <<txn>> \o page

\* Mutant of PutsPage: pages are put at the end only.
PutsPageOnce(page, i, txnList) == i = Len(txnList)

\* A page is put when it is full, and at the end.
PutsPage(page, i, txnList) ==
    Len(page) = PageSize \/ i = Len(txnList)

\* A page of an account is put in the batch.
Put(book, p, page) ==
    [q \in DOMAIN book \cup {p} |-> IF q = p THEN page ELSE book[q]]

\* The loop, after the i-th transaction: the page in memory, and the pages as they
\* will be when the batch is written.
AfterTransaction(a, txnList, i, before) ==
    LET page == NewestFirst(txnList[i], before.page)
    IN IF PutsPage(page, i, txnList)
       THEN [page |-> <<>>, book |-> Put(before.book, getPageCount(txnCount[a] + i), page)]
       ELSE [page |-> page, book |-> before.book]

\* The pages of an account after the transactions of a block.
processAccountTransactions(a, txnList) ==
    LET done[i \in 0 .. Len(txnList)] ==
            IF i = 0 THEN [page |-> OpenPage(a), book |-> pages[a]]
            ELSE AfterTransaction(a, txnList, i, done[i - 1])
    IN done[Len(txnList)].book

\* The accounts of block n.
Involved(n) == {a \in Users : liveAccountMap(n, a) # <<>>}

\* Mutant of SummaryExpects: the number of the summary is not compared.
SummaryExpectsAny(n) == TRUE

\* The check at the start of updateSummary.
SummaryExpects(n) ==
    n = runningSummary.blockNumber + 1

\* The summary in memory is updated in place.
UpdatedSummary(n) ==
    [blockNumber |-> n, rewards |-> runningSummary.rewards + chain[n].reward]

\* Mutant of BlockByNumber: a block is taken when it has a successor.
BlockByNumberWithSuccessor(n) == n < Len(chain)

\* The node has the block.
BlockByNumber(n) ==
    n <= Len(chain)

-----------------------------------------------------------------------------

NewBlock ==
    /\ Len(chain) < MaxBlocks
    /\ \E b \in Blocks : chain' = Append(chain, b)
    /\ UNCHANGED <<enableExtendedApis, db, blockNumber, runningSummary>>

\* processByCacheManager succeeds, and the loop goes on to the next block.
ProcessBlock ==
    LET n == blockNumber + 1
    IN /\ BlockByNumber(n)
       /\ \A a \in Involved(n) : PageLoads(a)
       /\ enableExtendedApis => SummaryExpects(n)
       /\ lastBlock' = n
       /\ pages' = [a \in Users |-> IF a \in Involved(n)
                                    THEN processAccountTransactions(a, liveAccountMap(n, a))
                                    ELSE pages[a]]
       /\ txnCount' = [a \in Users |-> txnCount[a] + Len(liveAccountMap(n, a))]
       /\ IF enableExtendedApis
          THEN /\ runningSummary' = UpdatedSummary(n)
               /\ summary' = UpdatedSummary(n)
          ELSE UNCHANGED <<runningSummary, summary>>
       /\ blockNumber' = n
       /\ UNCHANGED <<enableExtendedApis, chain>>

\* A call of the node after the summary in memory was updated fails (BalanceAt),
\* or the batch cannot be written; the loop will try the same block again.  A
\* failure before that changes nothing at all.
ProcessFails ==
    LET n == blockNumber + 1
    IN /\ enableExtendedApis
       /\ BlockByNumber(n)
       /\ \A a \in Involved(n) : PageLoads(a)
       /\ SummaryExpects(n)
       /\ runningSummary' = UpdatedSummary(n)
       /\ UNCHANGED <<enableExtendedApis, chain, db, blockNumber>>

\* The process stops, at any time, and is started again.
Restart ==
    /\ blockNumber' = lastBlock
    /\ runningSummary' = IF lastBlock = 0 THEN EmptySummary ELSE summary
    /\ UNCHANGED <<enableExtendedApis, chain, db>>

Next == NewBlock \/ ProcessBlock \/ ProcessFails \/ Restart

Spec == Init /\ [][Next]_vars

\* The loop runs on a timer, and errors of the node pass.
FairSpec == Spec /\ WF_vars(ProcessBlock)

-----------------------------------------------------------------------------
(* Properties. *)

\* The transactions of an account, oldest first: where a reader of its pages finds
\* the j-th one.
Listed(a) ==
    [j \in 1 .. txnCount[a] |->
        LET page == pages[a][(j - 1) \div PageSize + 1]
        IN page[Len(page) - ((j - 1) % PageSize)]]

History == INSTANCE AccountHistory WITH last <- lastBlock,
                                        history <- [a \in Users |-> Listed(a)]

\* The pages of an account hold the transactions of all blocks so far, each of
\* them once and in order, whichever calls fail and whenever the process stops:
\* the cache implements AccountHistory.
ImplementsHistory == History!Spec

\* ListTransactionByAccount finds every page: there are as many as it computes
\* from the number of transactions, all of them full but the last one, also when
\* that number is a multiple of the page size or a block fills several pages.
PagesFound ==
    \A a \in Users :
        /\ DOMAIN pages[a] = 1 .. getPageCount(txnCount[a])
        /\ \A p \in DOMAIN pages[a] :
              IF p <= txnCount[a] \div PageSize THEN Len(pages[a][p]) = PageSize
              ELSE Len(pages[a][p]) = txnCount[a] % PageSize

\* The rewards of the first n blocks.
RewardsUpTo(n) ==
    LET reward == [i \in DOMAIN chain |-> chain[i].reward]
    IN MapThenSumSet(LAMBDA i : reward[i], 1 .. n)

\* The summary that is served is that of the last recorded block: a block that is
\* tried again, in the same process or after a restart, is not added twice.
SummaryExact ==
    enableExtendedApis =>
        summary = [blockNumber |-> lastBlock, rewards |-> RewardsUpTo(lastBlock)]

\* Every block of the node is recorded in the end, whenever the process stops; except
\* that a call that fails late leaves the summary in memory one block ahead, and the
\* check in updateSummary then refuses every retry until the process is restarted.
CatchesUp ==
    \A n \in 1 .. MaxBlocks :
        Len(chain) >= n ~> \/ lastBlock >= n
                           \/ enableExtendedApis /\ ~SummaryExpects(blockNumber + 1)
=============================================================================
