--------------------------- MODULE ClaimedRewards ----------------------------
(* services/crawl-account-info/crawl-account-claimed-rewards.service.ts: the    *)
(* rewards that the transactions of a job paid are added to what the accounts  *)
(* have claimed so far, in memory; then all the accounts are written.  A job   *)
(* that fails after some of the writes is tried again from the start.          *)
EXTENDS Naturals, Sequences

CONSTANTS
    Delegators,
    ClaimTxs,           \* ClaimTxs[j]: the transactions of job j, a sequence of ClaimTx
    ClaimWorkers,       \* jobs that may run at a time (CONCURRENCY_ACCOUNT_CLAIMED_REWARDS)
    ClaimAttempts,      \* BULL_JOB_ATTEMPT
    MaxFailures         \* bound: failing calls, and crashes

Claim == {"delegate", "redelegate", "undelegate", "withdraw", "exec"}

\* rewards[i] is what log i pays: one amount a validator.
ClaimTx == [ok : BOOLEAN,
            msgs : Seq([type : Claim \union {"other"}, from : Delegators]),
            rewards : Seq(Seq(Nat))]

\* Jobs have the numbers that Bull counts.
Jobs == DOMAIN ClaimTxs

\* Every message has its log.
ASSUME ClaimsAssumption ==
    /\ ClaimTxs \in Seq(Seq(ClaimTx))
    /\ \A j \in Jobs : \A i \in DOMAIN ClaimTxs[j] :
          Len(ClaimTxs[j][i].rewards) = Len(ClaimTxs[j][i].msgs)
    /\ ClaimAttempts \in Nat \ {0}
    /\ MaxFailures \in Nat

VARIABLES
    claimed,            \* claimed[d]: account_claimed_rewards, summed over the validators
    left,               \* left[j]: attempts job j has left
    claimWorker,        \* claimWorker[w]: its job, the claims handled, and the accounts in memory
    writing,            \* writing[w]: accounts whose update is awaited
    settled,            \* settled[j]: "no", "done" or "failed"
    claimFailures

rewardVars == <<claimed, left, claimWorker, writing, settled, claimFailures>>

Nobody == [d \in {} |-> 0]
Free == [job |-> {}, at |-> 0, mem |-> Nobody]

ClaimsInit ==
    /\ claimed = [d \in Delegators |-> 0]
    /\ left = [j \in Jobs |-> ClaimAttempts]
    /\ claimWorker = [w \in ClaimWorkers |-> Free]
    /\ writing = [w \in ClaimWorkers |-> {}]
    /\ settled = [j \in Jobs |-> "no"]
    /\ claimFailures = 0

\* The sums of the first elements of a list of numbers.
SumsOf(list) ==
    LET sum[n \in 0 .. Len(list)] == IF n = 0 THEN 0 ELSE sum[n - 1] + list[n]
    IN sum

Sum(list) == SumsOf(list)[Len(list)]

\* What a message takes from a log: the first amount, a redelegation also the second.
Amount(type, rewards) ==
    (IF rewards = <<>> THEN 0 ELSE rewards[1])
        + (IF type = "redelegate" /\ Len(rewards) > 1 THEN rewards[2] ELSE 0)

\* The claims among the first messages of a transaction, each with the log it reads:
\* that at its position among the claims, not among the messages.
ClaimsAmong(tx) ==
    LET claims[n \in 0 .. Len(tx.msgs)] ==
            IF n = 0 THEN <<>>
            ELSE IF tx.msgs[n].type \in Claim
                 THEN Append(claims[n - 1],
                             [type |-> tx.msgs[n].type, from |-> tx.msgs[n].from,
                              rewards |-> tx.rewards[Len(claims[n - 1]) + 1]])
                 ELSE claims[n - 1]
    IN claims

ClaimsOf(tx) == IF tx.ok THEN ClaimsAmong(tx)[Len(tx.msgs)] ELSE <<>>

\* The claims of the first transactions of a job, and of all.
ClaimsIn(txs) ==
    LET claims[n \in 0 .. Len(txs)] ==
            IF n = 0 THEN <<>> ELSE claims[n - 1] \o ClaimsOf(txs[n])
    IN claims

Claims == [j \in Jobs |-> ClaimsIn(ClaimTxs[j])[Len(ClaimTxs[j])]]

ClaimBusy(w) == claimWorker[w].job # {}

JobAt(w) == CHOOSE j \in Jobs : claimWorker[w].job = {j}

StartClaims(w, j) ==
    /\ ~ClaimBusy(w)
    /\ settled[j] = "no" /\ left[j] > 0
    /\ \A v \in ClaimWorkers : claimWorker[v].job # {j}
    /\ claimWorker' = [claimWorker EXCEPT ![w] = [job |-> {j}, at |-> 1, mem |-> Nobody]]
    /\ left' = [left EXCEPT ![j] = @ - 1]
    /\ UNCHANGED <<claimed, writing, settled, claimFailures>>

\* The attempt fails.  The updates that are still under way are taken to land, or to
\* be lost, before another job starts; the next attempt waits BULL_JOB_BACKOFF.
Fail(w) ==
    /\ claimWorker' = [claimWorker EXCEPT ![w] = Free]
    /\ writing' = [writing EXCEPT ![w] = {}]
    /\ settled' = IF left[JobAt(w)] = 0 THEN [settled EXCEPT ![JobAt(w)] = "failed"] ELSE settled

\* The claim it is at.
ClaimAt(w) == Claims[JobAt(w)][claimWorker[w].at]

\* The memory with a new sum of an account.
Put(mem, d, sum) == [x \in DOMAIN mem \union {d} |-> IF x = d THEN sum ELSE mem[x]]

\* Variant for the mutants: the accounts of the memory are found again.
HandleFoundReward(w) ==
    LET claim == ClaimAt(w)
    IN /\ ClaimBusy(w) /\ claimWorker[w].at <= Len(Claims[JobAt(w)])
       /\ claim.type # "exec"
       /\ claimWorker' = [claimWorker EXCEPT ![w] = [job |-> @.job, at |-> @.at + 1,
              mem |-> Put(@.mem, claim.from, claimed[claim.from] + Amount(claim.type, claim.rewards))]]
       /\ UNCHANGED <<claimed, left, writing, settled, claimFailures>>

\* A claim is added to its account, which is found when it is met first.  An exec
\* message is iterated over, which throws: it is no list.
HandleStakeRewards(w) ==
    LET claim  == ClaimAt(w)
        before == IF claim.from \in DOMAIN claimWorker[w].mem
                  THEN claimWorker[w].mem[claim.from] ELSE claimed[claim.from]
    IN /\ ClaimBusy(w) /\ claimWorker[w].at <= Len(Claims[JobAt(w)])
       /\ IF claim.type = "exec"
          THEN Fail(w)
          ELSE /\ claimWorker' = [claimWorker EXCEPT ![w] = [job |-> @.job, at |-> @.at + 1,
                     mem |-> Put(@.mem, claim.from, before + Amount(claim.type, claim.rewards))]]
               /\ UNCHANGED <<writing, settled>>
       /\ UNCHANGED <<claimed, left, claimFailures>>

\* All the updates are asked for, then awaited; a job without claims is complete.
WriteAll(w) ==
    /\ ClaimBusy(w) /\ claimWorker[w].at = Len(Claims[JobAt(w)]) + 1
    /\ writing' = [writing EXCEPT ![w] = DOMAIN claimWorker[w].mem]
    /\ claimWorker' = [claimWorker EXCEPT ![w].at = @ + 1]
    /\ UNCHANGED <<claimed, left, settled, claimFailures>>

WriteLands(w, d) ==
    /\ d \in writing[w]
    /\ claimed' = [claimed EXCEPT ![d] = claimWorker[w].mem[d]]
    /\ writing' = [writing EXCEPT ![w] = @ \ {d}]
    /\ UNCHANGED <<left, claimWorker, settled, claimFailures>>

Complete(w) ==
    /\ ClaimBusy(w) /\ claimWorker[w].at > Len(Claims[JobAt(w)]) + 1
    /\ writing[w] = {}
    /\ settled' = [settled EXCEPT ![JobAt(w)] = "done"]
    /\ claimWorker' = [claimWorker EXCEPT ![w] = Free]
    /\ UNCHANGED <<claimed, left, writing, claimFailures>>

\* A call of the database fails, or the process dies; some updates may have landed.
ClaimsFail(w) ==
    /\ ClaimBusy(w)
    /\ claimFailures < MaxFailures
    /\ claimFailures' = claimFailures + 1
    /\ Fail(w)
    /\ UNCHANGED <<claimed, left>>

ClaimsNext ==
    \E w \in ClaimWorkers :
        \/ \E j \in Jobs : StartClaims(w, j)
        \/ HandleStakeRewards(w)
        \/ WriteAll(w)
        \/ \E d \in Delegators : WriteLands(w, d)
        \/ Complete(w)
        \/ ClaimsFail(w)

ClaimsSpec == ClaimsInit /\ [][ClaimsNext]_rewardVars

\* Bull hands out the jobs, and what the handler awaits is answered.
ClaimsFairness ==
    \A w \in ClaimWorkers :
        /\ WF_rewardVars(\E j \in Jobs : StartClaims(w, j))
        /\ WF_rewardVars(HandleStakeRewards(w) \/ WriteAll(w) \/ Complete(w))
        /\ WF_rewardVars(\E d \in Delegators : WriteLands(w, d))

-----------------------------------------------------------------------------
\* Sums, attempts, and updates of accounts that are in memory.
ClaimsTypeOK ==
    /\ claimed \in [Delegators -> Nat]
    /\ left \in [Jobs -> 0 .. ClaimAttempts]
    /\ \A w \in ClaimWorkers : writing[w] \subseteq DOMAIN claimWorker[w].mem

\* What the chain paid a delegator with the claims of a transaction, where message n
\* is paid by log n, and with those of a job.
TxPaid(tx, d) ==
    Sum([n \in DOMAIN tx.msgs |->
            IF tx.ok /\ tx.msgs[n].from = d /\ tx.msgs[n].type \in Claim
            THEN Amount(tx.msgs[n].type, tx.rewards[n]) ELSE 0])

Paid == [j \in Jobs |-> [d \in Delegators |->
            Sum([i \in DOMAIN ClaimTxs[j] |-> TxPaid(ClaimTxs[j][i], d)])]]

\* Transactions whose claims come first: there the position among the claims is
\* the position of the log.
ClaimsFirst(tx) ==
    \A n \in DOMAIN tx.msgs : tx.msgs[n].type \in Claim => \A m \in 1 .. n : tx.msgs[m].type \in Claim

LogsAreTheirs == \A j \in Jobs : \A i \in DOMAIN ClaimTxs[j] : ClaimsFirst(ClaimTxs[j][i])

OneWorker == \A v, w \in ClaimWorkers : v = w

\* What the completed jobs saw paid, and what those that were begun did, at each attempt.
CompletedPaid(d) == Sum([j \in Jobs |-> IF settled[j] = "done" THEN Paid[j][d] ELSE 0])

AttemptsPaid(d) ==
    Sum([j \in Jobs |-> IF left[j] < ClaimAttempts THEN (ClaimAttempts - left[j]) * Paid[j][d] ELSE 0])

\* crawl-account-claimed-rewards.service.ts:165: rewards are added to what is there.
\* With one worker, what a completed job saw paid is in the sum of the account.
CompletedIsCounted ==
    OneWorker /\ LogsAreTheirs => \A d \in Delegators : claimed[d] >= CompletedPaid(d)

\* And nothing is counted more often than its job was tried.
CountedByAttempts ==
    LogsAreTheirs => \A d \in Delegators : claimed[d] <= AttemptsPaid(d)

\* A job that was not begun, and one that the first attempt completed.
Untouched(j) == settled[j] = "no" /\ left[j] = ClaimAttempts
AtOnce(j)    == settled[j] = "done" /\ left[j] = ClaimAttempts - 1

\* When no job was tried twice the sums are exact.
ExactWithoutRetries ==
    OneWorker /\ LogsAreTheirs /\ (\A j \in Jobs : Untouched(j) \/ AtOnce(j)) =>
        \A d \in Delegators : claimed[d] = CompletedPaid(d)

\* crawl-account-claimed-rewards.service.ts:74-164: the sums of claimed rewards, with
\* retries after some of the writes: at least what completed jobs saw, at most that for
\* each attempt, exactly that without retries.
RewardsAreCounted ==
    /\ ClaimsTypeOK
    /\ CompletedIsCounted
    /\ CountedByAttempts
    /\ ExactWithoutRetries

\* Every job is done or has failed in the end, also the one with an exec message.
JobsSettle == ClaimsFairness => \A j \in Jobs : <>(settled[j] # "no")
=============================================================================
