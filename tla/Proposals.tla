------------------------------ MODULE Proposals ------------------------------
(* services/crawl-proposal: crawl.proposal lists the proposals of the chain    *)
(* again and again, and writes their status; for those in the deposit or the   *)
(* voting period it has the deposits or the tally fetched, by jobs that have   *)
(* the proposal for a jobId.  A proposal without enough deposits disappears    *)
(* from the chain, and is closed when the list no longer has it.               *)
EXTENDS Naturals, SequencesExt

CONSTANTS
    Proposals,
    MaxCounted,         \* bound: deposits and votes of a proposal
    MaxCallFails,       \* bound: calls of the LCD that fail
    MaxProposalCrashes, \* bound: deaths of the process
    KeepFailed          \* failed jobs that bull keeps in a queue (10)

ASSUME ProposalsAssumption ==
    /\ {MaxCounted, MaxCallFails, MaxProposalCrashes} \subseteq Nat
    /\ KeepFailed \in Nat \ {0}

CountKinds == {"deposit", "tally"}

NoDoc == [status |-> "none", deposit |-> 0, tally |-> 0]

CountIdle == [state |-> "none", read |-> 0]

VARIABLES
    proposalChain,      \* the status of each proposal, "none" before and "gone" after it
    counted,            \* the deposits and the votes of each
    db,                 \* the collection: the document of each proposal, or NoDoc
    crawl,              \* the job crawl.proposal: [pc, list, known]
    jobs,               \* the job of each kind for each proposal: [state, read]
    failed,             \* the failed jobs of each kind that bull keeps, the oldest first
    callFails, proposalCrashes

proposalVars == <<proposalChain, counted, db, crawl, jobs, failed, callFails, proposalCrashes>>

NoCrawl == [pc |-> "idle", list |-> [p \in Proposals |-> "none"], known |-> [p \in Proposals |-> NoDoc]]

ProposalInit ==
    /\ proposalChain = [p \in Proposals |-> "none"]
    /\ counted = [k \in CountKinds |-> [p \in Proposals |-> 0]]
    /\ db = [p \in Proposals |-> NoDoc]
    /\ crawl = NoCrawl
    /\ jobs = [k \in CountKinds |-> [p \in Proposals |-> CountIdle]]
    /\ failed = [k \in CountKinds |-> <<>>]
    /\ callFails = 0 /\ proposalCrashes = 0

\* The chain: a proposal gets deposits, and then votes or disappears.
Moves == {<<"none", "deposit">>, <<"deposit", "voting">>, <<"deposit", "gone">>, <<"voting", "passed">>}

ChainMoves(p) ==
    /\ \E m \in Moves : proposalChain[p] = m[1] /\ proposalChain' = [proposalChain EXCEPT ![p] = m[2]]
    /\ UNCHANGED <<counted, db, crawl, jobs, failed, callFails, proposalCrashes>>

ChainCounts(p) ==
    /\ \E k \in CountKinds :
          /\ proposalChain[p] = IF k = "deposit" THEN "deposit" ELSE "voting"
          /\ counted[k][p] < MaxCounted
          /\ counted' = [counted EXCEPT ![k][p] = @ + 1]
    /\ UNCHANGED <<proposalChain, db, crawl, jobs, failed, callFails, proposalCrashes>>

-----------------------------------------------------------------------------
Listed(list) == {p \in Proposals : list[p] \notin {"none", "gone"}}

\* The list is fetched, page by page; a page that does not come fails the job.
FetchProposals ==
    /\ crawl.pc = "idle"
    /\ crawl' = [crawl EXCEPT !.pc = "listed", !.list = proposalChain]
    /\ UNCHANGED <<proposalChain, counted, db, jobs, failed, callFails, proposalCrashes>>

\* createJob with the proposal for a jobId: nothing if there is one, failed or not.
Added(k, ps) ==
    [p \in Proposals |-> IF p \in ps /\ jobs[k][p].state = "none"
                         THEN [state |-> "waiting", read |-> 0] ELSE jobs[k][p]]

\* The documents are read; the events make jobs for deposits and tallies.
ReadProposals ==
    /\ crawl.pc = "listed"
    /\ crawl' = [crawl EXCEPT !.pc = "read", !.known = db]
    /\ jobs' = [k \in CountKinds |-> Added(k, {p \in Proposals :
                   crawl.list[p] = IF k = "deposit" THEN "deposit" ELSE "voting"})]
    /\ UNCHANGED <<proposalChain, counted, db, failed, callFails, proposalCrashes>>

\* Variant for the mutants: a document that is there is not updated.
WrittenOnce(p) ==
    IF crawl.known[p] = NoDoc /\ p \in Listed(crawl.list)
    THEN [NoDoc EXCEPT !.status = crawl.list[p]] ELSE db[p]

\* Variant for the mutants: a listed proposal is written back as it was read.
WrittenAsRead(p) ==
    IF crawl.known[p] = NoDoc
    THEN IF p \in Listed(crawl.list) THEN [NoDoc EXCEPT !.status = crawl.list[p]] ELSE db[p]
    ELSE [crawl.known[p] EXCEPT !.status = IF p \in Listed(crawl.list) THEN crawl.list[p] ELSE "not enough deposit"]

\* The document of a proposal after the bulkWrite.
Written(p) ==
    LET status == crawl.list[p]
    IN IF p \notin Listed(crawl.list)
       THEN IF crawl.known[p] = NoDoc THEN db[p]
            ELSE [crawl.known[p] EXCEPT !.status = "not enough deposit"]
       ELSE IF crawl.known[p] = NoDoc THEN [NoDoc EXCEPT !.status = status]
       ELSE [db[p] EXCEPT !.status = status]

\* bulkWrite: the status of those listed, and those not listed are closed, by
\* writing back the whole document that was read.
WriteProposals ==
    /\ crawl.pc = "read"
    /\ db' = [p \in Proposals |-> Written(p)]
    /\ crawl' = NoCrawl
    /\ UNCHANGED <<proposalChain, counted, jobs, failed, callFails, proposalCrashes>>

-----------------------------------------------------------------------------
Busy(k) == \E p \in Proposals : jobs[k][p].state = "active"

\* A job fetches what the chain has; a proposal that is gone has no deposits.
FetchCount(k, p) ==
    /\ jobs[k][p].state = "waiting" /\ ~Busy(k)
    /\ jobs' = [jobs EXCEPT ![k][p] = IF proposalChain[p] = "gone" THEN CountIdle
                                      ELSE [state |-> "active", read |-> counted[k][p]]]
    /\ UNCHANGED <<proposalChain, counted, db, crawl, failed, callFails, proposalCrashes>>

\* An LCD that does not answer fails the job of deposits, which bull keeps until
\* others have failed after it, and not the one of a tally.
FetchCountFails(k, p) ==
    /\ callFails < MaxCallFails
    /\ callFails' = callFails + 1
    /\ jobs[k][p].state = "waiting" /\ ~Busy(k)
    /\ LET kept == IF k = "tally" THEN failed[k] ELSE Append(failed[k], p)
           full == Len(kept) > KeepFailed
       IN /\ failed' = [failed EXCEPT ![k] = IF full THEN Tail(kept) ELSE kept]
          /\ jobs' = [jobs EXCEPT ![k] = [q \in Proposals |->
                 IF q = p THEN [CountIdle EXCEPT !.state = IF k = "tally" THEN "none" ELSE "failed"]
                 ELSE IF full /\ q = Head(kept) THEN CountIdle ELSE @[q]]]
    /\ UNCHANGED <<proposalChain, counted, db, crawl, proposalCrashes>>

\* The job writes it, if there is a document by now.
WriteCount(k, p) ==
    /\ jobs[k][p].state = "active"
    /\ db' = IF db[p] = NoDoc THEN db
             ELSE IF k = "deposit"
             THEN IF jobs[k][p].read = 0 THEN db
                  ELSE [db EXCEPT ![p].deposit = jobs[k][p].read]
             ELSE [db EXCEPT ![p].tally = jobs[k][p].read]
    /\ jobs' = [jobs EXCEPT ![k][p] = CountIdle]
    /\ UNCHANGED <<proposalChain, counted, crawl, failed, callFails, proposalCrashes>>

\* The process dies; bull runs the active jobs again, from their start.
CrashProposals ==
    /\ proposalCrashes < MaxProposalCrashes
    /\ crawl.pc # "idle" \/ \E k \in CountKinds : Busy(k)
    /\ proposalCrashes' = proposalCrashes + 1
    /\ crawl' = NoCrawl
    /\ jobs' = [k \in CountKinds |-> [p \in Proposals |->
           IF jobs[k][p].state = "active" THEN [state |-> "waiting", read |-> 0] ELSE jobs[k][p]]]
    /\ UNCHANGED <<proposalChain, counted, db, failed, callFails>>

CrawlProposal == FetchProposals \/ ReadProposals \/ WriteProposals

CountJob == \E k \in CountKinds, p \in Proposals : FetchCount(k, p) \/ WriteCount(k, p)

ProposalNext ==
    \/ \E p \in Proposals : ChainMoves(p) \/ ChainCounts(p)
    \/ CrawlProposal \/ CountJob \/ CrashProposals
    \/ \E k \in CountKinds, p \in Proposals : FetchCountFails(k, p)

ProposalFairness ==
    /\ WF_proposalVars(CrawlProposal)
    /\ \A k \in CountKinds, p \in Proposals :
          SF_proposalVars(FetchCount(k, p)) /\ WF_proposalVars(WriteCount(k, p))

ProposalSpec == ProposalInit /\ [][ProposalNext]_proposalVars

-----------------------------------------------------------------------------
ProposalStatuses == {"none", "deposit", "voting", "passed", "gone", "not enough deposit"}

ProposalTypeOK ==
    /\ \A p \in Proposals : proposalChain[p] \in ProposalStatuses /\ db[p].status \in ProposalStatuses
    /\ \A k \in CountKinds : \A p \in Proposals :
          /\ jobs[k][p].read <= counted[k][p]
          /\ jobs[k][p].state = "failed" <=> p \in Range(failed[k])

\* crawl-proposal.service.ts:140-147: the proposals closed for want of deposits are
\* those the chain dropped, whenever they were submitted and the list was read.
OnlyDroppedAreClosed ==
    \A p \in Proposals : db[p].status = "not enough deposit" => proposalChain[p] = "gone"

\* :123, :144: what the other jobs wrote goes back to less only in the write that
\* closes the proposal.
CountsGoBackOnlyClosing ==
    [][\A p \in Proposals :
          db'[p].deposit < db[p].deposit \/ db'[p].tally < db[p].tally
             => db'[p].status = "not enough deposit"]_proposalVars

\* A list that is old when it is written, and counts that are fetched meanwhile, do no harm:
\* crawl-proposal.service.ts:104-147, crawl-tally-proposal.service.ts:62.
ProposalsAreRight == [](ProposalTypeOK /\ OnlyDroppedAreClosed) /\ CountsGoBackOnlyClosing

\* :170: every status of the chain that stays is shown, whatever failed in between.
StatusConverges ==
    ProposalFairness => \A p \in Proposals : \A s \in {"deposit", "voting", "passed"} :
        <>[](proposalChain[p] = s) => <>[](db[p].status = s)

\* crawl-tally-proposal.service.ts:62: the tally of a proposal in its voting period
\* is shown, though the jobs of one proposal are one by their jobId.
TallyConverges ==
    ProposalFairness => \A p \in Proposals :
        <>[](proposalChain[p] = "voting") => <>[](db[p].tally = counted["tally"][p])

\* crawl-deposit-proposal.service.ts:50: so are its deposits, until the job of the
\* proposal has failed and keeps its jobId.
DepositConverges ==
    ProposalFairness => \A p \in Proposals :
        <>[](proposalChain[p] = "deposit" /\ p \notin Range(failed["deposit"]))
            => <>[](db[p].deposit = counted["deposit"][p])
=============================================================================
