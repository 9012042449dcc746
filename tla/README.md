# Verification of the Ratio1 backend

TLA+ modules, TLC configurations and TLAPS proofs for the Go service in `src/`.
The backend is a set of identical servers (six on mainnet,
`config/config.mainnet.json:83-114`), each an HTTP server and a cron scheduler.
They share one Postgres database and nothing else: no lock, no queue, no leader,
and almost no transaction. Every handler and every job reads rows, works on its
own copies, calls services outside (an Ethereum RPC node, Sumsub, Oblio, Mailjet,
VIES) and writes rows one by one. What can go wrong is what happens between
those steps, and that is what is modelled.

## 1. Inventory

| Component | State it keeps | Operations | What is hard | What makes it correct |
|---|---|---|---|---|
| Daily statistics job (`service/statsService.go`, `jobsEndingEmails.go`, `storage/statsStorer.go`) | tables `stats`, `allocations`, `burn_events` | `DailyGetStats`, hourly on every server | servers overlap; errors and crashes between inserts; totals carried from row to row; stale list of escrows | no event lost or counted twice; one row an epoch; a day with events gets its row |
| KYC events (`proxy/handlers/sumsub.go`, `service/sumsubService.go`, `storage/kycStorer.go`) | tables `kycs`, `user_infos` | `processEvents`, `initSession`, `subscribe`, `unsubscribe`, a confirmation of an e-mail that has its row already | repeated, reordered, concurrent webhooks; stale copies written back; zero values not written; the row started over with a new uuid | approvals backed by data; rejections announced; events in order; final rejection final |
| Monthly PoAI drafts (`service/monthlyPoaiInvoiceService.go`, `handlers/invoiceDraft.go`) | `allocations.draft_id`, `invoice_drafts`, `preferences` | `MonthlyPoaiInvoiceReport`, `createPreferences`, `changePreferences` | one firing a month for each server; runs overlap (no SkipIfStillRunning); crash between claim and draft; preferences edited meanwhile; documents made anew at each download | an allocation in one draft; numbers used once; documents list what the total counts, and their lines make it |
| Licences and invoices (`handlers/license.go`, `service/licenseService.go`, `service/oblioService.go`) | table `invoices`; invoices at Oblio | `linkNode`, `buyLicense`, `multiLinkNode`, `ElaborateInvoices` | the external invoice is made before the row is updated; block cursor moves past a failed event | KYC gate; each purchase invoiced once |
| Accounts (`service/accountService.go`, `handlers/account.go`) | table `accounts`, in-memory e-mail counters | `GetOrCreateAccount`, `RegisterEmail`, `ConfirmEmail`, `addSellerCode`, `blackListAccount` | whole-row saves of concurrent requests; account and KYC row written separately | a confirmed address belongs to one account; a confirmed account has a KYC row and stays confirmed |
| Notification e-mail (`service/notificationEmailService.go`) | table `account_notification_emails` | register, confirm, delete | confirm races delete and re-registration | only the address confirmed is used |
| Offline notifier (`service/offlineNodesNotifier.go`) | the time of the last e-mail of an owner, in CStore | `NotifyOfflineLinkedNodes` | e-mail sent, then marked; answers lost; two servers; times cut to seconds | at most one e-mail in 24 h; silence only after an e-mail |
| Log filter (`service/logFilter.go`) | none | chunks, bisection, retry of `FilterLogs` | boundaries of halves, retries | every log of the range once, in order |
| Sellers (`handlers/seller.go`) | tables `sellers`, `accounts.used_seller_code` | create, enable, disable codes; use one; list clients | two requests make two codes; a disabled code looks free | one code per seller; a code keeps its seller; nobody uses his own |
| Authentication (`service/authService.go`, `crypto/jwt.go`) | none (tokens) | login, refresh | lifetimes | a token is good for what and as long as it was made |
| Newsletter, branding, burn reports, token supply, VAT tables, configuration, scripts | little or none | I/O and formatting | – | – |

Components meet in the database: the daily job fills `allocations`, which the
monthly job claims; KYC events write `kycs` and `user_infos`, which the licence
handlers, the drafts and the invoices read; the accounts module makes the KYC
row that the webhooks update.

## 2. Plan

| | Modules | Shows | State |
|---|---|---|---|
| 1 | `DailyStats`, abstract `StatsLedger`, `DailyStatsProofs` | daily job | checked and proved |
| 2 | `KycEvents`, `KycEventsProofs` | webhooks and user requests on one row | checked and proved |
| 3 | `LinkPermits` over `KycEvents`, proofs in `KycEventsProofs` | signatures to link nodes beside those webhooks | checked and proved |
| 4 | `MonthlyDrafts`, abstract `Billing`, `MonthlyDraftsProofs`; `DraftDocuments` over them | monthly job; lists, downloads and amounts of the documents | checked and proved |
| 5 | `LicenseInvoices`, `LicenseInvoicesProofs` | purchase, invoice, VAT | checked and proved |
| 6 | `Accounts`, `AccountsProofs` | primary and notification addresses | checked and proved |
| 7 | `LogFilter`, `LogFilterProofs` | every log of a range once, whatever replies are cut or fail | checked and proved |
| 8 | `Sellers`, `SellersProofs` | codes of sellers and the accounts that use them | checked and proved |
| 9 | `OfflineNotifier`, `OfflineNotifierProofs` | e-mails to owners of nodes that are off line | checked and proved |
| 10 | tokens (`authService`, `jwt`); branding, whose text and logo are edited by whole-row saves | life of a token; edits lost only to requests that overlap | not modelled |

Modules that are proved about have no `RECURSIVE` operator, their bounds are
assumed and named, and an invariant is a conjunction of named parts. Runs are
few and each checks all that one instance can show. Where a type invariant is
proved for every value of the constants, the runs do not check it again.

## 3. DailyStats

One action per step of `DailyGetStats`: `Start` (read the latest row),
`FetchCsps`, `FetchEvents` (last block and logs), `ComputeStats`, `Recheck` (the
second look at the latest row), `StoreAllocation` and `StoreBurn` (one insert
each), `StoreStats`, `SendEndingJobMails`. `run[s]` holds the local variables of
the run on server s, as `KycEvents` does with `hook[w]`. `Abandon` is an error
return or the death of the process at any point. `MineBlock`, `DeployEscrow` and
`NextDay` are the environment. An event stands for an allocation and the burn of
the same transaction, one token each, so totals are numbers of events.

The stats table starts with one row, as the deployed one does; with an empty
table the job would panic at `statsService.go:274`.

Ghosts: the columns `from` and `known` of a row record the range and the escrows
its run looked at; `faults` counts abandoned runs.

### Runs

| Run | Instance | Shows |
|---|---|---|
| `stats_safety` | 2 servers, 2 escrows, 2 blocks, 2 epochs, 1 fault | covered events are stored; totals match the chain; copies of burns and mails are accounted for; the job implements `StatsLedger` |
| `stats_one_server` | 1 server, 2 escrows, 2 blocks, 3 epochs, 2 faults, `FairSpec` | a day with unreported events gets its row or ends |
| `stats_late_escrow` (violation) | 1 server, no fault | an event of an escrow deployed between two queries is never stored |

With two servers an epoch may get two rows: both pass `Recheck` before either
has inserted its row (`statsService.go:282-312`). `stats_safety` shows what
still holds then. Servers and escrows are interchangeable, so that run uses
their symmetry; every property it checks is symmetric too.

Two servers are enough for one to act between any two steps of another; two
blocks and two epochs let one row follow another, and a run continue a row that
overlapped; a fault lets a run be repeated.

Fairness: `WF` of `Start` and of the run's own steps for each server. Cron fires
every hour for ever and a step that meets no error returns; errors and crashes
are bounded by `MaxFaults`, since a service that always fails does nothing.
Nothing is assumed of the chain or the calendar.

### Proofs (`DailyStatsProofs`)

For any sets of servers and escrows and any bounds, `Spec` implies the type
invariant, `CoveredEventsStored`, `TotalsMatchChain`, `BurnCopiesExplained`,
`MailsBoundedByRows` and the ledger specification. Assumed: the bounds are
naturals and `Csps` is finite, so that totals are numbers; `Servers` may be
infinite.

`CoveredEventsStored` is not inductive: that a row is inserted last matters only
because the run knows what it has stored. `IInv` says, for each phase of a run,
what its locals mean: the batch is the events of the known escrows in the
range; in phase `burns` all of the batch is in `allocations`; in phase `stats`
also in `burns`; the new row's totals are those of the base row, which is a row
of the table, plus the events since. Blocks already mined get no more events,
which is why a batch stays right while the chain grows.

The two counts rest on `CountInv`: the table is finite, as each step inserts at
most one row, and whoever has added to a count is itself counted until something
else takes its place. A copy of a burn is first covered by the run in flight
that stored it, then by the row of that run or by the fault that ended it; and
the e-mails of a day, together with the runs that still have them to send, are
no more than the rows of the day, as a run comes to its e-mails only by a row of
its own. So servers may overlap in any number without a burn or an e-mail that
no row, run or fault answers for.

## 4. KycEvents

One user. `Receive` is `processEvents` up to its read of the row, which it finds
by the uuid that Sumsub knows the applicant by, with the refusal of a finally
rejected applicant; `IgnoreStale` and `Process` the comparison of times and the
switch; `SendMail`, `StoreUserInfo`, `SaveEvent`, `Confirm` the calls and writes
in their order; `FailHook` an error or a crash before any of them. `Merge` is `CreateOrUpdateKyc` on a row that exists: gorm's
`Updates` with a struct skips zero values, so Boolean columns, and strings that
matter as empty or not, are raised and never lowered. A read that fails with
anything but "not found" is swallowed (`kycStorer.go:70-84`): `SkipEvent` is the
webhook that goes on as if it had written, to the approval e-mail too.
`InitSession` and `ChangeSubscription` read the row and `StoreSession` writes the
copy back; the column `receive_updates` that subscribing sets is left out, as
nothing else depends on it.

`ConfirmEmail` is the other writer of a row that is there:
`confirmPrimaryEmail` calls `CreateOrUpdateKyc` again when a link is opened twice
at once, or when the account lost its confirmation and was registered anew. It
gives the row a new uuid and the status it began with; what the row holds
besides stays. Events of the old applicant then no longer find the row, but
copies of it in flight are written back with their uuid. The first confirmation,
which makes the row, is `Init`; two confirmations of which neither finds a row
could make two, as `kycs.email` has no unique index, and that is left out.

Sumsub may deliver any event it created at any time, again and again. Time is counted in events created: processing at time n happens after
event n was created and before n + 1, so the strict comparison of the code
becomes `>=` on these counts.

| Run | Instance | Shows |
|---|---|---|
| `kyc_overlap` (of `LinkPermits`) | 2 webhooks, 1 user request, 1 further confirmation, 5 kinds, 2 events | approvals backed by data; rejections announced; every status has a cause, of the applicant the row is of; events apply once and in order, and a final rejection stays, but for copies that miss a write, a reset or a further confirmation; links are due |
| `kyc_deactivation` (violation) | 1 webhook, no further confirmation | a deactivation is never stored |

Nothing keeps a webhook that read the row before a final rejection was stored
from overwriting it (`sumsub.go:209-239`), nor the user's own request. Two
ghosts say when that is so: `outdated` is the set of requests whose copy misses
a write to the row, and `lost` whether one of them has written. As long as it is
not, `AppliedInOrder` says that events take effect once and in the order they
were created; `FinalRejectionStays` says that only a reset, an outdated request
or a further confirmation ends a final rejection. The last is a way out that the
refusal of `sumsub.go:220` does not see: the row starts over as that of a new
applicant. One further confirmation is enough to come between any two steps of
the others, and for a copy with the old uuid to be written after it. Two
webhooks and a user's request are enough for each to write between the read and
the write of another, two events for one to be old when it arrives, or to arrive
again. Sumsub's other kinds of events (`red`, `pending` and the like) add
nothing to how copies race and are left to the proofs, which hold for any kinds;
likewise `Known` and `Vies`, the columns a row starts with and an approval adds,
are small sets in the run.

`KycEventsProofs` proves every property of `kyc_overlap` for any numbers of
webhooks, requests, confirmations and events. The inductive invariant extends
the invariants from the row to every copy in flight: a copy's status and
applicant id come from applied events of the applicant its uuid names or, past
its own `StoreUserInfo`, from the event it carries. For the order of events it
adds that, while nothing is lost, the row's time is not before any applied
event, and that a copy that is not outdated agrees with the row. Assumed:
webhooks and the user's requests are different requests.

### LinkPermits

`linkNode` and `multiLinkNode` read the account and its KYC row, and sign the
wallet and the nodes (`license.go:60-147, 312-405`). The message holds no time:
the contract takes the signature whenever it is presented, so what matters is
what the row said when it was given. `LinkPermits` extends `KycEvents` with the
action `LinkNode`, which a run takes at any moment between the writes of
webhooks and requests. `LinksAreDue`: a signature is only given to an applicant
whose data is stored, whom Sumsub approved with no later judgement applied, and
who was never deleted; a webhook that was delivered late or twice makes no
difference until a request writes a copy that misses another's write.

A reset does not undo a deletion: it lowers `has_been_deleted` in the copy only,
and `Updates` does not write a lowered flag, so who was once deleted can never
link again.

The second part of `KycEventsProofs` shows that the new action leaves everything
of `KycEvents` alone (`LinksOnlyRead`: the specification implies that of
`KycEvents`, so its theorems hold here), and proves `LinksAreDue`. The invariant
it needs beyond those of `KycEvents` is that a deletion applied is kept, in the
row or in a copy about to be written, and, while nothing is lost, that the row's
status is that of the latest judgement. With `DevTesting` set the handlers skip
the check of the row; the model is the service as deployed.

## 5. MonthlyDrafts and Billing

An execution of `MonthlyPoaiInvoiceReport` is an element of `Runs`, not a
server. The cron of each server named in the configuration fires once, on the
first of the month, at an hour of its own (`config.mainnet.json:107-114`):
`fired` counts the firings of the month, of which there are `Firings`, and each
is a `Start` or a `MissFiring` (the server is down, or the rows or the currency
rates cannot be read). The cron has no `SkipIfStillRunning`
(`cmd/main.go:102-110`), so executions may overlap, of two servers or of two
months. `Start` reads the unclaimed allocations of the month before; `TakeGroup`
takes one (owner, CSP) group and reads the owner's preference; `Claim` writes the
draft's id into one allocation; `StoreNumber` saves the preference read before
with the next number; `StoreDraft` inserts the draft; `SendMails` reads the
documents and mails them, and does not look at errors. `SkipGroup` (the
preference cannot be read), `LoseDraft` (the insert fails, the loop goes on) and
`Fail` (any other error, or a crash) are the failures, at most `MaxFaults` with
the firings missed. `CreatePreference` and `ChangePreference` are the owner, who
may send any next number (`Typed`) at any time; a zero in a new row becomes the
column's default (`Inserted`). An allocation counts one unit, and the columns of
a preference that the job only copies are left out.

Ghosts: a draft's `items` are the allocations in its total; `givenUp` holds the
ids of drafts whose execution failed after it may have claimed; `unsent` the
drafts whose e-mail failed or whose execution ended before it; `lowered` the
owners who have lowered their next number; `overwritten` those whose row a run
saved from a copy in which the next number was no longer the row's.

| Run | Instance | Shows |
|---|---|---|
| `monthly_one_run` | 1 execution at a time, 3 firings a month, 2 owners, one of them his own CSP, who begin with 1 or with -1, 3 months, 2 faults, `FairSpec` | the job implements `Billing`: drafts are only added, each of work no draft has, and an owner's numbers go up; every listed draft can be downloaded, with what its total counts; the lines of a document make its total; drafts are announced unless an error kept their e-mail; what one firing misses or fails a later one makes up for |
| `monthly_overlap` | 2 executions, 2 firings a month, an owner and 2 CSPs, who sends -1, 0 or 3 as his next number, 2 months, 1 fault | every claim is explained; a document never lists what its total does not count; a number is used twice only after the owner lowered it or an outdated copy was saved |

Two executions that overlap do put one allocation into two drafts: both read it
as unclaimed, and the later claim wins (`monthlyPoaiInvoiceService.go:18, 95`).
That is why `DownloadsMatchTotals` and billing are checked with one execution
and `monthly_overlap` says only "no more than". `ClaimsExplained` states what
an error costs: an allocation claimed by a draft that was never stored is in
`givenUp`, and no later run takes it. Two months let a later run meet the claims
of an earlier one; two groups let a run fail between them.

An execution saves the preference it read before the claims whole
(`preferencesStorer.go:44-61`), so it may take back a number that another
execution or the owner has saved since; and the owner may send a lower number
himself, which nothing checks (`invoiceDraft.go:580-594, 619-632`).
`NumbersRepeatExplained` says that nothing else repeats a number: not a failure,
after which a number is left out, nor executions that overlap on different
owners. In the run an owner has one group with a number in a month; for any
groups see the proofs.

`DraftsAnnounced` is a condition on each draft and not on the whole run: errors
happen in it, and a draft may be missing from the e-mails only if it is in
`unsent`.

Fairness: `WF` of `Start` and of an execution's steps. It does not give the job
more chances than the calendar does: a month has `Firings` firings, does not end
before they are over, and a firing that is not missed starts the job.
`AllocationsInvoiced` therefore speaks of allocations that are there, unclaimed,
while more firings are left in the month than faults can still happen: one of
them then succeeds, and each is in a draft or claimed by a run that failed. It
does not excuse anything by the month's end. It says nothing of an allocation
stored after the month's last firing, nor of one each of whose firings is hit:
the job selects only the previous month (`allocationStorer.go:96`), so neither is
ever invoiced. Three firings against two faults make the antecedent true at the
start of a month and let it be lost on the way. Deadlock is not checked in that
run: the job rests when the last month's firings are over.

### Proofs (`MonthlyDraftsProofs`)

For any executions, owners, editors and bounds: the types, `ClaimsExplained`,
`DocumentsWithinTotals` and `NumbersRepeatExplained`. Executions overlap on the
same allocations, so the invariant says nothing of which claims last; it rests
on the ids. Each id is given to one execution and one group, no draft has it
before it is stored, and every allocation that points to it is of that group.
For the numbers, `Numbers` says of an owner in neither `overwritten` nor
`lowered` that all numbers that are out, on drafts or with an execution that has
raised but not used one, are different and less than his next one, so that an
owner without a row has none out. `LinesMakeTotal` holds without a condition as
well; its argument is under DraftDocuments.

What follows holds only while executions do not overlap, so its theorems are
conditional. `Sole` says that there is at most one execution of the job at a
time, and `SoleInv` what it then knows: what it has still to claim points to no
draft, what it has claimed points to the draft it is about to store, and all
that a stored draft counts points to it and to no other. So whoever is listed a
draft downloads it with exactly what its total counts (`DownloadsAreComplete`:
`DownloadsMatchTotals`), and a stored draft is announced unless an error kept its
e-mail (`DraftsAreAnnounced`: `DraftsAnnounced`), whatever owners do to their
preferences meanwhile. With overlap neither holds: an execution that takes over
another's claims may leave it an empty document, and the owner of an empty
document gets no e-mail.

`Alone` is `Sole` and that nobody changes a row of preferences; making one, with
any number, is allowed. Then the job implements `Billing` (`ImplementsBilling`),
whatever fails. `SoleInv` gives that a draft is of work no draft has; `BillInv`
adds that the numbers of an owner's drafts are all below his next one (`RowInv`)
and below the one the execution has read (`NumberInv`).
With two executions the first, and with an edit the second, does not stay true.
`monthly_one_run` is an instance of both conditions; `monthly_overlap` of
neither.

### DraftDocuments

The lists and downloads of `invoiceDraft.go` only read, so they are operators
over the state of `MonthlyDrafts`. A document is made anew at each download,
from the draft as stored and the allocations that point to it by then. A draft
that is not found is no error but an empty row, and the document is refused only
when it has no allocation. `DownloadsMatchTotals` checks in every state of
`monthly_one_run`, later months included, that who is listed a draft gets it
with all that its total counts.

The amounts follow `buildInvoiceView`: the net base from the total, the fixed
taxes, the VAT and the percentages, and one line for each extra tax. They are
fractions of a cent, exact where the code uses floating point, and `Cents` is
its `%.2f`; a rate that is missing from the map of currencies is 0, and a
division by it, or by rates that sum to -100 %, is a fraction with denominator 0,
as the code prints an infinity or no number. `LinesMakeTotal` states exactly
when the lines add up to the total they started from: not if fixed taxes exceed
it (the net base stops at 0), not if deductions exceed the fixed taxes (they are
listed but not taken off), not if a fixed tax meets a currency without a rate,
and not if the owner's rates sum to -100 % or less, unless to less and fixed
taxes reach the total (the net base is then of the other sign). Otherwise the
printed lines miss the total by half a cent for each line at most. It is
evaluated for every draft that the job stores, with each of the terms of
`SomeTerms`, which hold every one of these cases and its boundary.

`LinesMakeTheTotal` proves it for any price, any number of allocations, any list
of extra taxes and any rates. Two things are needed. One is about the state: an
execution takes the work of one month (`MonthInv`), so a draft counts one pair of
owners in one month, which are allocations that differ in their copy alone and
hence between 1 and `Copies` of them. The other is arithmetic, for any total
(`LinesMakeAny`). All denominators divide `Den`, the share without its sign times
the rate, and each line is a whole number of its parts (`LinesFit`); these sum to
the net base times the share and the fixed taxes, so the lines make the total
exactly if the net base, times the share, is what the fixed taxes leave
(`AddUpSum`, `AddUpWhole`). What `%.2f` adds or takes is within half a cent for
each line, and so is its sum (`OffBounded`). The sums are of lists of any length:
`SumSeq` is a fold, shown to have partial sums (`SumSeqPartial`), to be linear
and to be bounded by induction over the length. The library's rule of induction
takes an operator, which the provers cannot instantiate; `Induction` is the same
rule for a set, derived from the library's theorem that the order of the numbers
is well-founded.

## 6. LicenseInvoices

`CreateInvoice` and `Sign` are the two writes of `buyLicense`, `Refuse` all of
its early returns (KYC state, limits, VIES, the signing key), which change
nothing or leave the row pending. `MineBlock` is the contract: a signed purchase
is bought at most once. `ElaborateInvoices` is `Start` (latest paid block),
`FetchEvents`, then for each event in order `TakeEvent`, `MakeInvoice` (Oblio)
and `UpdateInvoice`; `PassOver`, `SkipEvent` and `Fail` are its errors, of which
a lost answer of Oblio is one. `SignedRate` and `InvoicedRate` are the two places
that decide on VAT.

| Run | Instance | Shows |
|---|---|---|
| `license_invoices` | 2 executions, 2 purchases, 2 blocks, 4 kinds of buyers, 1 fault, `FairSpec` | paid rows have invoices; invoices too many and events left behind are each explained; the rates signed and invoiced differ exactly for companies in the EU that VIES did not confirm; purchases are invoiced or fall behind the newest paid block |

The rate is computed twice, when the purchase is signed (`license.go:255-268`)
and when it is invoiced (`oblioService.go:201-225`). `RatesDifferExplained` says
where the two part: a company in the EU that VIES does not confirm, or that it
could not be asked about, signs and pays for no VAT, and its invoice takes 21
percent off what it paid. Nowhere else do they differ.

Two executions that both find a row pending make two invoices of one purchase
(`oblioService.go:56-62`); `CopiesExplained` bounds the copies by the executions
and the errors. Two purchases in two blocks let one fall behind the other, or
share a block with it.

### Proofs (`LicenseInvoicesProofs`)

For any purchases, clients, blocks and faults, and any finite number of
executions that overlap: the types and the four safety properties of
`license_invoices`. `IInv` says what an execution may rely on although it holds
copies: a row is backed by the request that wrote it and by VIES's answer then
(`Deal`), an event by a signed purchase, of which it is the only one
(`EventsSound`), and the copy of a row agrees with the row in all that an
execution never changes (`RunSound`). `PaidRowsInvoiced` and
`RatesDifferExplained` follow from it.

The two counts need more. `CopiesCounted` counts with the invoices made those
who may still make one: of a paid row, the executions that found it pending and
have yet to call Oblio; of a pending one, nobody, but every invoice is then owed
to an execution that has still to save it, or to a fault. `MissedExplained`
counts with the events behind the newest paid block those that an execution went
past while it still holds a later one: these are the events that would fall
behind if it paid that. Events are taken in the order of blocks, so an execution
goes past a pending event only by an error, and what falls behind when a row is
paid was passed over already. `Runs` is assumed finite for the count of copies.

## 7. Accounts

A request is an element of `Requests` and `request[q]` its locals. The primary
address: `RegisterEmail`, `LookUpAccount`, `SavePending`, `IncreaseEmailCount`,
`SendConfirmEmail`; the notification address: `RegisterNotificationEmail`,
`LookUpNotice`, `SaveNotice`, `SendConfirmEmail`, `DeleteNotificationEmail`;
opening a link: `ConfirmEmail`, then either `SaveConfirmed` and `StoreKyc`, or
`ConfirmNotice` and `SaveNotice`; `SkipKyc` in place of `StoreKyc` is the error
that `CreateOrUpdateKyc` swallows; a seller's code: `AddSellerCode`,
`SaveSellerCode`. `UpdateAccount` saves the whole row, under the unique index of
`email`. A link may be opened at any time, any number of times, or never, which
takes in its expiry. `Restart` ends all requests and clears the counts of mails,
which are kept in memory; one server is modelled, so the counts of several add
up. Ghosts: `opened`; `cut`, the accounts whose request ended between the account
and its row of `kycs`; `unread`, those of which that row could not be looked for;
and `outdated`, the requests that hold a copy of a notification row deleted since
they read it.

| Run | Instance | Shows |
|---|---|---|
| `accounts` | 2 requests, 2 accounts, 2 e-mails, at most 2 links, 1 fault | addresses in use were confirmed; a confirmation is lost only to a request that read the row before; a deleted notification address comes back only from a copy read before the deletion; accounts without a KYC row and addresses without a link are explained |

Two requests suffice for a stale save, two accounts and e-mails for one address
to be wanted twice and for one account to change its mind; the limit of mails is
2, so that it is met. The link bound stops further mails; a request then waits.

Every handler saves the whole account as it read it, so one that read it before
the e-mail was confirmed writes it back unconfirmed. `ConfirmedLossExplained`
says which do that: `addSellerCode`, whose user is told nothing, and
`RegisterEmail`, which goes on to mail a new link. Everything else that happens
to an account leaves a confirmation alone.

`MissingKycExplained` names both ways to a confirmed account without a row of
`kycs`. In one the request is cut off between its writes; in the other the look
for the row fails, `CreateOrUpdateKyc` writes nothing and returns no error
(`kycStorer.go:70-84`), and the user is told that all went well. Nothing makes
the row later. `StoreKyc` is one step: with no unique index on `kycs.email`, two
requests for one address could make two rows, which the set `kycs` does not tell
from one.

The notification address meets the same in the other direction: a request that
read its row saves it again after the owner deleted it
(`accountService.go:108-116`). `DeletionUndoneExplained` says that nothing else
brings the address back but a new registration and its own link: a link from
before the deletion, opened later, does not.

`AccountsProofs` proves all of `accounts`, the types, and that confirmed e-mails
are distinct (`EmailsDistinct`), for any numbers of requests, accounts, e-mails
and links. Rows are saved from copies, so the inductive invariant says of every
copy in flight what holds of rows: an address a copy shows as confirmed was
opened, and a copy about to be saved with a confirmed e-mail is backed by an
opened link or by the row it was read from. That e-mails are distinct comes from
the index alone, which every save goes through. `PendingMailed` is that a
pending address is `Due`: its link is mailed, or the request that will mail that
address is under way, or the limit or a failure was met. As a stale copy may
bring back an older pending address, every copy in flight has to be due too; it
stays so because links are never taken back and a request that ends has mailed
its link or counts as a failure.

`DeletionUndoneExplained` rests on `NoticeInv`: a row that says anything exists,
a copy about to be saved is marked as existing, and the row a confirmed copy was
read from is still there unless it was deleted under the request, which is what
`outdated` records. `NoneAssumption`, that the mark for no e-mail is not an
e-mail, keeps a link from matching a row that is not there.

`blackListAccount` is not an action: it sends its e-mail, answers with the
account marked, and saves nothing (`account.go:500-532`).

## 8. LogFilter

One call of `filterLogsInChunks`, through which the daily job and the token
supply read all events. `FirstChunk` and `NextChunk` are the loop over chunks;
`todo` is the stack of calls of `filterLogsChunk` still to be made, of which the
first has its request out: `Accept` returns its logs, `Halve` calls it for both
halves, `FullBlock` is the refusal of one block with too many. `Retry` and
`GiveUp` are `filterLogsWithRetry`, with `maxAttempts` raised for good by a rate
limit; `Cancel` is the caller's context. A log is its number in the chain, and
the chain is any placing of logs in blocks. A reply may be cut only if it is at
least `MaxResults` long: that is what the code relies on. A node that refuses a
range with too many logs, in place of cutting the reply, is asked again for the
same range, and the call fails.

| Run | Instance | Shows |
|---|---|---|
| `log_filter` | all ranges and placings of at most 4 logs in 5 blocks, chunks of 3 blocks, replies cut at 2 logs, 2 or 4 attempts, `FairSpec` | all logs of the range, once, in order; failures have a reason; every call ends |

A chunk of three blocks is halved twice and unevenly, and five blocks take two
chunks. Deadlock is not checked, for a call ends. Fairness: every request is
answered or refused in the end. The daily job gives a whole call two minutes
(`statsService.go:24, 484`), which is one way `Cancel` happens; the token supply
sets no limit (`tokenSupplyService.go:81`) and relies on the connection.

`LogFilterProofs` proves all but `Ends`, for any limits, chain and range. The
inductive invariant says that the logs collected are those of the blocks before
the first range of `todo`, and that the ranges of `todo` follow each other up to
the chunk's end; the lemma `LogsJoin` joins the logs of adjacent ranges, and
`HalvesAdjacent` says that halving keeps ranges adjacent. With it,
`DailyStats` may take a fetch as one step that returns all events or fails.

## 9. Sellers

A request is again an element of `Requests`. `NewSeller`, `AddressHasCode`,
`CodeIsFree` and `CreateSeller` are the queries and the insert of `newSeller`;
`FindSeller` and `UpdateSeller` are `disableSellerCode` and `enableSellerCode`,
which read a row by its code or its address and save the whole copy.
`AddSellerCode`, `LookUpCode`, `RefuseOwnCode` and `UseCode` are the account's
side (`account.go:534-625`), and `ReadAccount` and `UpdateAccount` any other
request that saves the account with the code it was read with. `Fail` is an
error or a crash anywhere. Where a query may find several rows it returns any of
them. `ShownCode` and `Clients` are what `getSellerCode` and `getClients` show.

| Run | Instance | Shows |
|---|---|---|
| `sellers` | 2 requests, 3 addresses (one blacklisted), 3 codes | an address has no more codes than requests were making one at once; a code that is used exists, is not the user's own, and its seller sees the user among his clients, except where an address got several codes; a code stays with its seller |

Nothing but the check of `newSeller` keeps an address from a second code
(`seller.go:115-152`), and a disabled code looks free to the other check
(`sellerStorer.go:92-94`): it is the primary key that keeps it from being given
to somebody else, which `CodesKeepOwner` checks. Two requests are enough for
both to find no code; three codes and two buyers who may be sellers leave room
for a seller with two codes, of whom either query sees one.

`newSeller` takes the address as the administrator typed it (`seller.go:89-96`),
while a buyer's is in checksummed form: typed in other letters it is another
address to every query, and `Addresses` holds it as one more.

`getClients` dereferences the list of accounts although it is nil when no
account uses the code (`accountStorer.go:93-95`). Disabling a code that has no
row saves an empty row, which the foreign key refuses, so no state changes.

`SellersProofs` proves all of `sellers`, and the types, for any addresses and any
finite sets of requests and codes. The invariant says for each phase what is
still true of what the request found: as codes keep their owners, a row that was
read is there with the same owner when the copy is saved, and a code found to be
somebody else's stays so. `CodesBounded` is inductive with it: the codes of an
address and the requests about to insert one are together no more than all
requests, and the library's theorems on cardinalities carry that over each step.

## 10. OfflineNotifier

One action per step of `NotifyOfflineLinkedNodes`: `Start` (the oracle's list,
the owners by the contract, and the time, taken once), then for each owner in
any order `Skip` or `Due`, `Send` for each of his two addresses, `Sent`, and
`SetLastSent`; `End`; `Crash` anywhere. The mail service may not take an e-mail,
take it and say so, or take it and its answer be lost or come too late
(`httpUtil.go:68-82`): only the second is counted in `sentCount`. A server has
one run at a time (`cmd/main.go:94`, `SkipIfStillRunning`), but servers overlap.
The sets of owners come from `LongOffline` over the reports the oracle may give
of a node: `parseNodeOfflineState` takes the first of three fields that says,
`parseLastSeenSeconds` reads `h:m:s`, `m:s`, numbers and durations. CStore is
one table with atomic operations, and stores whole seconds: the clock has
`Second` ticks in one.

Ghosts: `mails` are the runs whose mail was taken, and `run[s].mailed` says so of
the owner at hand; `together` and `forgotten` are the owners that two runs were
mailing at once, and who were mailed and whose time was not stored, because
CStore or the server failed, or because every answer of the mail service was
lost.

| Run | Instance | Shows |
|---|---|---|
| `offline_notifier` | 2 servers, 1 owner with 2 nodes, a node without an owner, 7 reports, 4 runs, an interval of 2 seconds, a clock of 8 half seconds | no owner is mailed twice within the interval less a second, unless runs overlapped, a time was not stored or every answer was lost; the time stored is that of a run whose mail was taken |

Owners do not interact, as the table has a row for each, so one is enough; its
two nodes and the third make the empty, partial and full reports. The clock goes
far enough for a second mail after the interval, and four runs for a stored time
to be read, to pass and to be stored again. With two servers a stored time may
move backwards. An owner one of whose addresses took the mail is left alone for
the day, although the other did not; and if the answers of all that took it are
lost he is mailed again the next hour. Deadlock is not checked: the clock and the
runs end at their bounds.

`OfflineNotifierProofs` proves the types and both properties for any servers,
owners and intervals, and any reports of the oracle; assumed is that time is
counted from at least a second after 0, which stands for never.
`SilencedWereMailed` rests on what a run that sent knows: its mail is recorded
under the time it will store. `MailsSpaced` is not inductive. `Steady` adds, of
an owner whose mailings never overlapped and were all stored, that at most one
run is mailing him, that it found him due, and that every other mail is covered
by the stored time; so the new mail is far from the old ones (`FarApart`), and
once its time is stored it covers itself (`SecondsBound`) and, being no earlier
(`SecondsMonotone`), the others.

## 11. What is proved and what is only model-checked

Proved for every value of the constants, within the assumptions named above: the
types of all nine components; of `stats_safety`, `kyc_overlap`,
`monthly_overlap`, `license_invoices`, `accounts`, `log_filter`, `sellers` and
`offline_notifier` every property but liveness, the refinement of `StatsLedger`
included; and `LinesMakeTotal` of `monthly_one_run`.

Proved on a condition that the module names: `DownloadsMatchTotals` and
`DraftsAnnounced` of `monthly_one_run` if executions do not overlap (`Sole`), and
the refinement of `Billing` if moreover nobody changes preferences (`Alone`). The
conditions are there because overlap breaks the properties, not for the sake of
the proofs; they hold in that run.

Only model-checked: liveness (`UnreportedDayEnds`, `AllocationsInvoiced`,
`PurchasesInvoiced`, `Ends`), as the proof system has no ENABLED. The two runs
that expect a violation exhibit behaviours and have nothing to prove.

## 12. Not modelled

Rendering of e-mails and documents, burn reports as CSV and JSON, VAT tables,
the HMAC of webhooks, configuration and key handling, and the scripts run by
hand: they keep no state, and their hazards are not of order or failure. Tokens
and branding (item 10 of the plan) do keep state, apart from everything modelled
here, and are left for later. `blackListAccount` mails the owner of an account
and never saves the mark (`account.go:500-532`); the accounts that are
blacklisted are therefore a constant of `Sellers`, set by hand in the database.
