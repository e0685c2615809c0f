# A formal model of the Royal SACCO system

The repository is a member-registration and loan system for a savings and
credit co-operative: a Django REST back end (`src/backend`), a Next.js front end
(`src/frontend/package/src`) and an M-Pesa integration, deployed as three gunicorn
workers in front of MySQL (READ COMMITTED; `src/backend/docker-entrypoint.sh`).
Requests are not wrapped in transactions unless a view says so, and only one query of
the whole back end locks the row it reads (`authentication/views.py`, the one-time
password). The front end keeps copies of rows in tabs and in one Redux draft, sends
several requests where one would have to be undone as a whole, and clears forms with
timers. Most of what can go wrong therefore lies between the read of a row, or of a
screen, and the write of what was computed from it, and in arithmetic that several
modules do on the same money in different ways. These models are about both.

Paths below are relative to `src/backend/apps` or to `src/frontend/package/src`
(those that begin with `app`, `components`, `hooks` or `store`).

## Inventory

| Component | State | Operations | Hard behaviour | What makes it correct |
|---|---|---|---|---|
| **Loan lifecycle** (`loans/views/loan_views.py`, `models/loan.py`, `services/engine/aging.py`) | loan rows, status, schedule, disbursement journal | apply, appraise, approve, reject, disburse, aging report, settlement quote, destroy | copies read, decided on and saved later; status written by four operations and a report | one open loan per member; a serviced loan was paid out, and again only after a void; repaid loans are kept; closed loans stay closed |
| **Waterfall and header** (`loans/services/engine/repayment.py`) | balances of a loan | allocate a payment | any allocation order, remainders | no cent lost, principal conserved, nothing idle |
| **Repayments and schedule** (`loans/serializers/repayment_serializers.py`, `engine/schedule.py`, `engine/interest.py`, `services/accounting.py`) | header, installments, ledger, repayments | record, settle early, recalculate | rounding, the date of a payment, recalculation, two payments at once | header, installments and ledger agree in turn; overlapping payments forgive nothing |
| **Loan desk** (`app/(DashboardLayout)/loans`, `collections/receive`, `components/loans/dialogs`) | copies of loans in tabs, dialogs, forms, quotes | appraise, approve, disburse, pay, settle, delete, select | stale copies, lost answers, a choice kept from another loan | a receipt is credited once; what is settled was asked for; what is paid out was approved |
| **M-Pesa receipts** (`loans/views/mpesa_views.py`, `services/mpesa_service.py`) | log rows, transactions, links to repayments | validate, confirm, report, allocate, reset | repeated and late callbacks, a network call between two writes, death between two commits | no double credit; every stored receipt is listed in the end; refused receipts credit nothing |
| **Ledger and journals** (`loans/views/ledger_views.py`, `app/(DashboardLayout)/finance`) | chart of accounts, transactions with entries; screens, forms, timers | post a journal, bring a balance forward, record income, void; add, toggle, delete an account | a posting that succeeded is reported as a failure; accounts deleted under a posting; signs | balanced transactions; no entry without account; nothing posted twice behind the back of the accountant |
| **Member workflow** (`members/services/member_service.py`, `app/(DashboardLayout)/members`, `components/members`) | member rows, list and dossier, dialogs | approve, reject, complete, activate, deactivate, delete, edit, bulk | decisions on old screens and old rows | approval before activation; a decision is not undone unknowingly |
| **Registration wizard** (`components/members/wizard`, `forms`, `store/registration`) | one draft per tab, step, timers; kin and vehicle rows | fill in, load for edit, save (up to a dozen calls) | late loads, late timers, saves that fail half way, a draft shared with the dossier | complete applications; saved as reviewed; rows of others untouched |
| **Savings and shares** (`savings/`, `shares/`, `common/triggers.py`, `app/(DashboardLayout)/savings`, `shares`) | payments, withdrawals, transfers, journals, balances as sums | deposit, withdraw, transfer, reverse, delete, cancel, upload | a balance compared before the insertion; two screens that take back the same money; journals found by number | no overdraft while requests do not overlap; the money of a withdrawal that stands is out |
| **Deductions** (`deductions/services/`, `app/(DashboardLayout)/deductions`) | sheets, lines, uploads, the fee flag of members | generate, regenerate, create, edit, delete, upload | a second upload; copies saved late; several installments in a month; loans that turn doubtful; an installment paid, or a flag written back, meanwhile | what a line says was paid was remitted or typed; the fee is taken again only by uploads that overlap or after an edit of the member; what is meant for loans reaches the schedule |
| **Loan products and applications** (`serializers/product_serializers.py`, `views/product_views.py`, `components/loans/LoanProduct*.tsx`, `ApplyLoanForm.tsx`) | product rows and versions; lists and labels in tabs; the form of an application | new version, edit in place, show, hide, apply | a product edited under an application; a switch that names no status; late answers and timers | a loan has the terms of one state of its product; one version on offer; a label that is true |
| **Authentication, organizations, notifications, settings, reports** | one-time passwords, configuration, messages | single-row operations | guesses in parallel, under a row lock | bounded guesses |

Interactions: the loan desk calls the loan views, which create the schedule through
the engine and post the disbursement; repayments come from tellers, from the M-Pesa
confirmation, from its two manual operations and (past the header) from deductions;
each posts a journal. M-Pesa, the desk and the lifecycle meet in the `Repayment` row:
its unique `transaction_reference` is what keeps a receipt from being credited twice,
and its protected foreign key is what keeps a loan from being deleted. The wizard and
the dossier of a member meet in the one Redux draft of a tab. Savings, shares and
journals meet in document numbers. `PROJECT.json` lists all the hazards by line.

## Modules

| Module | Models | Kind |
|---|---|---|
| `LoanLifecycle` | the loan views, what a repayment does to a loan's status, voiding of journals | state machine, several workers |
| `LoanTurns` | the same, watched for requests that overlap; what holds until two do | extends `LoanLifecycle` |
| `LoanLifecycleProofs` | type correctness, three safety theorems for all interleavings, three for requests in turn; the invariants of `LoanHeader` | TLAPS |
| `Waterfall` | `allocate_repayment_waterfall` | operators |
| `LoanHeader` | what any payment through the waterfall promises | abstract state machine |
| `OperatorProofs` | sums over finite sets, and what the waterfall conserves: cited by the other proof modules | TLAPS |
| `Repayment` | `RepaymentSerializer.create` with schedule, recalculation and journal; the refinement of `LoanHeader` | detailed state machine |
| `RepaymentTurns` | the same, watched for payments that overlap; the steps of `LoanHeader` until two do | extends `Repayment` |
| `LoanDesk` | the page of a loan, the list with its dialogs, the collection page | state machine, several tabs |
| `LoanDeskProofs` | types and the three safety theorems of the desk | TLAPS |
| `MpesaPayments` | callbacks, report, manual operations | state machine, several workers |
| `ReceiptBook` | what the M-Pesa integration promises about receipts | abstract specification with fairness |
| `MpesaPaymentsProofs` | types, the four safety theorems of receipts, and that every step is one of `ReceiptBook`; types and the two safety theorems of `AccountTurns` | TLAPS |
| `MemberWorkflow` | list, dossier and dialogs of members, and the service behind them | state machine, tabs and workers |
| `MemberWorkflowProofs` | types, `ActiveWasApproved` and `UndoneFromStale`; types and the three safety theorems of the wizard | TLAPS |
| `Registration` | the wizard, its draft and its save | state machine, calls that fail |
| `MemberAccounts` | savings and share screens and their API | state machine, workers that may die |
| `AccountTurns` | the same, watched for requests that overlap and for withdrawals that lose their payment | extends `MemberAccounts` |
| `DeductionRoll` | the monthly sheet and its upload | state machine, tabs and transactions |
| `DeductionRollProofs` | types, `FeeTakenOnce`, `LoanPartReachesSchedule` and `PaidIsRemitted` | TLAPS |
| `GeneralLedger` | finance page, journal desk and the ledger views | state machine, tabs and calls |
| `GeneralLedgerProofs` | types and the three safety theorems of the ledger | TLAPS |
| `LoanProducts` | the catalogue of products and the form that applies for a loan | state machine, tabs and requests |
| `LoanProductsProofs` | types and the three safety theorems of products; types, three safety theorems and the refinement of `Repayment` | TLAPS |
| `MC...` | constants for TLC | model checking |

### LoanLifecycle

State: `loans` (rows by primary key; `NoRow` where there is none), `unpaid`,
`repaid`, `journal` and `payouts` are what other tables say of a loan; `overdue` and
`matured` abstract the calendar to what the aging categories tell apart; `stage`,
`target` and `obj` are the requests in flight.

A request is two steps (three for an application): the first reads and decides, the
second writes. `obj` is the copy in memory. Three ways of writing are kept apart,
because they differ in what they overwrite:

* `Save` writes every column and, as Django does, inserts the row again if it was
  deleted meanwhile (unless its number is taken);
* `AgingSave` has `update_fields`: it writes the status only and fails on a lost row;
* `DisburseCommit`, `RepayCommit`, `SettleCommit` write several tables in one
  database transaction and are undone as a whole: by the unique number of the
  disbursement journal, by the foreign key of a repayment.

`Repay` requires that some principal remains: where nothing would remain the code
fails on an undefined name and the transaction is undone.
A settlement closes the loan whatever it paid and whatever its status was.
`payouts` counts committed disbursements, `voided` the journals of them that an administrator
voided, and `paid` of a journal names its loan for good: they are history. Voiding frees the unique number of the
journal and leaves the loan as it is, so that a disbursement which read the loan before can pay it out again.

`LoanTurns` adds a watch, `overlapped`, which turns true for good when two requests are
first under way at once, and states what the code guarantees until then. It adds no
behaviour and takes none away.

### Waterfall, LoanHeader and Repayment

Amounts are whole cents. `Waterfall` is the loop over the allocation order, unrolled
to four places, and the sweep of what is left into the principal. The order is free
text in a product, so `Orders` holds every combination, with repeated and unknown
words.

`LoanHeader` forgets the schedule: the interest due is any member of `Dues`, which `Repayment` fills with
the bound `Interests` (what can be due on a day of the run; any number, for the theorem).
`Repayment` computes it, for the interest `method` of the loan's product. Its action
`Record` is the whole of `create` for an ordinary payment,
in the code's order: what is due on the date by the interest method, the
waterfall, the spread of the allocation over the unpaid installments, the header,
the recalculation of a reducing-balance schedule, the journal. `Settle` is the same with
`is_early_settlement`; `RecordFails` is the failing branch. `Begin` is the validation,
which loads the loan that is later saved in full: what another request did in
between is lost. `RepaymentTurns` has a watch like that of `LoanTurns`. Installment *i* is due on day *2i*, so that payments fall before, on,
between and after due dates.

Penalties and fees of a loan are zero here because no operation raises them.

### LoanDesk

A tab is on the page of a loan, in the list of loans or on the collection page, and
works on the copies (`seen`) it loaded last; its dialog, its form, whether a quote is
being fetched, and the request that is out are its state. The server serves a request
in one step: what happens inside one is the matter of `LoanLifecycle` and `Repayment`,
whose transitions it keeps. An answer may be lost; the form then stays for another try.
A repayment remembers, as history, where it was entered, the receipt typed there, the
loan whose settlement was asked for, and whether another loan was then selected in one of the two
ways that keep the choice.

### MpesaPayments and ReceiptBook

A confirmation is four steps: `Deliver` logs the callback (or fails to, and goes on),
`Verify` asks the relay, `Confirm` or `Refuse` is one database transaction, `CloseLog`
writes the outcome. The relay's answer and the matching of a reference are choices; a receipt in
`Matched` names a loan, so that it cannot end unallocated for want of a match. The
callback may be delivered any number of times, up to `MaxRows` rows.
The report ingests receipts one transaction at a time; a collision with a
confirmation gives up the rest (`IngestCollides`). `allocate` and `reset` find their row through
the same query set and so ingest first; `allocate` credits and links in two
transactions, `reset` in one. `Die` ends a request between any two steps. `Teller` is a repayment
entered by hand under the receipt's identifier, and `DeleteRepayment` the generic
deletion, which leaves the loan credited.

A request of `allocate` that has not linked its repayment yet when that is deleted fails
on the foreign key. `byHand` and `undone` are history: what people credited and what they deleted.

`ReceiptBook` promises: a receipt is credited again only when the repayment it was posted
with is deleted, and a stored receipt is eventually listed.

### MemberWorkflow

`rows` are member rows reduced to the registration stage, whether the status is ACTIVE,
and whether the row names who approved it. `tab` is what a tab shows: the list or a
dossier, its copies, the open dialog and the members selected. A request
(`req`) remembers which stage the screen showed (`seen`), reads the rows (`snap`), then
writes in one transaction: workflow operations the columns they name, an edit the
whole row. Each dialog is an action of its own with its own conditions. After success
the screen is loaded again (`Refresh`), which closes dialogs in some cases and fails in
others. `edited` remembers members an edit was saved of, the exception
of the safety properties.

### Registration

`store` is the draft: member, category, step, the two lists and the two single entries of
kin and vehicles, the guarantor. `page` is the wizard page, `loads` the edit loads not yet
answered, `save` the phase of the save: `SaveMember`, then per block `ReadRows`,
`UpdateRow` or `CreateRow` for each entry, `DeleteRow` for what is left over when
editing; `RowsFail` ends a block whose error is swallowed, as the code does. `TimerFires`
is the timer that clears the draft after a success; `LateTimerFires` the one set after the page
was left, which no unmount can cancel. `ReplaceMember` is the dossier, which writes
its member into the same draft.

### MemberAccounts

One module for both books, because they share rows, screens and reversal: `payments` in
and out, `moves` (withdrawals with a payment of their own, or transfers), `journals` found by
document number. A request walks through stages, each write on its own where the
code has no transaction; `Dies` ends it at any of them. Which of the two books a run works on is
chosen at the beginning. The forms of a payment always send a number, which they come with;
the program makes one only for the payment of a withdrawal and for the lines of a file.

`AccountTurns` watches it: `overlapped` as in `LoanTurns`, and `adrift`, the withdrawals that stand
although the money is back in the account. There are two ways to get there without an overlap: the worker
dies after the withdrawal's row and before the key of its payment is written to it
(`savings/models.py:262-280`), and the payment is deleted in the register, which clears that key
(`models.py:246`, `savings/page.tsx:905`). `StandingIsOut` says that there is no third.

### GeneralLedger

`accounts` and `txns` are the tables; a `call` is a request with what its form held, whether
the page still waits for the answer and whether the form it came from is still there (`waited`,
`mine`). A tab is the finance page or the journal desk, with its forms,
dialogs and timers. `tab.posted` and `tab.told` are history: how often what a
form holds was posted, and whether the page told how a posting of it ended. Void, toggle
and delete read the row first and write later. Voucher numbers are left out.

### DeductionRoll

`rows` are the lines of the sheet (`MonthlyDeduction`): of one member in one month the charges, interest and principal
expected for the loans, the registration fee, a rest that stands for savings, shares and others, and the amount paid.
`entries` are the installments of all the loans a member may come to have, each with the `standing` of its loan:
`none` before the loan is paid out, `active`, `doubtful`, `closed`. Generating asks for the sum of what the installments of the
month still want (`Asked`), over active and doubtful loans alike, and estimates where there is none; it never asks for charges,
and no schedule has any.

`Generate`, `SaveCreate`, `SaveEdit` and `Delete` are single requests; every amount of a line can be typed, the amount paid among
them. A regeneration and an upload are transactions, which read their rows (`ReadLines`, `ReadFile`) and write whole copies when
they commit (`SaveLines`, `Commit`), with whatever the other tab did in between. `SaveBatch` stands before the transaction, as in
the code, so a batch outlives an upload that failed. A row another transaction has inserted and not committed makes
`get_or_create` wait (`Waits`). `Commit` shares a remittance out (`Allotted`) and then credits, as the uploader does, *every* unpaid
installment of the month with the whole of the member's part, as far as each was ever due; the installments of doubtful loans
are not among them (`Served`).

Beside the sheet `SaveMember` writes the flag of the fee as the edit of a member does, `Turn` moves loans between standings, and
`PayAtCounter` pays an installment, which `Repayment` details. History says of a line from which schedule its loan parts come
(`asof`) and whether its amount paid was typed or saved over (`altered`); of a line of the log whether it was `fresh`, whether
`several` installments were in it, whether `short` or `over` the allotment reached them, and which uploads it could know of
(`known`, less those whose fee an edit took back, `undone`).

### LoanProducts

`products` are rows in the order of their keys, reduced to code, `active` and two of the terms: `rate` for what
a loan copies, `span` for what an application must keep. `tab` is what a tab shows: `known` is the list it
loaded, `over` what the page says of a status whatever the list says (the table's own changes, the label of the
page of a product), `asked` the loans of members the form has asked for and not heard of. A request (`req`) is
sent, read (a switch and an application read before they write) and answered; `heard` says that its page is
still there. `timers` are the navigations a save set, which fire wherever the tab is by then. `Update` and
`Create` are single steps, since they are transactions that do not use what they read. `past`, `revived` and
`told` are history: the terms a row had, whether it was shown or edited since its code had a new version, and
which tabs know of the last change of its status.

## Runs

Every configuration says `CHECK_DEADLOCK FALSE`: with the bounds reached and all requests
answered, the bounded system rightly stops.

| Run | Shows |
|---|---|
| `lifecycle` | Two workers, two loans of one member, every operation, in turn until two requests overlap, and then on one loan. In turn: at most one open loan; serviced loans owe something and closed ones nothing; closed loans are final. Throughout: no stale copy puts an unpaid application into the portfolio, at most one payout of a loan stands (each further one follows the voiding of its journal), no repaid loan is deleted. |
| `header` | All combinations of small dues and an order without principal (only the sweep reaches it). |
| `repay` | Two workers, three installments of 61 cents in all, flat or on a reducing balance, payments of 7, 31 and 33 on any of seven days: up to five in turn, three once two have overlapped. However they overlap, a running loan never owes less than was disbursed less what was posted, and no installment asks for more than a period's interest. Until two overlap, header and ledger agree and every step is a step of `LoanHeader`; on flat loans installments agree with the header. |
| `desk` | Two tabs, two loans (an application, or two running ones), one receipt, two repayments. |
| `mpesa` | Two workers, one receipt, two log rows, every operation. Completed means credited exactly once and linked, where no repayment was deleted; processed receipts are listed; completed is final; a refused receipt is credited only by hand; and under fairness the receipts implement `ReceiptBook`: the liveness of listing and the single credit. |
| `workflow` | One member, an officer in the dossier and one in the list, two requests at a time. |
| `registration` | Two people, two kin or vehicles, two rows: a new registration and edits of both, with every late answer and failure. |
| `accounts` | Two members, two tabs and two workers that may die at any step; two payments and three writes, until two requests overlap. |
| `deductions` | One member, one month, up to two loans: an operator at the sheet who also uploads, another who uploads, two uploads in all, which may overlap, and one event: an amount typed, an edit of the member, a loan that changes its standing, or a payment at the counter. |
| `products` | One operator at the catalogue and its forms, another at the page of a product and at an application; one code, two sets of terms, three requests. |
| `ledger` | An accountant at the finance page and one at the journal desk, two accounts, two requests, three transactions, amounts 1, 2 and -1. |

This run ends in a counterexample, and its finding quotes what the repository says of itself
(`findings` in `PROJECT.json`):

| Run | Shows |
|---|---|
| `workflow_edit` | Saving an edit of a member writes the stage and the status it read, over a decision taken in between. |

### Other disagreements

These were met while the modules were written. They follow from the actions as they stand, except
where the item says that it was read from the code; no run is kept for them.

* Two applications at once both pass the check for an open loan (`loan_views.py:118`).
* Of two payments that hold the same header the later one writes over what the earlier one took off the
  principal, though both are posted (`repayment_serializers.py:279`): `PrincipalInTurn` ends where two overlap.
* Two transfers at once are both compared with one balance and together overdraw the account
  (`shares/serializers.py:212`): `CoveredInTurn` ends there too.
* Two payments can have one document number, and deleting one deletes the ledger transaction of the other
  (`savings/models.py:134`, `shares/views.py:55-58`).
* On a reducing balance the settlement quote charges one cycle's interest whatever the day (`loan_views.py:541-552`,
  docstring at 531) and the settlement all overdue cycles and the active one, so that the quoted amount need not clear the
  loan. Read from the code: the quote writes nothing and is not modelled.
* A payment that clears a loan fails on an undefined name and is undone
  (`repayment_serializers.py:294`).
* A settlement closes a loan whatever amount was paid (`repayment_serializers.py:281`), and the
  choice to settle stays when another loan is picked with Select or by a refresh of a linked
  page (`collections/receive/page.tsx:477`, `89`).
* The amount paid out is not compared with the amount approved (`loan_views.py:380`).
* A report opened while the relay is asked hides a failed verification
  (`mpesa_service.py:429`).
* A defaulted loan can be deleted although it was disbursed, and its journal loses its
  loan (`loan_views.py:86-92` leaves the status out; line 97 speaks of "preserving
  serviced loans").
* After its journal is voided a loan is paid out again by a disbursement that read it while it was approved
  (`ledger_views.py:120`, `loan_views.py:394`): the void leaves the status, and nothing else keeps the second payout out.
* After a deletion the next loan number is in use and the application fails
  (`loan_views.py:137`, "unique loan number" at 136).
* A loan that aging downgraded can be rejected (`loan_views.py:341`, "Cannot reject
  active or closed loan" at 343).
* After the last due date the last installment's interest is due twice on a reducing balance
  (`repayment_serializers.py:135-152`, "interest is charged only once" at 96).
* A recalculation can ask for more interest in a cycle that was paid
  (`repayment_serializers.py:367-370`, "ZERO interest" at 98).
* A weekly schedule with a yearly rate is recalculated with a month's rate per week
  (`repayment_serializers.py:357-361`).
* A receipt whose log row has left the window of the report is never listed
  (`mpesa_service.py:417`).
* A receipt that failed verification can be allocated by hand (`mpesa_views.py:481`).
* A report opened between the log row and the confirmation of a receipt keeps it from
  being allocated automatically (`mpesa_service.py:278-281`).
* A late save of the aging report or of an approval reopens a loan that was settled
  meanwhile: `ClosedIsFinalInTurn` and `OwedWhileServicedInTurn` hold only while requests do not overlap.
* An edit of a member loads one kin and one vehicle of several; entries the draft does not hold are
  deleted by the save (`ReviewStep.tsx:384`).
* A toggled account that was deleted meanwhile is inserted again, and the dialog's "Mark Inactive"
  activates an account that was inactive; inactive accounts can be posted to
  (`finance/page.tsx:2066`, "preventing any new postings").
* The button "View Line-by-Line Upload vs Usage Audit" of an upload's report opens the audit of
  another batch: it looks the batch up in a list loaded before, and takes the first where it is not found
  (`deductions/upload/page.tsx:874-882`). Read from the code: the audit writes nothing and is not modelled.
* Where several installments of a member fall due in a month, each takes the whole of what was remitted for all of
  them, as far as it was ever due (`uploader.py:384-391`): more is credited than came in.
* What a sheet asks for a doubtful loan is taken from the remittance and reaches no installment
  (`generator.py:53-58`, `uploader.py:375-379`).
* The registration fee is taken again after an edit of the member that held the old flag
  (`ReviewStep.tsx:278-279`, `member_service.py:287`), and by two uploads that overlap.
* An open edit dialog wipes what was remitted meanwhile from the line (`deductions/page.tsx:279`).
* Two journals at once take the same voucher number (`ledger_views.py:326`).
* Every edit of a product shows it again if it was hidden and wipes its limits of amounts: the form sends neither
  (`loanProductMapper.ts`, `product_serializers.py:63-70`, `225`).
* A hidden product can still be applied for from a form that was open: the server does not look at `is_active`
  (`loan_serializers.py:308-335`; "It will leave this grid and new loan applications", `LoanProductTable.tsx:81`).
* The page of a product asks for the other status without naming it, so after another operator's change the button
  "Hide" shows the product (`LoanProductDetails.tsx:73`).
* A notice of an open loan that comes late is shown for, and blocks, the member chosen since (`ApplyLoanForm.tsx:530-543`).
* The table keeps its own changes over what a later list says (`LoanProductTable.tsx:63-75`).
* "automatic immutable versioning" (`product_views.py:20`) is an update in place (`product_serializers.py:208-242`).

### Bounds

* `MaxLoans`: loan rows ever inserted. Two suffice for one member's two applications
  and for a number that is taken. `MCLoanLifecycle` keeps to one loan
  once two requests have overlapped: from then on the run is about copies of one row.
* `MaxPayouts`: two payouts of a loan, so that a second can follow a journal that was voided, or one that was not;
  repayments that bring an old status back would let a loan be voided and paid out for ever. The theorem has no such bound.
* `MaxAmount`: 2, so that a payment can be partial, and an approval can change the amount.
* `Workers`: two. A conflict is between one request that holds a copy and the others,
  which the other worker can serve one after another.
* `MaxRepayments`: five payments (four in the run `header`), enough to pay an installment in part, complete it,
  pay ahead and pay late. It bounds how many requests begin.
* Amounts of payments: less than an installment's interest, less than an installment, more than one.
* `Dues` of `LoanHeader` in the refinement: interest up to 40 cents, more than these
  schedules can ask for.
* `MaxRows`: two log rows, for a validation and a delivery, or a delivery and its repetition; a delivery
  that fails to be logged can come besides. With three rows the run ends well too, after four minutes.
  `Window` stands for the thousand rows the report looks at; it is as large
  as the log, since liveness needs that. `MaxCredits`: a repayment is deleted once and posted again.
* `Opens`, `May`, `Starts`, `Links`: the pages a tab opens and what it starts with. The two tabs of a run
  are given different pages, so that between them every page and every dialog is used; what one tab can do to
  another goes through the tables, and the proofs make no such assumption.
* `MaxRow`, `MaxWrites`, `MaxPosted`, `MaxCalls`: rows and requests ever made. Two calls are one
  that races another or one that repeats another; the rows leave one for a third party.
* A form is left alone while its request is out, except in `GeneralLedger`, where it can be changed.
* The run `accounts` is not explored beyond the first overlap of two requests, of which its properties say nothing, and
  its `VIEW` leaves out the journals, which no action reads. The forms send one number, `Typed`.
* In the run `workflow` a state after a saved edit is not explored further: its properties
  except the edited member, and there is only one.
* `MaxBatches`: two uploads, one a repetition of the other, or for the same line, or overlapping it; `MaxRows`: two lines, so
  that one can be deleted and made again. `MaxEvents`: one thing typed or happening elsewhere; each exception of the properties
  needs one. An installment asks for 2 and the fee is 1, so that a remittance of 3 covers one installment with the fee, and not
  two installments; what is typed is 0.
* `MaxRequests`: three, a change by each operator and one that repeats or corrects. `Periods` and `Usual` are 2, the
  span of one of the two sets of terms and more than that of the other.
* Symmetry is used for workers, members, kin, vehicles and loans (with their installments) in runs without liveness.

### Fairness

Only `mpesa` assumes any:

* a request that has begun makes progress (`WF` on `Progress`): a gunicorn worker runs
  it, or kills it after the time-out of 120 seconds, which is the disjunct `Die`;
* administrators open the report again and again (`SF` on `Report`: a worker is free
  repeatedly, not continuously);
* the ingestion of a receipt that is possible again and again happens at some time
  (`SF` on `Ingest`): not every report dies, or collides, at the same receipt.

Nothing is assumed of the payment service: callbacks need never be repeated. The screens assume
nothing of their operators, who may leave at any time.

## Proofs

All are for every number of members, workers, tabs, loans and calls, every amount and every order.

* `LoanLifecycleProofs`
  * `TypeCorrect`: `TypeOK`. It is not inductive alone: `TypeInv` adds that a worker
    that is not idle holds a row, and that its target is a primary key exactly in the
    stages that write one.
  * `PortfolioWasPaidOut`: `ServicedWasPaidOut`, strengthened with what a copy in memory
    knows: a request that will write a serviced status is about a loan that was paid
    out, or is the disbursement itself. It is why a late aging save is harmless here.
  * `DisbursedOnce`: `PaidOutOnce`, whenever journals are voided. The invariant has five parts: keys not yet used
    have no row and no journal and nobody holds them; all copies of a row carry its number; a journal is posted
    under the number of the loan it paid out, so that two requests for one loan collide; a loan paid out more often than
    voided has a journal; and the property.
  * `RepaidLoansStay`: `RepaidLoanKept`.
  * `OneLoanInTurn`, `PortfolioOwedInTurn`, `ClosedStaysInTurn`: the properties of `LoanTurns`, for any number of workers
    of which at most one is busy. The invariant `InTurn` says that what the busy one holds is current (`Grounded`): an
    application is of a member without an open loan; another request holds a row of the same member, which is open if
    the object is, and is closed only for a settlement that rewrites it as it stands. The proof shows where the need for
    turns comes from: `HoldTurn` and `RespondTurn` use that the others are idle, and nothing else does. That keys not yet
    given out have no row (`AheadIsFree`) keeps an insertion from replacing a closed loan.
  * `HeaderTypeCorrect`, `CentsAccounted`, `PrincipalIsConserved`, `MoneyIsNotIdle` of `LoanHeader`: from the
    invariant `Books`, the conjunction of the last three.
* `OperatorProofs`
  * `SumOfIntegers`: `SumFunctionOnSet` of the community modules, defined by a choice of an element at each turn, is an
    integer on every finite set and takes any element out of the sum, not only the chosen one. Induction over finite sets
    is by `SubsetInduction`, which needs no operator parameter: of the sets for which the claim fails one has no such
    proper subset, as inclusion is well-founded on finite sets.
  * `WaterfallConserves`, `WaterfallPrincipal`: a payment is distributed to the cent;
    principal never takes more than is owed unless a component is named twice; nothing
    is left over while principal is owed. Each is one lemma about a turn of the loop
    and one about the sweep, applied four times and once.
* `MemberWorkflowProofs`
  * `TypesHold`: `TypeOK`, which says of dialogs and requests whom they are about.
  * `ActiveAccountsWereApproved`: `ActiveWasApproved`, strengthened with what a request has read: it
    activates only a member whose row it saw approved, and who approved a member is never erased but by an edit.
  * `UndoneOnlyFromStale`: the action property `UndoneFromStale`, from `SeenInv`: a dialog that moves a stage is open
    over what its page still shows, since reading the page anew closes it, and a request keeps the stage its button
    was offered in.
  * `WizardTypes`, `NormalMembersComplete`, `SavesAsReviewed`, `RowsOfOwnMember` of `Registration`, for any people, kin
    and vehicles and drafts of any length: one invariant, `WizardInv`, says of the draft that what the steps passed ask for
    is there (`StoreInv`), of the server that rows have keys of their own and a registered owner (`ServerInv`), and of a
    save in flight what each block of it has done so far (`SaveInv`): while no call has failed, a block that is over left
    the rows of the form and one under way accounts for every row and entry. The rows a save has read are those of its
    member, and a key keeps its owner.
* `LoanDeskProofs`
  * `SlipsCreditedOnce`: repayments from the page of a loan carry the receipt as their reference, and references are unique.
  * `SettlementsAsked`: the form of every tab, and every form sent, is early only for the loan it was
    asked for, or moved.
  * `PaidOutAsApproved`: `DisbursedAsApproved`, from an invariant about stale copies: a loan a tab
    has seen approved was approved with that amount and is not approved again with another; so the amount a dialog
    offers is the one approved, or was typed.
* `GeneralLedgerProofs`
  * `EveryJournalBalances`: by case on the three forms; with two legs of which each has one side, equal
    totals mean one debit and one credit of the same amount, whatever the signs typed.
  * `EntriesKeepAccounts`: deletion requires that no entry names the account at the moment it is deleted (the
    database protects entries), a key is never given out again, and a late save only brings rows back.
  * `PostedAgainOnlyIfTold`: `TellInv`: each call belongs to the tab and the form that sent it, at most
    one call of a form is waited for, and a form that was posted and not told about is being waited for.
* `MpesaPaymentsProofs`, for any number of receipts, workers, log rows and late callbacks
  * `CompletedStays`, `ProcessedIsListed`: from the types, which say that a worker owns the row of the log it will
    write, and that nobody else can take it away.
  * `CompletedWasCredited`: `CompletedIsCredited` is inductive with two more facts (`MoneyInv`): the repayment a
    manual allocation is about to link is there, and, while none is deleted, a receipt was credited as often as it has a repayment.
  * `RefusedStaysUncredited`: a verdict is written once, and every way to a credit is a confirmation or an operator.
  * `BookIsKept`: the steps of `ReceiptBook` are matched, one action after the other: a step lists a
    receipt, credits one without a repayment, or is invisible. It needs `Found`: who allocates, links or resets has
    found its receipt in the table, from which none is ever removed.
  * `AccountsTypes` of `MemberAccounts`: `RowsInv`, for any number of requests at a time. A copy saved over a deleted row
    takes back the key it had, so that the invariant says of a copy that its key was given out and is the one asked for.
  * `AccountsAreCovered`: `CoveredInTurn` of `AccountTurns`, for any number of tabs and workers. `CoverInv`, which holds until
    two requests overlap: between the check of a withdrawal or transfer and its last row, the account still holds what
    it was checked for. The sums change by one row, or by the rows of a file, as `OperatorProofs` says.
  * `StandingIsPaid`: `StandingIsOut`, wherever workers die. `MovesInv`, until two requests overlap: a payment is joined
    to one withdrawal at most, a withdrawal about to be joined has its amount and its payment, not reversed, and what a
    cancellation has saved stands no more before its payment is reversed. `Drift`, whatever overlaps: a
    withdrawal that stands without a payment is on its way to it, or is `adrift`.
* `LoanProductsProofs`, for every catalogue the organization starts with in which no two products have one code
  * `LoansKeepTerms`: `TermsOfOneProduct`. What an application has checked are terms its product had at the time
    (`Checked`); `past`, a history variable, only grows and holds the terms of now (`Remembers`).
  * `VersionsStaySingle`: `OneVersionOnOffer` is inductive: a new version hides its siblings in the statement that
    inserts it, and what shows one again is `revived`.
  * `LabelsStayTrue`: `LabelIsTrue`. While nobody else writes a row, a page that shows it either shows its status, or
    the answer that will tell is on its way to it (`Knows`); a table remembers switched
    labels only of rows it lists (`Page`).
  * `RepaymentTypes` of `Repayment`, for any schedule, rate, order of allocation and requests at once: no balance and no
    book below zero.
  * `DebtIsNotForgiven`: `NothingForgiven`, for any number of requests at once. The header and every copy of it in a
    request owe at least what was disbursed less what was posted (`ForgivenInv`): postings only grow, and a payment
    takes off the copy what it posts. A payment can be lost from the header; a debt is not.
  * `BooksAgreeInTurn`: `PrincipalInTurn`, for any number of workers: until two requests hold the loan at once, what a
    worker holds is the row, and a payment takes off the header what it posts (`BooksInv`).
  * `HeaderIsKept`: `HeaderStepsInTurn`, for any number of workers and with every amount of interest possible: until two
    requests hold the loan at once, what a worker holds is the row (`HeldInv`), so that each `Record` is a
    payment of `LoanHeader` for the interest that the schedule asked, each settlement a settlement, all else a stutter.
  * `RateIsKept`: `InterestAtLoanRate` of a reducing balance with at most twelve periods a year; the principal a worker
    holds is never above the amount disbursed, and rounding is monotonic.
* `DeductionRollProofs`
  * `RollTypes`: `TypeInv`. Each stage of a request has its own record; an upload holds lines of its file only; an installment
    is settled exactly when it is paid; a line asks for what the schedule asks for that it was figured from (`AsFigured`).
  * `FeesTakenOnce`: `FeeTakenOnce`, with three more facts (`FeeInv`): batches of uploads that go on are new and differ
    (`BatchesApart`), an upload knows only what was committed before it (`KnownFirst`), and whoever it knows to have paid
    is exempt (`KnownPays`), since what an edit of the member took back is `undone`. So of two lines that took the fee the
    later one did not know of the former.
  * `LoanPartsReachSchedule`: `LoanPartReachesSchedule`. A line that is `fresh` asks for a sum over the schedule that the upload
    has read (`AsFigured`), and every installment of it takes what it can of the whole: together they take at least what was
    allotted (`SumCovers`, by induction on the subsets of the schedule), and one alone takes no more.
  * `PaymentsAreRemitted`: `PaidIsRemitted`. Keys of new lines are greater than all given out (`KeysGiven`), the log
    says nothing of a line that is about to be inserted (`NewUnknown`) and is finite (`LogsFinite`), so that the commit of an
    upload adds to the sum what it adds to the line, unless the line is `altered`, which it then stays.

The assumptions are the named `ASSUME`s of the modules, which TLC evaluates in the runs.

Only model-checked:

* `InterestInTurn` and `ScheduleInTurn`: the schedule rounds each installment on its own, so that
  they hold to the cent for the loans of the runs and not for every amount and rate.
* `InterestAtLoanRate` of a flat loan, whose interest is rounded twice, once in the total and once a period, and of a loan
  with more than twelve periods a year.
* The liveness of `ImplementsReceiptBook` and everything under fairness: the prover has no rule for `ENABLED`.

The theorems about `LoanTurns`, `RepaymentTurns` and `AccountTurns` assume nothing of the number of workers: they
say what holds until two requests overlap. What cannot happen even then is `PaidOutOnce`, `ServicedWasPaidOut`,
`RepaidLoanKept`, `NothingForgiven` and `InterestAtLoanRate`; what can is in the list of other disagreements.

## Not modelled

* The settlement quote, and the audit and report pages of deductions: they write nothing. What they show is compared
  above, as read from the code.
* Generic `PUT` and `PATCH` of loans, the statuses no operation sets, previews, alerts.
* Compound interest and the weekly product with a monthly period; their schedules come
  from `services/engine/microfinance.py`.
* Reversal of a repayment: it orders schedule entries by `installment_number`, a field they
  do not have, and always fails.
* A payment on a reducing-balance loan whose installments were paid in part before a
  recalculation leaves header and installments apart (the recalculation ignores what was
  paid); no text promises otherwise, so `ScheduleInTurn` is about flat loans.
* Journals of savings and shares whose posting fails: the failure is swallowed and the payment stays without one.
* Parsing of callbacks and references, wording of messages, tables, filters, charts, printing and exports,
  permissions beyond which buttons they show.
* The components marked `not_modelled` in `PROJECT.json`, with their reasons: mostly forms over a
  single row, arithmetic without state, and output.

## What is left

1. The microfinance engine as operators, against the closed form of a
   schedule: the principal adds up, no negative balance.
