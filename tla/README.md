# A verification of backbone-edi

backbone-edi receives a partner's documents (purchase orders, invoices, ...),
maps each to an internal document through a port, and tells the partner what
became of it. Partners retransmit, several requests may carry the same document
at once, and any of them may be cut short. These modules model that exchange and
the import of UBL orders in front of it, check them with TLC, and prove with TLAPS
every safety property the passing runs check, for any number of calls, slots,
documents, order lines and administrators, and the refinement of the abstract
document life (next to the CRUD surface, up to the stale saves that surface
allows). Liveness is model-checked.

Paths below are relative to the repository. EWS is
`src/application/service/edi_write_service.rs`, REPO is
`src/infrastructure/persistence/edi_document_repository.rs`.

## Inventory

| Part | State | Operations | What makes it correct |
|---|---|---|---|
| Inbound exchange core: EWS `claim_and_settle`, `settle_inbound`, `record_ubl_refusal`, `acknowledge`; REPO | `edi.edi_documents`, the outbox, the target's orders, the in-process sink | claim, fetch, re-drive, map, settle, record a refusal, publish, re-read, acknowledge | one order per business document; table, outbox, replies and acks agree; settled documents stay settled; nothing is stranded |
| UBL intake: EWS `receive_ubl_order` | the partner row (read) | gate, size guard, parse, dispatch to the core or to the refusal path | nothing is stored for a document that is not admitted; an identifiable refusal is durable |
| UBL parser: `ubl/parser.rs`, `ubl/model.rs` | none | `parse_ubl_order` | nothing unusable is accepted, no line is lost, all problems are reported together |
| Refusal rendering: `ubl/error.rs` | none | `detail_line` | the line fits the column and accounts for every problem |
| Canonical payload: `ubl/payload.rs` | none | `to_payload` | a host that reads only the payload orders what the document says, from whom it says |
| Trading partners: `trading_partner_repository.rs`, generic service | `edi.trading_partners` | `create_partner`, CRUD, `fetch_partner_gate` | the gate sees the partner's declaration; no write adds unusable text to a row |
| Generic CRUD: services, handlers, DTOs, entities | both tables | create, update, soft delete, restore, purge, bulk | a document goes through its life by the exchange alone (a stale save can break that); the row rules let nothing through that the CHECKs refuse, and leave old rows editable |
| Schema migrations | the tables, CHECKs and the dedup index | DDL | the unique index is the dedup |
| Outbox relay | `outbox` | deliver staged events (backbone-outbox, not in the repository) | at least once, in commit order |
| Event store and snapshot store | none (the directory is not compiled) | append, read, snapshot | - |
| Request pool, wiring, exports, generated events, seeders | none | - | - |

How they interact: the intake reads the partner row, parses, and calls the core
or the refusal path in the same request. The core talks to PostgreSQL statement
by statement, each autocommitted, except for the transaction of a settlement
(guarded UPDATE and outbox INSERT); to the target through `MappingPort`; to the
in-process sink through `EdiEventSink`, after the commit. Two requests meet only
in the database and at the target. The CRUD surface writes to the same tables.

What is hard: copies of one document racing through every statement of each
other; a copy re-driving a row that another is still settling; a call that dies
between the target's answer and the settlement; refused and valid copies of one
document in any order; an acknowledgement in the middle of all that; and, in the
import, that all problems of a document reach the partner at once, within the
column. PROJECT.json lists each of them, at its line, as a hazard.

## Modules

| Module | What it is |
|---|---|
| `EdiLifecycle` | the abstract specification: the life of a business document, its event log and the polarity of its acknowledgement |
| `EdiExchange` | the exchange core: EWS, REPO, the outbox, the target, the sink |
| `EdiExchangeInv` | the inductive invariant `IInv`, in named parts |
| `EdiExchangeProofs` | the proofs of the safety properties |
| `EdiExchangeRefinement` | the proof that `EdiExchange` implements `EdiLifecycle` |
| `MCEdiExchange` | the instances TLC checks |
| `ListLemmas` | what the list operators of the library (`FlattenSeq`) and functions over lists compute |
| `UblOrder` | `parse_ubl_order` and its helpers, as operators |
| `UblRefusal` | `detail_line`, as operators |
| `UblPayload` | `to_payload` and what a host's adapter makes of it, as operators |
| `UblImport` | what is done with a document before the exchange sees it: parse, write the payload, render |
| `MCUblImport` | the documents and the problem texts TLC enumerates |
| `UblRefusalProofs` | the proofs about the rendered line |
| `UblImportProofs` | the proofs of the properties of the parser, the payload and the line |
| `UblIntake` | the whole service: `receive_ubl_order` and `receive_document` in front of `EdiExchange`, with the parser and the rendering, and a partner row that changes under them |
| `UblIntakeProofs` | the proofs that the intake uses the exchange as specified and lets nothing through that is not admitted |
| `MCUblIntake` | the partner rows and the transmissions TLC enumerates |
| `EdiAdmin` | the exchange with the generic CRUD surface of documents mounted next to it |
| `EdiAdminInv` | its inductive invariant `AdminInv`, in named parts |
| `EdiAdminProofs` | the proofs of its safety properties and of its refinement of `EdiLifecycle` |
| `MCEdiAdmin` | the instance TLC checks |
| `RowRules` | the text of a row of either table, and the three guards that keep it usable: row rules, blank tests, CHECKs |
| `RowRulesProofs` | the proofs that the guards fit together |
| `MCRowRules` | the tables TLC checks |

### EdiExchange

A *call* is one request that carries one document. Its identifier also names
what it creates: the row it inserts, the copy of the envelope it carries, the
order the target opens for it.

| Variable | Code |
|---|---|
| `row[k]` | the row of `edi.edi_documents` in dedup slot `k` (partner, inbound, business_key): status, id, doc_type, whose envelope (`copy`), mapped_ref (`ref`), whose error (`error`) |
| `outbox[d]` | the rows `stage` inserted for document `d`, in commit order |
| `orders[d]` | the target's order for idempotency key `d` |
| `msg[c]`, `pc[c]`, `doc[c]`, `answer[c]`, `reply[c]` | the local state of call `c` |
| `ackPending`, `ackEvents` | acknowledgements between their UPDATE and their publication, and published |
| `published` | what the in-process sink received |

| Action | Code |
|---|---|
| `Claim` | `claim_inbound`: `INSERT ... ON CONFLICT DO NOTHING` |
| `Fetch` | `fetch_inbound_by_business_key` and the `redrivable` test |
| `Reset` | `reset_for_redrive`, or the stored outcome when it matches nothing |
| `MapAccepted`, `MapRejected` | `mapper.map_inbound` |
| `SettleMapped`, `SettleFailed`, `LoseSettlement` | the transaction of `settle_inbound` |
| `RecordRefusal`, `LoseRefusal` | `record_parse_failure` |
| `Publish`, `Reread` | after the commit; `stored_outcome_for` |
| `Acknowledge`, `PublishAck`, `DropAck` | `acknowledge`, whose publication may be lost |
| `Die` | a `?` on a database error, a dropped request, a crash |

Grain of atomicity: a statement on the pool autocommits and is one step. A
guarded UPDATE of PostgreSQL at READ COMMITTED re-evaluates its WHERE on the row
version it locks, and `ON CONFLICT` waits for a racing insert, so each is atomic.
The settlement's transaction holds the lock of the row from the UPDATE to the
commit and touches no other row the model reads, so it is one step. The
acknowledging UPDATE captures the old state in a locking CTE and is one step.
The target's answer is one step although the call may be slow: `MapAccepted` of
a dead call is not needed, since a call that dies just after `MapAccepted` leaves
the same state. The target validates a copy before it looks up the idempotency
key, as the adapters of the tests do, so it may reject one copy after it
accepted another.

Left out of `EdiExchange`: the text of payloads and reasons, companies and
tenancy scopes, and the generic CRUD surface, which is in `EdiAdmin`. The checks
at the entry are in `UblIntake`.

### UblOrder, UblPayload, UblRefusal, UblImport

Every field of a document is abstracted to the class of its content that the
parser tells apart (see the head of `UblOrder`); "loose" dates are those chrono
reads although they are not yyyy-mm-dd. `OrderProblems` has the problems in the
order of the source; `ParsedOrder` is what is built when there is none.
`UblRefusal` abstracts a text to its length in bytes and the offsets that fall
inside a character, because `detail_line` measures bytes and `String::truncate`
panics inside a character. `CapAssumption` says that the line is longer than the
suffix that ends it, `ItemsAssumption` that a rendered problem (a code, an
element and a detail) is too. `UblPayload` renders what was parsed: an absent
optional is null, a date is written out in the ISO form whatever spelling it was
read from, everything else is the class that was read. A `schemeID` is told by
the element that carries it, so that an id and a scheme of two elements can be
told apart; the attribute is optional (`schemes`), and missing and blank are one
to `node_attr`. `HostOrder` and `BadPayload` are the adapter of
`tests/edi_selling_seam.rs`, which shows what a host does with the payload; it
puts zero for an amount it cannot read. `UblImport` joins them: a document is
parsed, and then either its payload is written or its problems are rendered. A
problem whose detail quotes the document (`Quoting`) renders to any of the given
texts; the message of every other one is a constant of the parser and fits.
Fields carried verbatim and without a branch (profile, issue time, description,
units, buyer reference) are left out.

### UblIntake

Extends `EdiExchange` (everything from the claim on) and uses `UblOrder` as
`Parser` and `UblRefusal` as `Renderer`. `content[c]` is the name of what call
`c` delivers, and what the parser says of that content fixes the message the
exchange gets.

| Variable | Code |
|---|---|
| `partner` | the row of `edi.trading_partners` the calls name: status, direction, format, or none |
| `gate[c]` | the `PartnerGateRow` call `c` read |
| `intake[c]` | how far the call came: arrived, turned away (`not_found`, `invalid`, `ubl_refused`), `admitted`, `entered` the exchange, `db` (the claim failed), `panicked`, `cut` |

| Action | Code |
|---|---|
| `PartnerUnknown`, `PartnerUnfit` | the gate: `NotFound`, `Invalid` |
| `RefuseAnonymous` | the size guard and a refusal without business key: `UblRefused`, nothing stored |
| `AdmitUbl`, `TakeDocument` | a parsed or identified document goes on to the claim; `receive_document` has blank checks and no gate |
| `Enter`, `ClaimFails` | the claim: `EdiExchange!Claim`, unless a CHECK or the foreign key refuses the row |
| `Panic` | `detail_line` panics inside the transaction of `record_parse_failure`, which is dropped |
| `Proceed`, `Elsewhere` | the steps of the exchange |
| `UpdatePartner`, `DeletePartner` | the generic CRUD surface on the partner's row |
| `Cut` | a call dropped before its claim |

Only the gate's read is awaited before the claim, so the gate, the size guard and
the parse are one step and the claim is another; the partner's row may change
between them. No column of a partner is write-protected (`apply_patch`). A hard
delete is refused while a document refers to the partner. A soft-deleted row
still reads as it is, so soft deletion changes nothing here. PostgreSQL evaluates
CHECKs before `ON CONFLICT`, so a row that breaks one is an error also when the
slot is taken. A call whose rendering panics is one of those that may die
(`IntakeInit`).

### EdiAdmin

Extends `EdiExchange` by the CRUD routes of `EdiDocument`. A PUT or PATCH can
change `partner_id`, `direction` and `business_key`, which moves a row to another
dedup slot, and a purge empties a slot. So the statements of the exchange are
modelled again, each with the way it really finds its row: the claim, the fetch
and the re-read by slot, the reset, the settlements and the acknowledgement by
id. A fetch or re-read of a slot that was emptied is `RowNotFound`, and the call
ends (`dead`).

| Variable | Code |
|---|---|
| `trash` | documents with `metadata.deleted_at` set |
| `loads` | the PUTs and PATCHes between their load and their save, with the row they loaded |
| `touched` | history: slots a row was moved out of or into, or purged from |
| `purged` | history: the row of a document when it was purged |
| `reverted` | history: documents whose lifecycle columns a save took back |

| Action | Code |
|---|---|
| `FetchRow`, `ResetById`, `SettleById`, `LoseById`, `RereadSlot` | the statements of the exchange, as above |
| `Create` | POST and the rows of POST /bulk: a fresh document, `received`, that nobody drives |
| `Load`, `Save`, `Drop` | PUT, PATCH and the upsert of a stored row: the entity is loaded, edited in the columns a body may carry, and saved whole by its id, in place or into a free slot; or the request ends without an UPDATE |
| `SoftDelete`, `Restore` | DELETE /:id, POST /:id/restore |
| `Purge` (`PurgeOne`, `EmptyTrash`) | DELETE /trash/:id, DELETE /empty |

The generic service is in backbone-core, outside the repository, so what it does
between the load and the save, and which columns its UPDATE names, are left open.
`apply_update` and `apply_patch` work on a loaded entity and the repository's
`update` takes the whole of it, so the exchange may settle, re-open or acknowledge
the row in between. `write_protected_fields` (`edi_document.rs:241`) lists the
lifecycle columns, but not whether the UPDATE leaves them out, so a save writes
them as they are stored or as they were loaded (`SavedVersions`); in the second
case, when they differ, the document is `reverted`. A row trashed between the
load and the save is found or not, and comes back with its loaded metadata or
not. Assumed: no request body sets a write-protected column (the DTOs lack them,
and `docs/extension-guide.md:23-25` tells clients not to use PATCH for it,
although `apply_patch` by itself would take the keys), and a load does not find
a document in the trash. The row rules (`EdiDocumentRowRules`) and the CHECKs
only refuse writes (`Drop`) and are in `RowRules`. An edited control number and
payload go by the id of the row.

### RowRules

The state is one of the two tables (`table`), reduced to the text columns that
have rules; a text is fit, blank, of tabs, or too long. Rows are older than the
rules: `Init` allows any text in any row.

| Variable | Code |
|---|---|
| `place[i]`, `row[i]` | where the row with id `i` is (live, trash, purged) and its ruled columns |
| `checks` | the CHECKs installed, one for each rule |
| `loads` | the PUTs and PATCHes between their load and their save, with the row they loaded |
| `ruled` | history: rows the generic service wrote and the write service did not |

| Action | Code |
|---|---|
| `Register`, `Redrive` | `create_partner` and the claim; `reset_for_redrive`: SQL that passes the blank tests and the CHECKs, but not the rules |
| `Post` | `From<Create...Dto>`, `WriteKind::Create`: every rule is asked |
| `Load`, `Save`, `Refuse` | PUT and PATCH: `apply_update` or `apply_patch` on the row as loaded, the rules of the changed columns, the whole row saved |
| `SoftDelete`, `Restore`, `Purge` | no rule is asked |
| `Migrate`, `Rollback` | one DO block of the up migration; one line of the down migration |

Assumed of the generic service (backbone-core, outside the repository): an update
loads the row, applies the DTO, shows the guard the row as loaded and as it would
be stored, and saves all of it by id, not conditionally; `WriteCtx`, with its
`before` and `after`, asks for that. Whether a save finds a row that went to the
trash after the load is left open (both happen). Of a DO block, the EXISTS and
the ALTER are one step, since the ALTER checks the stored rows again under its
lock; if a row came in between, the block fails and installs nothing. The enum
columns have no rules and are left out. `partner_id` is ruled, but a uuid is
never blank. `payload` is ruled and written but not tested by the write service.

## Runs

| Run | Instance | Shows |
|---|---|---|
| `EdiExchange_safety` | 3 calls, 2 keys, any of them may die | the invariants and action properties below, the inductive invariant, and the refinement of `EdiLifecycle` |
| `EdiExchange_liveness` | 3 calls on 1 key, 2 of them may die | a transmission that is not cut short settles its document |
| `EdiExchange_lost_refusal` | 3 calls, 1 key | violated: a losing refusal answers `failed` for a document that never failed |
| `EdiExchange_lost_ack` | 3 calls, 1 key | violated: an acknowledged document whose event nobody holds |
| `EdiExchange_type_collision` | 2 document types | violated: an invoice dropped as a retransmission of an order |
| `EdiExchange_orphan_order` | nobody dies | violated: a negative acknowledgement of a document that has an order |
| `UblImport_safety` | all orders at most two fields away from a sound one, of 0 to 3 lines (budget 2), cap 60 | the properties of the parser, of the payload and of the rendering |
| `UblImport_long_line` | as above | violated: an identified order whose first problem quotes an over-long text (an issue date that is no date, say) renders to a line that exceeds the cap |
| `UblIntake_safety` | 2 calls, 1 key, ten kinds of transmission, four partner rows | only admitted documents leave traces, the intake implements `EdiExchange`, an admitted document settles |
| `UblIntake_durable` | as above | violated: an identified refusal over the payload column leaves nothing behind |
| `EdiAdmin` | 2 calls, one of which may die, 2 slots, any number of CRUD writes, one PUT or PATCH under way at a time | a save of stale lifecycle columns is the only thing that takes a document out of its documented life or parts it from its events; slots nobody moved or purged keep the promises of the exchange |
| `RowRules` | 1 row, 2 racing requests, both tables (documents without business_key), every subset of the CHECKs | the guards fit together: nothing stored breaks an installed CHECK, old rows stay editable, what the rules admit the database takes, and new breaks have a known origin |

Safety properties of the exchange: `RowAgreesWithOutbox` (the last event staged
for a document says what its row says), `MappedIsFinal`,
`OneOrderPerBusinessDocument`, `AckAgreesWithOutbox`, `AcksNameADriver` (the
control number in an acknowledgement is that of a transmission that drove the
document), `PublishedWasStaged`,
`PositiveRepliesHold`, `OutcomesAreBacked` (nothing is reported before a
settlement is staged), `StrandedOnlyByDeath`, `OpenRowsCanBeRedriven`, and the
action property `SettledRowsStaySettled`. `ImplementsLifecycle` is the
refinement.

Properties of the import: `AcceptedOrdersAreBuilt` (the parser's two `expect`s
hold), `NoLineIsLost` (the host's order has every line of the document, with its
quantity and price), `PayloadKeepsIdentities` (a scheme is that of the id it
stands by, an id without one comes from an element without one, an item is
labelled by the element its code comes from, and a buyer whose id is hidden by an
empty element is still named by its endpoint),
`OneRoundOfCorrections` (the document with exactly the
reported elements put right is accepted), `AnonymousRefusalsAreExplained`,
`EveryProblemIsAccountedFor`, `JoiningKeepsTheCap`, `NothingIsElidedNeedlessly`.

Properties of the intake: `TracesWereAdmitted` (a UBL document leaves a row, an
event or an order only if the partner's row its call read was active, inbound and
ubl_bis3, and the document within the budget and identified; an order only if the
parser accepted it), its inductive strengthening `IntakeInv`, the refinement
`ImplementsExchange`, and the liveness property `AdmittedDocumentsSettle`.

Properties next to the CRUD surface, document by document (by id, wherever its row
is): `DocumentsKeepTheirLife` (every step is a step of `EdiLifecycle`, or a save
that takes this one document back to what it was when it was loaded, stages
nothing and touches no other document), `DocumentsAgreeWithOutbox` and
`DocumentAcksAgree` (the row and the acknowledgement say what the outbox said
last, unless a save took the document back), and the inductive invariant
`AdminInv` (which has `AdminTypeOK` and both among its parts). Stale saves really
do the rest: a PATCH that loaded `received` before a settlement can write it back
after `EdiDocumentMapped` is staged, a save of `failed` over a re-driven row turns
the polarity of the acknowledgement, and so `RowAgreesWithOutbox`,
`AckAgreesWithOutbox` and `PositiveRepliesHold` do not hold here as they stand.
Slot by slot, unless a row was moved out of, into or purged from the slot:
`UntouchedSlotsHaveOneOrder`, `UntouchedRepliesHold` (which also excepts documents
a save took back), `UntouchedCallsAnswer` and the liveness property
`UntouchedDocumentsSettle`. Moving or purging really does break them: a
retransmission then opens a second order. The code says so of the surface ("they
bypass all business invariants", `edi_document_handler.rs:148`).

Properties of the row guards: `InstalledChecksHold`, `RulesShieldChecks` (a
database error instead of a 422 happens to an update only if it writes back a
value that somebody mended after it was loaded), `LegacyRowsStayEditable` (any
one column of a row can be mended, whatever is in the others) and the action
property `NoWriteAddsABreak` (a row comes to break a rule only through text that
the write service does not test, or through a save of what was loaded broken).

Bounds. Three calls are what the races need: one that drives a row, one that
re-drives it, one that arrives late or settles in between; a fourth on one key
adds 3.2 million states and no violation. Two keys show that slots do not
interfere. Each call is one transmission, so the number of transmissions is
bounded by the number of calls and nothing else is. The calls and the keys are
interchangeable (symmetry), except in the liveness run, which distinguishes
fallible calls and uses none. In the import, the line budget is 2 instead of 500
and the cap 60 bytes instead of 1000, with the real separator (2 bytes) and
suffix (8 bytes and the digits of the count). Every text is longer than a suffix,
as rendered problems are; the texts are chosen so that an item just fits, just
misses, leaves or does not leave room for the suffix, or is over-long alone, with
and without two-byte characters where the cut falls. In the intake, where only
the panic of the rendering matters, the cap is 30. Two changed fields make every
pair of problems meet, which is what hides one problem behind another. In the
intake, two calls of ten kinds each let every kind race every other on one key,
and there is a partner row that is admitted and one for each reason not to be;
three calls race in the exchange's own run. The same holds of `EdiAdmin`, where
two calls leave room for a call at every step and an administrator between any
two of its statements, for a second transmission into a slot that was freed, and
for a transmission into the slot of a row that was POSTed (which is to it what
the row of a dead call is); its first call's slot is fixed, slots being
interchangeable, and is not one of a refused document. One PUT or PATCH is under
way at a time, and it loads before any row was moved, purged or taken back
(`LoadBound`); its save, and every other write, may come at any time after. That
keeps the run at 423,000 states; the theorems have no such bound. In `RowRules`,
one row is enough for everything that is about one row, two requests let a save
meet a row that another save has mended since; several rows only meet in
`Migrate`, and the theorems cover them. The document table is checked without
`business_key`, which is ruled, tested and limited as `control_number` is.
Deadlock checking is off, except in `RowRules`: transmissions run out, and nobody
has to acknowledge.

Fairness. `FairSpec` has weak fairness of each call's own next step: the runtime
polls every task that can run, and the database and the target answer. A call
does not have to start, to die, or to be acknowledged. The liveness property is
about a call that is past its claim and may not die. It does not say that the
row stays settled: a later re-drive may re-open a rejected document and die.
`IntakeFairSpec` adds that an admitted call makes its claim, successful or not;
nothing forces a transmission to arrive or a partner to be changed.
`AdminFairSpec` is that of the exchange; no CRUD request ever has to come.

## Proofs

Every safety property and every refinement of a passing run is stated by a
theorem; PROJECT.json says which.

### The exchange

The theorems of `EdiExchangeProofs`, `EdiExchangeRefinement`, `EdiAdminProofs` and
`UblIntakeProofs` hold for every set of calls, keys and document types, and those
of the intake for every set of partner rows and transmissions. They assume only
`CallsAssumption` (the null value is not a call; fallible calls are calls) and
`DocTypesAssumption`.

The safety properties are not inductive: that a call in `settle` with an answer
carries the order of its own document, for example, is nowhere in them. `IInv`
adds what a call knows at each of its steps (`CallsInPlace`), which columns of a
row are set in each status (`RowsWellFormed`), that only stored documents have
events and orders, that a reference is the target's order and survives the
acknowledgement exactly when the last event says mapped (`RefsAreOrders`), that
what a call is about to publish is staged (`CommittedWasStaged`), that a reply is
not taken back (`RepliesHold`) and that an acknowledgement belongs to an
acknowledged row (`AcksOfAcknowledged`). `Invariance` proves it, with one lemma
for each action or group of actions that disturb the same conjuncts; the safety
theorems follow. `Refinement` proves that `Spec` implements `EdiLifecycle`: the
claim is `Receive`, a settlement is `Accept` or `Reject`, a reset is `Reopen` or a
stutter, an acknowledgement is `Close`, and every other step is a stutter.

`Backed` is proved from `IInv` before and after a step: once a settlement of a
document is staged it stays staged, and a call is told an outcome only after its
own settlement or after it saw a row that is no longer received.

`AcksNamed` needs one more fact than `IInv`: the envelope of every stored row is
that of a call which holds its document (`CopiesDrive`). A claim and a reset
establish it, the settlements and the acknowledgement keep the envelope, and a
call that holds a document keeps it (`DocPersists`).

### The intake

`IntakeImplementsExchange` maps `Enter`, `Panic` and `Proceed` to steps of the
exchange and everything before the claim to stutters; `ServicePromises` carries
theorems of the exchange over to `IntakeSpec`. `TracesAdmitted` follows from
`IntakeInv`, which adds to it that a call that left anything is past its claim
(`LeftByCaller`, from what each statement writes: `CopyByCaller`,
`OrderByCaller`, `EventByCaller`), that a call is admitted by the row it read
(`AdmissionStep`) and that only documents that were not refused are mapped
(`MapsUnrefused`).

### The exchange under the CRUD surface

What `IInv` says of a slot is false once an administrator can move or purge a
row, and so the invariants of the exchange do not carry over. `AdminInv` says it
of the document instead, through `RowOf`: its row in whatever slot it is, or as it
was when it was purged (`DocumentsWellFormed`, `DocumentsAgreeWithOutbox`,
`AcksOfAcknowledgedDocuments`). That an id has one row, and none once it is purged
(`RowsHaveIds`, `PurgedAreGone`), makes `RowOf` a function of the document that
moves and purges do not change. What a call knows of its own slot is claimed only
while the slot is untouched (`CallsKnow`, `UntouchedReplies`,
`UntouchedCallsAnswer`).

The proof reduces the actions to their effect on rows. A step writes rows in
one of four ways: in place (`InPlace`), into a free slot (`Inserted`), from one
slot to a free one (`Moved`), or it purges (`PurgeEffect`); the `...Effect`
lemmas say which for each action, and `EveryStepIsGood` collects them into what the
step made of each document (`DocumentCases`) and of each slot nobody touched
(`SlotsLast`): it was left as it is, created, rewritten with its lifecycle columns
as they are, taken back to those a request had loaded (`Reverted`), re-opened,
settled or acknowledged. `SaveEffect` is the lemma that tells the two kinds of save
apart. Each part of `AdminInv` then has one lemma. Two parts are about the saves:
`LoadsAreRows` (what a request holds was the row of a stored document, with a
status and a reference that fit each other, so that a save of it leaves a row the
guards understand) and `RevertedAreDocuments`. `AdminRefinement` uses the same
cases: a document that was created is `Receive`, a settled one `Accept` or
`Reject`, a re-opened one `Reopen`, an acknowledged one `Close`, one taken back is
`TakenBack`, and everything else an administrator does to the row of a document
is a stutter of its life.

`ReplaySafeUntouched` needs to know who opened an order (`OrdersOfHolders`): two
orders of one untouched slot were opened by two calls that hold their documents,
and each of them holds the one whose row is in the slot.

### The row guards

The theorems of `RowRulesProofs` hold for all tables whose tested and rewritten
columns are ruled (`TablesAssumption`), any number of rows and of requests.
`RulesInv` is nearly inductive by what it says: types, `InstalledChecksHold`, and
that a free id was never written. Its step has one case for each action that
stores text, in the trash too, and the migration. `RulesShield` and
`LegacyEditable` follow from it and from two facts about the guards: what breaks
a CHECK breaks the rule of the same column and kind (`RulesCoverChecks`), and fit
text breaks neither. `BreaksAreExplained` is an action property with one step for
each action.

### The import

The theorems hold for all documents (any number of lines and notes, every
combination of the classes), all texts and every cap. They assume that documents
are built of those classes (`DocumentsAssumption`), `MaxOrderLinesAssumption`, and
for the line `CapAssumption` and `ItemsAssumption`. `ImportInv` is inductive by
its shape: what is held is what the operators make of `doc`. The work is about
the operators.

Lists: `FlattenSeq` and recursive functions over the positions of a list are
defined by `CHOOSE` of a function that satisfies an equation, so that one exists
has to be proved before anything can be said of its value. `ListLemmas` does so by
induction up to the length of the list, for which the least counterexample is
enough (`InductionUpTo`), and proves that flattening a list of lists collects
their members (`FlattenCollects`) and that a list of singletons keeps its length
and its order (`FlattenSingletons`).

Parser: `OrderCollects` says which problems are reported, as a set: one of the
header, of a party, of the totals, or of a line, each under its condition,
however many lines there are. `SoundDocument` (no problem means every condition
is false) gives `AcceptedAreBuilt` and, with `EveryLineIsKept`,
`LinesReachTheHost` and `IdentitiesAreKept`. `OneRoundSuffices` goes through the
two directions of that set: every fault of the document is named by some problem
(`BadHeaderIsNamed`, `BadPartyIsNamed`, `BadTotalsAreNamed`, `BadLineIsNamed`),
and mending what is named leaves no fault (`Mended...Sound`). A problem is
reported only if it is true (`ReportsAreTrue`): were the line count reported of
an order within the budget, or a GTIN of a line that has a code, the mended
document would differ from what the partner sent in an element that was in order.
`AnonymityIsExplained` uses the same facts for the codes that deny a business
key.

Line: `Account` is the invariant of the loop of `detail_line`: what is joined is
as long as the offset of the next item less a separator, no character is cut by a
joint, nothing but a single first item exceeds the cap, and once the loop is full
the next item would have exceeded it. `TheLoopKeepsAccount` is its induction,
`TheLine` reads the three ways a line can end from it, and the three theorems
follow, with `SuffixFits` (a suffix is shorter than the cap) and `OffsetsGrow`
(so that a cut inside the last item shown hides no problem's beginning).

### What is only model-checked

Liveness: `DeliveredDocumentsSettle`, `AdmittedDocumentsSettle` and
`UntouchedDocumentsSettle` (fairness and ENABLED are beyond TLAPS). The six
properties that the code does not have are refuted by TLC.

## Disagreements with the documentation

PROJECT.json quotes the lines. A losing refusal reports a failure that did not
happen (EWS:335); `EdiDocumentAcknowledged` is not durable (EWS:505); the dedup
slot has no document type (REPO:100); a negatively acknowledged document can have
an order at the target (REPO:168); a first problem that quotes an over-long text
of the partner exceeds the column (`ubl/error.rs:57`); an identified refusal that
passes the size guard can break the payload CHECK and leave nothing behind
(EWS:256).

Two more without a run of their own. "Strict ISO yyyy-mm-dd, no other accepted
form" (`ubl/parser.rs:121`) is not what chrono's `%Y-%m-%d` does: 2026-8-5 is
read (the class "loose" of `UblOrder`); the payload writes it out again, so a
host only sees the ISO form. And the fallback of a party's id, "falling back to
`cbc:EndpointID`" (`ubl/model.rs:45`), goes by the element and not by its
content, although empty elements count as absent elsewhere (`ubl/parser.rs:419`).

## Plan

Done: the exchange, the intake, the import, the row guards and the CRUD surface
are modelled, and their safety properties proved. Worth adding:

1. The gate behind racing PATCHes: `UblIntake` updates the partner in one step; a
   load and a save, as in `RowRules`, would show which declarations a lost update
   can take back.
2. The safety of the intake together with the CRUD surface of documents: the two
   are proved side by side, each over `EdiExchange`.

## Not modelled

The event and snapshot stores (`infrastructure/mod.rs` does not declare them, so
they are not part of the crate); the generic CRUD implementation and the relay
of the outbox (outside the repository; what is assumed of them is said above);
reads, lists, counts and response DTOs (nothing changes state, nothing is
decided); the request pool, wiring, exports, generated events and seeders
(likewise); tenancy (the composing service installs it); indexes and triggers of
the migrations other than the dedup index, the foreign key and the CHECKs.
