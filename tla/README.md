# turnpike, verified: TLA+ models, checks and proofs

turnpike meters calls to LLM providers. `turnpike start` is a local reverse proxy: it
forwards a request, copies the answer to the client while it is still being produced,
reads the token counts out of it on the side and writes one row per call to
`calls.db`. The other commands read: `turnpike stats`, `check` and `tail` price the
rows with `prices.json`, which `turnpike prices pull` keeps up to date with models.dev
and which the user edits by hand.

Paths below are relative to `src/src/` unless they say otherwise; `README.md` in a
quotation is the repository's.

## 1. Inventory

| component | source | state it keeps | operations | status |
|---|---|---|---|---|
| call pipeline | `proxy.rs` | two bounded channels, drop and overflow flags, the observer's sums, one row | `handle_request`, forward task, `spawn_observer`, `spawn_record_write` | modelled: `CallPipeline`, `CallLedger` |
| host routing, request body | `proxy.rs`, `providers.rs` | none | `provider_from_host`, `should_inspect_body`, `maybe_inject_stream_options` | partly: `Exchange`, `Metering` |
| usage extraction | `sse.rs`, `json_usage.rs` | the splitter's buffer, the scanner's state | `push`, `finish`, every `feed_*` | modelled: `UsageStream`, `JsonUsage` |
| provider parsers | `parsers/`, `providers.rs`, `record.rs` | none | `parse_*`, `merge_*_sse`, `raw_usage_value`, `Usage::merge` | modelled: `Metering`, `Exchange` |
| peer, attribution | `peer.rs`, `attr.rs` | none | `client_from_headers`, `unified_tool`; the `/proc` lookup | partly: `Attribution` |
| store of calls | `record.rs` | a SQLite file behind a mutex | open, create, migrate, insert | modelled: `CallStore` |
| listeners, shutdown | `proxy.rs` | ports, tasks, write jobs | start, ports taken, signal, end of the servers | modelled: `CallStore` |
| statistics, tail | `stats.rs`, `tail.rs` | none (read the store) | group, sum, percentile; the last n rows | modelled: `Reports` |
| since bounds | `since.rs`, `check.rs` | none | the bound of a window, as text | partly: `Window`, `BudgetCheck` |
| budget check | `check.rs` | none (reads the store) | an answer from a window of rows | modelled: `BudgetCheck` |
| pricing a call | `pricing.rs`, `cost.rs` | none | lookup, tier, compute, `call_cost` | modelled: `CallCost` |
| price history | `pricing.rs` | `prices.json`: entries, dated revisions | load, canonicalise, parse models.dev, merge | modelled: `PriceTable`, `PriceHistory` |
| price file | `pricing.rs` | `prices.json`, `.bak`, `.tmp` | `read_table`, `write_table` | modelled: `PriceFile`, `TableStore` |
| discounts by the clock | `pricing.rs` | windows with an offset and a factor | parse, normalise, test, render | modelled: `OffPeak` |
| prices show | `pricing.rs` | none | prints rates | not modelled: output |
| command line, config, paths | `main.rs`, `cli.rs`, `config.rs`, `paths.rs` | none | parsing, printing | not modelled: no state |

**Interactions.** A request is addressed (`Exchange`), forwarded and copied back
(`CallPipeline`); the observer hands each chunk to the splitter or the extractor
(`UsageStream`, `JsonUsage`), what these give out to the parsers (`Metering`), and one
row to a job on the blocking pool, which inserts it under the store's mutex
(`CallStore`). The readers open the same file, migrated or not (`Reports`). Everything
that prices a row goes through the price table, which reaches the disk through
`read_table` and `write_table` only; those parse and render the discount windows, so a
window that renders badly takes the whole file with it.

**What is hard.** (a) Three tasks and the client share two bounded channels, one
lossy; the order of a full channel, an oversized event, a disconnect and an upstream
failure decides what the row says. (b) The body arrives cut anywhere, and the JSON
scanner knows no grammar: braces, colons and quotes may be text. (c) Ten providers
report one bill in as many ways: split over events, running, null until the end,
reasoning inside the output or on top of it. (d) Two processes may open and migrate
one old database, be told to stop or be killed at any statement, and readers meet
every stage of it. (e) A pull meets a table that earlier pulls and hand edits have
written, spelled in several ways, with dates and pins: what it changes must not reach
back in time. (f) A pull may be killed at any file operation. (g) Windows wrap
midnight, the week and the offset, and every pull rewrites them. (h) A call is priced
whenever somebody asks, long after it was made, and timestamps are compared as text.

**What makes each part correct**

- pipeline: the client gets the upstream's bytes whatever the meter does; a call has
  at most one row; the row is complete or says that it is not, and says how the call
  ended; a call that was answered is recorded in the end;
- routing and parsing: a request goes where it is addressed, changed in one option
  only; the row has what the provider billed, or nothing and the reason;
- extraction: the counts do not depend on where the body was cut; the root's own usage
  object is found, whole, and nothing else is taken for it;
- store: no row is lost or altered by a migration, another process, a signal or a
  kill; who takes calls finds every column it writes;
- reports: every grouping, `check` and `tail` tell of the same calls and the same
  money, before and after a migration;
- prices: no pull reprices a past call or loses hand work; after a pull the rates are
  upstream's; a second pull adds nothing; a discount that ends is named;
- price file: readers find the old table or the new one; the previous one is in
  `.bak`; a typo is left for its author;
- budget: a known cost stays; an exceeded budget never reads as under;
- discounts: an instant is discounted exactly when the declared schedule says so, and
  a rewrite changes no instant and settles.

`PROJECT.json` lists under `hazards` each place where this can go wrong, with the
property that watches it.

## 2. Modules

```
CallPipeline --INSTANCE--> CallLedger          PriceHistory --EXTENDS--> PriceTable
MeteredCall --EXTENDS--> CallPipeline,         MCPriceHistory, PriceHistoryProofs
  UsageStream                                  PriceFile --INSTANCE--> TableStore
MCCallPipeline, CallPipelineProofs             MCPriceFile, PriceFileProofs
Exchange --EXTENDS--> Metering, Attribution    CallCost --EXTENDS--> PriceTable
MCExchange, ExchangeProofs                     BudgetCheck --EXTENDS--> CallCost
JsonUsage, JsonUsageProofs                     BudgetCheck --INSTANCE--> PriceHistory
CallStore --EXTENDS--> Reports                 MCBudgetCheck, BudgetCheckProofs
Reports --EXTENDS--> Attribution, Window         --INSTANCE--> PriceHistoryProofs
MCCallStore, CallStoreProofs                   OffPeak, MCOffPeak, OffPeakProofs
```

Operators whose comment begins with `Slip:` are *wrong on purpose*: each is a
plausible bug of the definition that follows it, no specification uses it, and
`PROJECT.json` says under `mutants` which property fails when it takes that
definition's place.

### CallPipeline, CallLedger (`proxy.rs`)

The runtime is `current_thread`, so a task runs alone from one await to the next;
an action is such a stretch. `handler` is `handle_request` up to the response head
(`Refuse`, `Dispatch`, `SendFails`, `HeadArrives`); `forward` the spawned copy loop
(`Pull` takes a frame and tees it, `Deliver` and `DeliverFails` are the awaited
`body_tx.send`, `UpstreamBreaks` with `DeliverError` and `UpstreamEnds` the two ends,
`Report` the awaited terminal message, sent after `body_tx` is dropped); `observer`
is `spawn_observer` (`Observe`, `Conclude`); `WriteRow` and `WriteFails` are the
job that `spawn_blocking` runs, concurrent with everything. The client reads the
body channel (`ReadBody`, `SeeEnd`) and may go away at any moment (`Disconnect`):
before the head arrives hyper drops the handler's future, so the call is
`cancelled`; afterwards only the body receiver is dropped.

State that the code has under the same names: the two channels (`bodyCh`, `obsCh`),
`observer_dropped` (`dropped`), `sse_overflow` (`overflowed`). A chunk in a channel is
its place in the body. `seen` and `ideal` are history: how many chunks the observer
absorbed, and what a meter would have gathered that absorbed every one. They are
written and never read by an action.

`CallLedger` is the promise: at most one row for the call, entered when the call is
over, `Honest` about what a perfect meter would say, never touched again.
`CallPipeline` instantiates it with `truth <- Ideal`. What the observer gathers is a
parameter (`Capture`, `Absorb`, `Outgrows`); the proofs hold for every choice.

### UsageStream, MeteredCall (`sse.rs`, `Usage::merge`)

The choice TLC runs. `MeteredCall` puts the two together and says, as `Metered`, that
the parameters are this choice; `CutsAreInvisible` lives there. A body is a sequence of
units: a newline `end` and the carriage return `cr` before it, the served model's
`name`, and counts `in`, `out`, `more` (a later, larger output). An event ends where
`find_event` finds two newlines, or two pairs of return and newline (`Closes`), counted
from where the event began (`OpenSince`), so a chunk may end inside a delimiter. The
splitter keeps what follows the last delimiter; an event that is still open and longer
than `MaxEvent` overflows; a usage object is kept up to `MaxRaw` of them; counts merge
field by field, the later value winning.

### JsonUsage (`json_usage.rs`)

Two machines over one document. The *writer* is the grammar: it emits the units of a
well-formed JSON document one at a time (punctuation, a quote, a backslash, white
space, or a run of bytes, which may read `usage` or `model`) and keeps what the
document says (`truth`: the root's first usage object and first model). The *extractor*
is the code: one operator per `feed_*` with its depth, key buffer, escape and collection
flags, pushed each unit as it is written. It sees no grammar. A span of the document
stands for the bytes that are kept, and the three caps count units.

### Metering, Attribution, Exchange (`providers.rs`, `parsers/`, `attr.rs`, `proxy.rs`)

One call from the request's headers to the row's counts. `Exchange` lets a request be
refused or forwarded (`Refuse`, `Forward`: alias, port, body inspection,
`include_usage`), the provider answer (`Answer`: external, one shape per API, streamed
or whole), the observer take event by event (`Observe`) or the whole body (`Extract`),
and the row be made (`Finish`). A usage object is a function from the fields it states
to numbers. Money is a decimal, `<<digits, exponent>>`: `FromTicks` divides xAI's ticks
by 10^10 as the parser does, so a slip of a power of ten is another value. What the
tasks of `CallPipeline` do to each other in the meantime is left
to that module: here nothing is dropped or cut. The provider's side is written from
the fields the parsers read and the comments beside them, and is marked external.

### Window, Reports, CallStore (`since.rs`, `stats.rs`, `tail.rs`, `record.rs`, `proxy.rs`)

`CallStore` lets processes open the file, create the table, add the columns one ALTER
TABLE at a time, bind the ports or find them taken, take calls, write rows, be told to
stop, wait for the writes that have begun, exit, fail in a statement of `Store::open`
(`OpenFails`), or be killed, all interleaved statement by statement. The database may
be absent, or left by any earlier release (`Aged`).
`Reports` holds what the readers compute from rows and columns: groups with their
`has_column` guards, sums, denominators of the cache rate, nearest-rank percentiles,
tail's rows; a report works on the set of rowids in its window. `Window` is a bound and
the comparison of timestamps as text: instants are half seconds, and a whole second has
no fraction in its text.

### PriceTable, PriceHistory (`pricing.rs`)

`PriceTable` holds the pure functions: `Resolve`, `InForce`, `RatesAt` (rates in force
at a date, tiers inherited from the base entry, cache rates not), `Newest`,
`Canonicalize` (one entry per lowercase name: a spelling that charges before one that
does not, then the lowercase one), `ParseModelsDev` (first provider in order,
Anthropic's cache accounting), `Merge` and `WindowConflicts`. A price is a small
number, a list of tiers is a name (`CallCost` says what is in it), a key is a model and
a spelling of it.
`PriceHistory` lets the clock, models.dev (`Tick`, `Reprice`), pulls (`Pull`,
`PullRefused` on a file with a typo) and the user (`Pin`, `Author`, `Redate`,
`Discount`, `DiscountRevision`, `Typo`, `Mend`) take turns. `settled` says that
nothing has changed since a pull.

### PriceFile, TableStore (`read_table`, `write_table`)

`disk` is the inodes, `dest`, `tmp` and `bak` what the three names refer to. A pull
reads, truncates `.bak` and copies to it, opens and truncates `.tmp`, writes it,
renames it; it may be killed between any two of these (`Stop`), and the user saves or
leaves a typo in between. A table is the set of changes it holds. `TableStore` is an
atomic store of such a set: one step, nothing lost. `Overlap` says whether two pulls
may run at once; it is a parameter because the answer depends on it.

### CallCost, BudgetCheck (`pricing.rs`, `cost.rs`, `check.rs`)

`CallCost` prices a call with the entries of `PriceTable`: `Longest` is the name itself
or its longest prefix on file (`Prefixes` gives a name's prefixes; an option is a set of
at most one element), `TierRates` the rates of the highest tier the context exceeds,
which are the tier's own and no factor on the rates in force, `EffectiveRates` adds the
discount, `Bill` counts the cached part once in either shape of the usage, `CallCost`
prefers the cost the provider reported and tells a call without a price (`Unknown`) from
one without tokens. `BudgetCheck` runs `PriceHistory` beside a growing `calls.db`: a
call begins (`Begin`) and its row is inserted when it ends (`End`), dated when it began;
pulls and edits fall between. `turnpike check` changes nothing, so it is an operator,
`Answers`: the answer to every budget and every bound in the present state.

### OffPeak (`ParsedSpec`, `Windows`, `OffPeak`)

Declared windows are days (single or ranges that may wrap the week), a start and an
end; the offset is text too: a sign, hours and minutes, `Z`, or absent. `Load` splits
windows that pass midnight, `ParseOffset` and `OffsetFits` read the offset, `Contains`
tests an instant in it, `Render` and `RenderOffset` write both back. `Rewrite` is what a
pull does to the file, `Refuse` a file that no longer loads.

## 3. Runs

| run | checks | bounds | shows |
|---|---|---|---|
| `call_pipeline` | `TypeOK`, `AnomalyIsTrue`, `RowTellsEnding`, `ForwardsFaithfully`, `CutsAreInvisible`, `ImplementsLedger` | body channel 1, observer channel 2, 4 frames, chunks that end inside a delimiter of either kind, all response kinds; 1.2 million states | every order of the tasks, the client and the write job |
| `call_liveness` | `EveryCallIsRecorded`, `ClientNeverWaitsForObserver` | both channels 1, 2 frames | the row comes in the end, client gone or channel full; the response ends without the observer ever running |
| `exchange` | `MetersTheBill`, `ForwardedAsSent`, `SentWhereAddressed`, `ModelIsFound`, `AuditIsComplete`, `ToolIsWhoTheySay` | all 10 providers, every address, body and caller, 3 bills, up to 3 objects ahead of the last, `MaxRaw` 3; 49 905 states | the row has what the provider billed and whose call it was |
| `json_usage` | `ExtractsTheUsage`, `NamesTheModel` | every document of 20 units, nesting 4, caps 2, 4 and 6; 349 388 states | the scanner without a grammar finds what the grammar says |
| `call_store` | `WritersFindEveryColumn`, `EveryWriteIsKept`, `ReportsAgree`, `FiguresAreSound`, `PeriodsHoldTheirCalls`, `RowsStay`, `MigrationRegroupsNothing`, `OpeningEnds`, `WritesEnd` | 2 processes, 2 starts, 2 calls, 5 old rows or none, any number of the 6 migrations done, ids that fail; 150 373 states | migration, writing, stopping, killing, and what the readers make of it |
| `price_history` | `TypeOK`, `PullBringsUpToDate`, `HistoryIsKept`, `HandWorkIsKept`, `PullingAgainAddsNothing`, `LostDiscountIsNamed` | 2 models in 2 spellings, 2 providers, prices 0..2, 2 moments, 3 edits or upstream changes in all; 93 737 states | any alternation of upstream changes, pulls and hand edits |
| `price_file` | `TableIsWhole`, `ImplementsStore`, `PreviousIsKept`, `TypoIsUntouched` | 3 pulls one after another, 2 edits, each pull killed anywhere; 2 794 states up to symmetry | an interrupted pull loses nothing |
| `budget_check` | `TypoHidesNoSpend`, `PastCostsStay`, `OverIsDecisive` | 2 calls of 4 kinds, names that are prefixes of each other, 3 moments, 2 upstreams, 1 edit or change, one budget, every bound; 38 398 states | answers while calls, pulls, edits and typos go on |
| `off_peak` | `BilledAsDeclared`, `RewritingSettles` | a week of 4 days of 3 units, hours of 2; every window and day range, alone or with one that wraps; 8 offset texts; 8 682 states | two weeks of instants, before and after rewrites |
| `request_lost` | `EveryRequestSentIsRecorded` (violated) | as `call_liveness` | finding 1 |
| `midnight_window` | `StaysReadable` (violated) | as `off_peak`, windows may end at 00:00 | finding 2 |
| `audit_lost` | `AuditKeepsUsage` (violated) | OpenAI chats of up to 3 objects ahead of the last, `MaxRaw` 3 | finding 3 |

Type invariants are checked by the two runs with the richest state; those of
`CallStore`, `PriceFile` and `JsonUsage` are theorems (section 5), and the remaining
modules hold values the other properties take apart anyway.

**Why the bounds are enough to be interesting.** An observer channel of 2 with 4
frames lets the observer absorb, fall behind, lose a chunk and catch up again;
`MaxEvent` = 3 lets an event be cut, within its text or its delimiter, be completed, or
overflow after others have been counted. A body channel of 1 makes the forward task wait
at every second chunk, which is where a disconnect bites. Up to three objects ahead of the last let a stream repeat
running counts, or nulls, around an event that says nothing, and fill the audit buffer
exactly, or past its end; the bills have all, none and some of the output reasoned, and
costs of 0, 1 and 5. Twenty units are a root object
with a nested one, a key or a model spelled with an escape, and the usage object after
them, or two usage keys; caps of 2, 4 and 6 units are passed and met exactly. Two
starts of two processes migrate at once, one after the other, or one after it was
killed between two columns; two calls with failing ids collide. The five old rows have
every way of naming a caller, both shapes of cached tokens, an error and an unpriced
model; their times fall before midnight, on it, in its first second and after it, in
UTC and in local time. Three price changes are two hand edits and an upstream change
(or the reverse) around pulls and a tick of the clock in any order. The week of four
days has ranges that wrap and ranges that do not, with a day outside each; the offsets
are of half an hour, of a day and of more than a day, east or west; every spelling of
zero, and one offset too far, are among the texts. Three pulls are one that leaves a
`.tmp` behind, one that meets it, and one that meets the `.bak` of the second. The
budget of `budget_check` is what the provider reports for one call and what computed
costs reach together; its names are a model, a longer one, and a dated name that starts
with both; models.dev lists both or drops the longer, and counts the longer one's cached
tokens otherwise than the first file, so that a call's entry changes in either way of
`Recast`; its tiers are a dearer and a cheaper one.

**Fairness.** `call_liveness` assumes `ClientIsServed`: weak fairness of the handler,
the forward task, the upstream and the client that stays connected. The first two are
what a tokio runtime gives a task that has been woken (nothing in the pipeline loops
without awaiting). The upstream's is an assumption on the environment that the code
does not enforce: the HTTP client sets no read timeout, so an upstream that never ends
its body keeps its call, and its row, open. `StalledSpec` assumes nothing of the
observer and the write job; `EveryCallIsRecorded` therefore names their fairness as its
hypothesis, and `FairSpec` (for `request_lost`) adds it to the specification.
`Disconnect` is never fair: nobody has to hang up. `call_store` assumes weak fairness
of each process's own steps (the thread that opens the store waits for nothing but
SQLite, whose busy timeout is not modelled), that the open connections of a process
told to stop end, and of each write job: the blocking pool has threads to spare.
Signals, kills, starts and calls are never fair.

Deadlock is checked in every run but `call_store`, where processes may all be down
with no start left; elsewhere `Stop`, `Settled` and their likes are the ends of a
finished system (all tasks over, bounds used up), not a way out of a stuck one.

## 4. Findings

With a run that shows them:

1. **A request whose client hangs up before the response head leaves no row**
   (`request_lost`, `proxy.rs:255`). The future is dropped at `send().await`, and the
   row is written only after it. The repository's README says of turnpike that "it
   writes down every call" and asks "whether that failed request still reached the
   provider and billed you anyway".
2. **A window that ends at 00:00 does not survive a pull** (`midnight_window`,
   `pricing.rs:119`): it is written back as 00:00-00:00, which is refused, and then
   nothing in `prices.json` loads.
3. **The audit column fills up with nulls** (`audit_lost`, `parsers/mod.rs:38`): a chat
   stream asked for its usage says `"usage": null` on every chunk but the last, each of
   them is kept as a usage object, and the buffer is full when the real one comes. The
   counts are right; the verbatim object that `record.rs:68-70` promises is missing.

The rest are the exceptions that properties of the passing runs make, or the cases that
a run keeps out by a constant. Each property says how far the trouble goes; TLC finds it
violated when the exception is struck out, or the constant set as named:

| exception | of | what happens |
|---|---|---|
| `Recast`: a call whose entry is another one after the step | `PastCostsStay`, `OverIsDecisive` | a pull brings a longer name, and past calls priced by the entry of their prefix (`pricing.rs:526`) move to it; README: "old rows keep the price you actually paid". A corrected way of counting cached tokens moves costs too, on purpose (`pricing.rs:743-747`) |
| `CachedAlone`: a call with cached tokens alone and no price | `TypoHidesNoSpend`, `PastCostsStay`, `OverIsDecisive` | it is a definite $0 (`cost.rs:53`); `cost.rs:3-4`: "a token-bearing call with no price as *unknown*, never a confident $0" |
| `Unnamed`: a Responses stream whose request was not read, or names no model | `ModelIsFound` | its model is in `response.model`, where `model_from_response_value` (`parsers/mod.rs:22`) does not look, so the row has usage and cannot be priced; `proxy.rs:474-477`: "streaming responses echo it on the chunk that also carries usage" |
| a call in a fraction of a period's first second | `PeriodsHoldTheirCalls` | it is left out of its day, week or month: its text has a fraction, and "." sorts before the "Z" of the bound (`check.rs:186`). Elsewhere the code compares instants the same way, so two fractions of which one is a prefix of the other sort by length |
| `price_history`: `Ahead` = 0; 1 shows it | `PullingAgainAddsNothing` | a revision dated ahead of now makes every pull append one more: `newest` (`pricing.rs:389`) compares with rates not yet in force, where its comment says "the rates currently in effect" |
| `price_file`: `Overlap` = FALSE; TRUE shows it | `TableIsWhole`, `ImplementsStore`, `PreviousIsKept` | two pulls at once share the temporary name (`pricing.rs:921`) and can leave a torn table; an edit saved between a pull's copy to `.bak` and its rename is in neither file afterwards |
| `json_usage`: `UsageValues`; `"array"` or `"string"` in it shows it | `ExtractsTheUsage` | a usage value that is no object is dropped with its first byte (`json_usage.rs:169`): the bracket or quote swallowed there leaves the depth wrong, or the scanner's strings inside out, and a nested object may be taken for the root's usage; `json_usage.rs:9-10`: "ignores nested content" |
| `json_usage`: `EscapeAtCap` = FALSE; TRUE shows it | `ExtractsTheUsage` | a backslash as the last byte before `MAX_MODEL_BYTES` is forgotten (`json_usage.rs:202`), and the quote it escapes is taken for the end of the string |

Smaller ones, met while translating, of which a property would only restate the line:

- A revision that leaves its cache rates out prices cached tokens at 0 and does not
  inherit the base entry's (`pricing.rs:278`; README: "Anything it leaves out ... it
  inherits from the base entry").
- An empty `calls.db`, which the proxy creates when it starts, reads as under, and one
  without a table is an error (`check.rs:105`; its header: unknown when there are "no
  calls recorded yet").
- `record.rs:227-229` says that a column appended later "must be referenced behind this
  guard"; `stats --by-exe` names `peer_exe` without one (`stats.rs:56`), `client` is
  always selected, and tail names `client`, `endpoint` and `anomaly` so. `StatsNeeds`
  and `TailNeeds` are the databases on which the reports work.
- What the user has written under a spelling that loading does not choose is dropped by
  the next pull, on purpose; `HandWorkIsKept` is about the chosen one.
- The cache hits of a model that is not in the table count as a part of its input
  (`stats.rs:180`), so its rate may exceed 100 percent; `FiguresAreSound` is about
  groups of known models.

## 5. Proofs

For every value of the constants that meets the named assumptions:

| theorem | module | says |
|---|---|---|
| `Invariance`, `TypeCorrect` | `CallPipelineProofs` | the inductive invariant, the type invariant |
| `AnomalyTheorem`, `LedgerTheorem` | `CallPipelineProofs` | `AnomalyIsTrue`; the pipeline implements `CallLedger` |
| `ForwardingTheorem`, `EndingTheorem` | `CallPipelineProofs` | `ForwardsFaithfully`, `RowTellsEnding` |
| `CutsTheorem` | `CallPipelineProofs` | `CutsAreInvisible` for the observer of `UsageStream` (`Metered`), bodies of any length, any chunks and any caps |
| `MeteringTheorem`, `ForwardTheorem`, `AddressTheorem`, `CallerTheorem` | `ExchangeProofs` | `MetersTheBill` for any bill and streams of any length, `ForwardedAsSent`, `SentWhereAddressed`, `ToolIsWhoTheySay` |
| `ModelTheorem`, `AuditTheorem` | `ExchangeProofs` | `ModelIsFound` and `AuditIsComplete`, for any requests, bills and streams of any length |
| `Typing`, `StaysInStep`, `UsageIsTheDocuments`, `ModelIsTheDocuments` | `JsonUsageProofs` | types; `InStep`, `ExtractsTheUsage`, `NamesTheModel` for documents of any length and nesting |
| `ColumnsTheorem`, `WritesTheorem`, `RowsTheorem`, `TypeTheorem` | `CallStoreProofs` | `WritersFindEveryColumn`, `EveryWriteIsKept`, `RowsStay`, types, for any number of processes, starts and calls |
| `ReportsTheorem`, `FiguresTheorem`, `PeriodsTheorem`, `MigrationTheorem` | `CallStoreProofs` | `ReportsAgree`, `FiguresAreSound`, `PeriodsHoldTheirCalls`, `MigrationRegroupsNothing`, for any rows, offset and calendar |
| `TypeCorrect`, `HistoryTheorem`, `HandWorkTheorem` | `PriceHistoryProofs` | `HistoryIsKept`, `HandWorkIsKept` for any table, listings and number of pulls |
| `UpToDateTheorem`, `PullingAgainTheorem`, `LostDiscountTheorem` | `PriceHistoryProofs` | `PullBringsUpToDate`, `PullingAgainAddsNothing`, `LostDiscountIsNamed`, if no revision is dated ahead |
| `TypoTheorem`, `PastTheorem`, `OverTheorem` | `BudgetCheckProofs` | `TypoHidesNoSpend`, `PastCostsStay`, `OverIsDecisive`, for any calls, names, tiers, windows, budgets and pulls |
| `EveryInstantTheorem`, `BilledTheorem`, `SettlingTheorem`, `ReadableTheorem` | `OffPeakProofs` | `BilledAsDeclared` for every instant, week and offset text, `RewritingSettles`; `StaysReadable` without windows that end at 00:00 |
| `WholeTheorem`, `StoreTheorem`, `PreviousTheorem`, `TypoTheorem`, `TypeTheorem` | `PriceFileProofs` | the properties of `PriceFile`, for any number of pulls that do not overlap |

**Pipeline.** `AnomalyIsTrue` and the refinement are not inductive: a row's honesty
depends on what the observer's channel still holds. `IInv` adds what the code relies on
silently. `Order`: the channel holds the chunks after the `seen`th, consecutive, up to
the last one pulled while `dropped` is false, and the terminal message is last.
`Lossless`: without `dropped` nothing is missing between `seen`, the channel and
`pulled`; with it, only a prefix has been absorbed. `IdealReads`: the observer's capture
is the perfect meter's after `seen` chunks. `LossIsReal`: the flag is never up without a
chunk that was lost or too large. `NoTaskYet`, `Phases`, `RowsAfterTheCall` and
`RowsFit` tie the tasks' places to the row. For the client's side of the call there is
`FInv`: what the client has read, followed by what the body channel holds, is 1, 2, ...
up to the chunk on offer (`Delivery`), and the client's end matches the forward task's
(`ClientEnds`, `RowsEnd`). The capacities, the chunks, the number of frames and the
extraction itself are arbitrary; `CaptureAssumption` asks only that absorbing stays
within `Capture`.

**Cuts.** `Cut(p, b, w, m)` is a body `w` whose part `p` has been pushed: `m` is where
`p`'s last event ends and `b` what the splitter holds at the next push. Whether a unit
ends an event depends on where the event began and on at most four units since
(`ClosesThere`), so the event that is open at a unit of `b` began in `w` where it began
in `b`, moved by `m` (`CutOpen`): a delimiter cut in two is found all the same. The
events of `w` are those of `p` followed by those of `b` (`CutEnds`, `CutEventsFirst`,
`CutEventsLast`), so the kept objects of `w` are theirs, one after the other
(`CutSayings`); merging and keeping the first few go in two steps as in one
(`MergeTwice`, `FirstOfFirst`). Hence `CutEventsAbsorb`, and for a JSON body
`CutJsonAbsorb`, where an object is collected, or given up, over two pushes as over one
(`CollectTwice`). `CutsStay` climbs along `ideal`, chunk by chunk. The hypothesis in
`CutsAreInvisible` itself, that no event outgrows the splitter, is the code's: after an
overflow the rest of the event is read as the start of another (the row then says
`sse_overflow`, which `AnomalyIsTrue` watches).

**Exchange.** `LeadsTo(p, r, u, t)` says that the objects `r` make the usage `t` of
`u`, by the history of what has been gathered after each; the invariant (`Gathering`)
is that the objects still to come make the target of what there is. Streams are put
together from lemmas (`LeadsThrough`, `Closed`, `Framed`), so that no induction over a
stream is needed, and `ChatSays`, `ResponsesSay`, `AnthropicSays` and `GeminiSays` say
what each shape's usage objects come to. `AskedOrWithheld` is the point of
`include_usage`: a stream tells its usage unless turnpike could not read the request
and the client did not ask. The assumption on bills is that the reasoning is a part of
the output; a bill's cost is a number of 10^-10 dollars, and `ChatSays` shows that ticks
are read as exactly that. `ModelInv` adds that the model is known before the usage or
comes with it, but for the streams of `Unnamed`. `AuditInv` carries along what the kept
objects alone would come to (`Recounts`, by a history of its own) while the column has
room: what any object reports is what is kept of it (`StreamReports`).

**JSON.** `InStep` is the invariant: between two units the extractor's depth is the
grammar's nesting, its flags say whether a string is open and whose, its key buffer is
what the root's key reads. It needs `Plain`: usage values are objects or literals, and
no model has a backslash as its last unit under the cap; section 4 shows what happens
otherwise.

**Store.** `SchemaInv`: the columns a process has come past are in the table, and a
table has those of the first release. `RowInv`: ids differ, a row with a call's own id
was written for that call, a written job has its row, and no column is added once there
are calls. `CallsAssumption` and `OldRowsAssumption` say that calls have a value for
every column and that old ids are not drawn again, `ColumnsAssumption` that they name
every column of the table, `FiguresAssumption` that a row has an instant, a
provider, a latency and counts, which the table requires (absent counts are 0).

**Reports.** `ReaderInv` is `RowInv`, `SchemaInv` and that every row on file has its
figures, whatever columns were added to it. What a reader computes is then a matter of
lemmas. Totals run along the rowids as a recursive function; that they exist, add up
place by place and keep the order of columns (`TotalStep`, `TotalsAdd`, `TotalsBelow`)
is induction over naturals, had from `Least` and `Climb` because a set of naturals has
a least element. `GroupsAddUp` adds the groups one by one: each row is in the group of
its key, whose key is never NULL (`KeyIsNamed`), and a report goes through every group
once (`EachOnce`). `SortedIs` finds the value in the kth place, `RankIs` is the
arithmetic of `div_ceil`. The rate of cache hits needs `CachedIsAPart`: the code does
not check that a provider which counts cached tokens in the input reports no more of
them than input. `WidenedReads` says that a NULL in a new column reads like the column
missing, and `SameGroups` that nothing else is read. For `PeriodsTheorem`,
`CalendarAssumption` says that some month has begun before every question.

**Prices.** A table's type is inductive on its own; the work is in lemmas about the
operators. `WriteThenLoad`: reading back a table that was canonicalised gives the
same table. `MergeEntryKeeps`: an entry after a merge has the old base, pin, window
and revisions as a prefix. `PastRatesStay`: a revision dated `now` changes no rate in
force before it. `Latest` is a choice among dated functions and not a fold, so that
no induction over data is needed. `SyncInv` is for what a pull achieves: no revision lies
in the future (`NoneAhead`) and, until something changes, table and models.dev agree in
the newest rates and the way cached tokens are counted (`InSync`). Its hypothesis
`NothingAhead` is that hand edits and the first file date no revision ahead of now;
section 4 shows what happens otherwise.

**Budget.** `BudgetInv` says of a call that it began before now and that its row, if
there is one, has that date; the work is in what a cost and a sum may do. The longest
prefix on file is unique (`OneEntry`), because the prefixes of a name are prefixes of
each other; a call that is not `Recast` has the same entry after a pull, with the same
rates at every earlier moment and the same way of counting (`PullKeepsCosts`), so a
known cost is known and the same in the later table (`KnownCostStays`). Without a price
a call is unknown unless it bears cached tokens alone (`KnownWithoutPrice`), and known
spend only grows (`SpentGrows`), by induction over the subsets that the fold walks
through. No hypothesis restricts names, listings or calls; what is excepted is said in
the properties, call by call. The facts about tables are those of `PriceHistoryProofs`,
taken through an instance; `SameOperators` and `SameSteps` say that the instance the
model uses is the same.

**Discounts.** The code cuts a window that goes past midnight into halves on two days;
the schedule as declared is of one piece. `Elapsed` measures the time since a window of
a day opened, around the week, and both readings are that time compared with a length;
`RenderThenLoad` says that writing the halves back and loading them is the identity on
what is kept in memory, `OffsetIsKept` that the offset's text, rendered and parsed
again, is the same offset and within its bound. `OffPeakInv` is then that
the file has what was declared or its first rewriting. `EveryInstantTheorem` is about every integer instant, `BilledTheorem`
restricts it to the two weeks TLC looks at. `ReadableTheorem` says that the windows of
finding 2, which end at 00:00 (or open at 24:00), are the only ones a pull spoils.

**File.** `FileInv`: one pull at a time is at work (`OnePull`), an inode gets the name
`prices.json` only after it was written (`NamedLate`), what a pull loaded is still
there when it renames (`StillThere`), and the temporary inode it writes is its own or
a dead pull's (`OwnTmp`). The last two fail when pulls overlap: hence the
hypothesis `~Overlap`.

**Hypotheses.** `Metered` (the observer is `UsageStream`'s), `NothingAhead`, `~Overlap`,
`Plain`, `CachedIsAPart` and, for `ReadableTheorem`, the windows without finding 2 are
all there are. The constants of the passing runs meet them, so a run and its theorem
speak of one system; section 4 says what TLC finds without them.

**Only model-checked.** The four liveness properties (`EveryCallIsRecorded`,
`ClientNeverWaitsForObserver`, `OpeningEnds`, `WritesEnd`): the prover has no fairness
and no `ENABLED`. Every safety property of a passing run is a theorem.

## 6. Not modelled

- *Output and start-up:* `turnpike prices show`, the layout of tables and JSON, command
  line, environment printing, configuration and paths: they keep no state.
- *The pipeline:* the copying of headers one by one, latency and time to first token,
  wording of errors, the row's columns no property is about. One call at a time;
  several calls meet in `CallStore` only, as rows and ids.
- *Bodies:* JSON that is not well-formed, how a number is written and read back, a sum
  of counts past 64 bits.
- *Callers:* the walk through `/proc` from a socket to a process is a path found or
  none.
- *The store:* a busy database past its timeout, a full disk while migrating (an
  insert that fails is `CallPipeline`'s `WriteFails`), loss of power. The ten ports are
  one, and a port bound on one of the two loopback addresses only is left out.
- *Time:* daylight saving, the grammar of bounds and budgets, corrupt timestamps. A
  pull falls strictly after the start of every call already recorded: timestamps have
  nanoseconds. In discount windows the
  calendar appears only as a day of the week, and a time of day that is no time
  (`24:30`) is not declared.
- *Prices:* the tolerance of float comparison (prices are small integers; a cost in
  dollars is an exact decimal), the network fetch. A listing without a price is not listed.
- *The file:* loss of power (the code does not fsync, and the model's disk keeps what
  was written); permissions and a full disk are kills at that operation.

## 7. What is left

1. Several calls in one `CallPipeline`, sharing the write jobs of `CallStore`, with
   `CallLedger` per call as the promise of the composition.
2. A store that may be busy or full, so that a row whose insert fails (`proxy.rs:824`)
   is counted somewhere.
3. The `/proc` lookup against sockets that close while it runs.
