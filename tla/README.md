# A TLA+ development of the Desk

The repository runs a pricing desk for sports prediction markets: it ingests the
fixtures a venue lists, prices them, publishes one verdict per match as a file and
as a push to Market Tips AI (MTA), drafts social posts about its picks, follows
wallets on Polymarket, collects readers' votes and holds its predictions against the
results. This directory holds the specifications of its stateful parts, the TLC
configurations that check them on small instances, and the proofs.

    tlc -workers 2 -config Outbox_contended.cfg MCDistribute   # one check
    tlapm DistributeProofs.tla                                 # the proofs of a component

Paths below are relative to `src/`, as in `PROJECT.json`.

## 1. The system

`main.py` starts one asyncio process: the market scheduler, the web server with
the admin routes, and a loop per background duty (ledger refresh, desk refresh,
lineups, distribute, activity, weekly social, daily report, site QA). Desk work does
not happen in that process: a loop launches `desk ...` as a subprocess with a
timeout, and an operator's "run now" launches one more. These processes share no lock and
no memory. They share SQLite files in autocommit mode, JSON files written through a
`.tmp` and a rename, and the order of their statements is whatever the operating
system makes of it. Redeploys and timeouts kill them anywhere.

| Component | State | Operations | Talks to | What is hard | What makes it correct |
|---|---|---|---|---|---|
| **Outbound wire** (`desk/desk/distribute`, `desk_distribute_loop.py`) | table `push_queue` | enqueue, claim, POST, mark sent / retry / dead, replay of dead letters | runs of the desk write, the drain reads, MTA answers | enqueue is two statements; a row changes while its old body is on the wire; late answers; kills in a sweep | one pending row per match; no body lost; retries end; dead rows stay dead; every body settles |
| **Publishing** (`desk/desk/runner.py`, `publish`, `distribute/withdrawn.py`) | one json and one etag per match, `index.json` | snapshot, build, write, enqueue, index, withdraw | the wire; the next run, through the index | several files per publication, failures of some fixtures, kills, runs that overlap on one `.tmp` | disk = wire; etag = json; what is live can be withdrawn later; bodies only get newer |
| **Social drafts** (`desk/desk/social`, `desk_social_api.py`) | table `social_drafts` | draft, approve, reject, skip, mark posted, edit a caption | refresh loop and run-now draft, operators decide | read in one statement, write in another; two requests; two drafters across midnight | a pick posted once, after an approval; the edit history is true |
| **Desk refresh loop** (`desk_refresh_loop.py`) | `control.json` | compute the wake-up, sleep in chunks, tick | launches every `desk` command | truncated seconds, stale control, ticks that outlast a slot, deploys | one tick per slot; a pause stops the next tick |
| **Tick record, run-now** (`desk/desk/ops`, `desk_ops_api.py`) | run reports, manifest, `costs.jsonl`, tick totals | persist, prune, rebuild the manifest, total a tick | the refresh loop and manual ticks | ids are seconds; the newest run may be an older one; one `.tmp` | a cost belongs to its run; manifest = directory; retention |
| **Loop registry** (`loop_registry.py`, admin routes) | `schedules.json` | enable, disable, `is_enabled` | every loop polls it | the whole document is read, changed and written by threads, through one `.tmp` | a switch is what was asked for last |
| **Daily mails** (`daily_report*.py`, `site_qa*.py`) | `last_sent.json` | look, build, send, mark | registry, command line | the mail is out before the mark, which may fail; two senders; sleeps that drift | one mail per day, and a mail every day |
| **Activity signals** (`activity/`) | votes, views, aggregates, seeds | vote, flip, lock, view, aggregate, seed, decay, prune | visitors, the activity loop | counts and checks read before the write; passes cut short | ceilings and caps hold; frozen votes stay; readers shown were there |
| **Ledger** (`ledger/`) | wallets, positions, snapshots; the throttle | view, refresh, loop | Polymarket, visitors | a refresh is five transactions after three fetches; a refresh of the loop is a view | positions are what was fetched; the throttle holds; what the loop refreshes was viewed |
| **News signals** (`desk/desk/signals`) | cached items, fetch stamps, extractions | fetch, extract | outlets, a language model, runs | articles change while the model is asked; a run is capped; failures are stamped | signals are those of the cached text; outlets are not hammered |
| **Odds cache** (`desk/desk/data/oddsapi`, `sports/football/oddsapi_prices.py`) | events, prices, resolutions | fetch-odds, merge into a snapshot | The Odds API, runs of the desk | one delete and many inserts per venue; a resolution taken away and given back at the end; a run in the middle | a fair price is of one answer; no event stays unfindable |
| **Elo ratings** (`desk/desk/data/elo`, `features_builder.py`, `outrights/live_elo.py`) | one row per team, a mark | fetch-elo, read value and label | eloratings.net, runs | feeds that are cut short or do not parse, stored row by row; value and label are two statements | the newest accepted feed wins; a half-parsed feed is refused; a seed is never labelled live |
| **Squad data** (`desk/desk/data/api_football`) | injuries, penalties, cards, lineups, resolutions | fetch-injuries, fetch-cards, fetch-lineups | api-football, runs of the desk | delete-then-insert in autocommit; tables refreshed by different commands; rows never deleted | a penalty belongs to its rows; suspension wins; a match shows its own XI |
| **Verdict ladder** (`desk/desk/verdict/decide.py`, `compare.py`, `liquidity.py`) | none | decide | runs | order of the branches, bands, mixed quotes | picks are justified; switches only make it more careful |
| **Prices of a verdict** (`desk/desk/pricing/cost.py`, `publish/market_prices.py`) | none | cost of a quote, merge of the cached odds, badge of the cheapest venue | the verdict, the odds cache | implied and true prices side by side | the flag alone changes nothing; a true price is never cheaper |
| **Outright of the tournament** (`desk/desk/outrights`) | json, etag and index of the outright | price, simulate, write, enqueue | the same runs and wire | three runs may start it at once over the same `.tmp`; headline and ladder are computed apart | the three files and the wire agree; headline and ladder agree |
| **Weekly roundup** (`social/selector.py`, `social/runner.py`, `social_weekly_cron.py`) | rows of kind `weekly_roundup` | compute the next hour, draft the week before | published files, runs | reads what later runs rewrite; days and weeks | the roundup of a week has its picks |
| **Market scheduler, live feed** (`scheduler.py`, `server.py`) | one board, a price history, sockets | cycle, save, broadcast, greet | both platforms, SQLite, browsers | the board is assigned in two halves; the store may raise; sockets come and go in a broadcast | every browser holds the board; the feed moves on |
| **Arbitrage** (`core/market_normalizer.py`, `services/`) | the opportunities of a cycle | normalise, pair, detect | the scheduler | cents or dollars guessed from the size of a number; greedy pairing | what is reported costs less than a dollar |
| **Forward validation** (`desk/desk/verdict/outcomes_ingest.py`, `forward_validation.py`) | predictions, outcomes | log, ingest | api-football | fixture listed from the other side, corrections, timeouts, overlapping ingests | outcomes are results; settled matches get resolved |
| Lineups loop (`desk_lineups_refresh_loop.py`) | none of its own | fetch-lineups, and a run after a landing | launches both | overlaps the refresh loop | as squad data and publishing |
| Trading rails (`core/executor.py`, `risk_manager.py`, `paper_trader.py`) | resting orders, counters | place, cancel, kill | constructed by no entry point | kill against a placement in flight | nothing rests after a kill |
| Desk stub (`desk_stub/`) | a copy of the outbox | re-enqueue frozen bodies, drain | MTA | the same table code, engine and drain in one process | as the wire |
| Read APIs, strategies, older server (`prophet/`) | none | read, compute | the server | - | - |
| Signup and static site | files | format, append | - | plain I/O | - |
| Models, features, ingest, explainer, backtest | none | numeric functions, vendor adapters, prose | runs | real arithmetic | out of a model checker's reach |

The components in bold are modelled. They are where the processes of the system meet,
where its documents make promises ("at most one PENDING row per match_id", "once a
draft lands here it never moves again", "suspension wins"), and where its tests, which
call one function at a time, cannot look. `PROJECT.json` lists, under "hazards", what can
go wrong in them, each at its line with the properties that watch it.

## 2. The modules

    Outbox --> Distribute --> DistributeMailbox --> MCDelivery
                   |               ^                  ^
                   |            Mailbox (abstract)    Market, Arbitrage
                   +--> DistributePostbox --> MCDistribute
                                   ^
                                Postbox (abstract)
    Publish, Outright                   --> MCPublish
    RefreshLoop, TickLog                --> MCDeskLoop
    SocialDraft, Activity, Roundup      --> MCAudience      Week --> Roundup, MCAudience
    SquadData, OddsData, EloData        --> MCCaches
    Registry --> MailLoop               --> MCMailLoop
    Ledger, News, Validation            --> MCRecords
    Verdict --> OutrightLadder, Pricing

    MCDelivery, DistributePostbox --> DistributeProofs
    MCPublish --> PublishProofs               MCDeskLoop --> DeskLoopProofs
    MCAudience --> SocialDraftProofs          Ledger --> LedgerProofs
    MailLoop, MCCaches --> UpkeepProofs       News --> NewsProofs
    Validation, OutrightLadder, Pricing --> ValidationProofs

* **Outbox**: the table `push_queue` and the effect of each SQL statement on it, as
  pure operators (`distribute/outbox.py`). A table is a function from the ids that
  exist to rows. A body is its version, the `updated_at` it carries; `due` is
  `next_attempt_at` counted in ticks from now.
* **Distribute**: three kinds of process on that table. A *run* goes idle -> built ->
  selected -> idle, `SelectPending` and `UpdatePending`/`InsertPending` being the two
  statements of `enqueue`. The *drain* is one `drain_once` at a time: `Claim` reads the
  rows, `Dispatch` takes the semaphore, `Receive` is MTA accepting a body (external),
  and `ApplyOk`, `ApplyPermanent`, `ApplyRetryable` are the three branches on the
  answer. The *operator* replays dead letters. `Kill` ends a drain anywhere and
  `Abandon` a run before its write. `Tick` is one `tick_sec`.
* **Mailbox**: what the wire promises, without rows, retries or statements: a slot per
  match, a carrier with copies, and a slot that is emptied only if the receiver
  holds the copy, or the body is given up and kept among the dead letters of its match.
  **DistributeMailbox** is the refinement mapping (slot = the pending row, copy = the claimed
  row, dead letters = the dead rows).
* **Postbox**: what the wire promises however many runs write at a time and whatever is replayed:
  letters numbered as they are posted, a carrier with copies, and letters that are destroyed only
  when the receiver holds the copy that was taken, given up only by the carrier that has the
  copy, and carried again only when the operator revives them. Mailbox is the case of one
  run and no replays, and promises more: one letter to a match. **DistributePostbox** is the mapping
  (letter = row, copy = claimed row).
* **Publish**: `run_once` for one sport. The program counter of a run is the
  place in the source: `ingest`, the `fixture` loop, `write` (both halves of
  `_atomic_write`, twice per file), `enqueue`, `detect`, `push`. Any number of runs may
  be inside it. The exception handlers are there: a failed fixture is passed over, a
  failed index ends the run, a failed detection drops what it had withdrawn so far. The
  history variables `dirty` and `met` name what a fault, a kill or an overlap may have
  left incoherent, and the runs that met another.
* **SocialDraft**: `draft_daily` (check, render, insert), and the routes as a read with
  its guard followed by a commit that names only the draft id.
* **RefreshLoop**: `run_desk_loop`. Time is in half seconds, so that an instant may lie
  between two seconds: `SecondsUntil` truncates as `int(total_seconds())` does.
  `Nap` is one chunk of sleep, which may overrun; a tick takes any time between two
  bounds, past a slot if need be; `control.json` is edited and the process redeployed at
  any time.
* **TickLog**: what a tick leaves behind, from the loop and from run-now alike:
  report, prune, manifest (written through the one `index.json.tmp`), the cost lines of its
  model calls, and the row of totals that attributes them to `_latest_run_id`. A run may
  fail or be killed after each of these.
* **Registry**: `schedules.json` down to inodes. A request reads the document, opens
  (and thereby truncates) the temporary file, fills it and renames it; a second request may have
  opened the same inode, or renamed it away. A torn document is read as the defaults.
  **MailLoop** composes it with a loop that mails once a day: the loop looks, asks
  the registry, asks `last_sent.json`, builds, sends, marks; the command line does the
  same beside it. The mark may fail when the mail is out, and a write that stops half-way, or
  that another sender is in the middle of, leaves a file that reads as empty.
* **Ledger**: one wallet. A refresh is a sequence of three calls and five transactions;
  visitors, the refresh button and the loop may each be inside one. The throttle of the
  router and its sweep, trades on Polymarket's side, failures, deploys and the passing
  of time are actions of their own.
* **Activity**: the vote requests of one visitor, one SQL statement at a time (count,
  read, insert or flip or lock); and for one match its views, seeded rows, aggregate row, the
  seed job with its caps and its decay, the aggregate job, pruning. Ages are kept in
  classes as wide as the code tells apart.
* **News**: `fetch-signals` and `extract-signals` of one source as processes that may
  overlap: stamps, cached versions, extractions per model, the status pill. An extraction takes the
  articles of the source in the order in which they last changed, up to its `--limit`, which the tick passes
  where the environment sets one (`desk_refresh_loop.py:290-294`).
* **SquadData**: `fetch-injuries`, `fetch-cards`, `fetch-lineups` and the reads of a run as
  commands that processes run side by side, statement by statement: resolution of teams and
  fixtures, delete-then-insert of injuries and cards, the penalty, the reconcile
  with suspensions, one upsert per side of a lineup, and the two statements with which a run
  looks for an XI.
* **OddsData**: `fetch-odds` of one league beside another one and a run, statement by
  statement: the upsert that overwrites `resolved_match_id`, delete-then-insert per event and
  venue, the resolution of all events at the end; and a run that looks up the events of its
  match, reads the prices of each and takes the fair book of a venue.
* **EloData**: `fetch-elo` from the feed through the plausibility checks to one upsert per
  team, and its two readers: a match asks for the values of both teams and then for their
  labels, the outrights for label and value of every team.
* **Verdict**: `decide` and what it rests on as operators over integers on one scale. It has
  no state; its rules are theorems.
* **OutrightLadder** and **Pricing**: the headline and the ladder of the outright; what a quote
  costs, how cached odds join a snapshot, which venue gets the badge. Operators on the scale
  of Verdict, whose rules are theorems.
* **Outright**: the run of the outright from its prices to its row on the wire, over the three
  files and the `.tmp` names all such runs share.
* **Week** and **Roundup**: the calendar of the weekly roundup as arithmetic on instants, and the
  roundup over the files that the runs of the desk leave, with a venue that opens and closes
  its markets.
* **Market**: one cycle of the scheduler from its fetches to its last send, with the store that
  may raise at every call, and the sockets of `/ws/live`: the room is counted before the accept
  is awaited, a browser that went away stays in the set until its handler notices.
* **Arbitrage**: what a cycle makes of the quotes: the common schema, the greedy pairing, both
  ways to buy a pair, the best way per title.
* **Validation**: predictions logged by runs, and ingests that walk over the matches without an
  outcome (or over any of them, since `--limit` cuts the list), ask the vendor for each, and write all
  outcomes down at the end. The vendor plays
  matches, lists some the other way round, and corrects scores.
* The **MC** modules give the constants their values and the symmetry sets. Several of them hold
  more than one component: where the components meet (the loop and its ticks, the registry
  and the mail loop, the wire and its abstract mailbox) they are composed; where they share nothing
  (the parts of MCDelivery, MCPublish, MCAudience, MCCaches, MCRecords and MCDeskLoop) an execution
  is of one part, chosen in the initial state, so that the product of their states is not built.
  The constants of the MC modules have the assumptions of the components they are given to, and the
  cfg files the small values, so that what is proved of an MC module is proved for every value.
  The **Proofs** modules hold the theorems.

Operators with an underscore in their name (`MarkSent_ByMatch`, `Recomputed_AllKept`, ...) are
deliberately faulty variants of the operator they are named after. No action uses them;
`PROJECT.json` pairs each with the property that fails when it is put in place of the
original. Variables declared under "Observed, for the properties only" or "History" are
read by no action that the code has.

### What is abstracted

* **Data.** A body is a version or a state with a timestamp; prose, prices and JSON
  layout are absent. An etag is the body it hashes (so hashing is injective), and the
  pushed body is the body on disk (the runner strips cross-venue fields from the
  pushed copy; equality is up to those fields). An article is its version, a score is who
  leads, a position is held or not, a lineup is the order of its `fetched_at`.
* **Times.** Two runs never take the same `now`; `updated_at` has a resolution of microseconds. In
  Distribute time is counted in ticks of the loop, and the sweep's `now` in whole
  ticks before the outcome (`age`). In TickLog an id is a second and may well be
  shared, as in the code. Elsewhere an hour, an interval or a window is a few units.
* **The wire in Publish** is the body enqueued last. What becomes of it afterwards is
  Distribute's matter; the two modules split the path at `enqueue`.
* **`_atomic_write`** in Publish writes the whole `.tmp` in one step; Registry, where threads of
  one process meet within a write, splits it into truncation and contents.
* **An unreadable `index.json`** makes the runner go on without detection; the index is
  only ever written by rename, so the case needs damage from outside and is left out.
* **One of many.** Sports have separate directories, wallets share only the loop, sources and
  teams share nothing: one of each is modelled. Outrights enqueue through the same
  table under ids of their own, hence as further matches.
* **decide()** raising is caught in the build and becomes a pass; it changes no state.
* **`publish_failed`** is in the transition table of the drafts, but no caller sets it.
  Slides, captions and the ranking of picks are data; the hit rate of the roundup is left
  out, since its lookup is a stub that knows no result.
* **The choice of rows** (which fixtures to seed, which picks to draft, which matches lie in the
  window of a lineups command) is a nondeterministic choice.

## 3. The runs

| Run | Asks | States |
|---|---|---|
| `outbox_contended` | two runs, a kill, a replay: `LostOnlyByRace`, `TwoSweepsPerMinute`, the refinement `ImplementsPostbox`, and under fairness `EveryBodySettles` | 52 883 |
| `delivery` | the wire with one run at a time, two matches, kills, no replays: the refinement `ImplementsMailbox`; the live feed with three browsers for room of two and a store that may fail at every call: `ClientsAreCurrent`, and under fairness `FeedMovesOn`; the opportunities on it: `QuotedOpportunityPays` | 1 353 767 |
| `publish` | two runs one after the other or interleaved at each write, a fault, a kill: `EtagsAgree`, `DiskIsPushed`, `LiveIsIndexed`, `StreamIsMonotonic`; the same of the outright: `OutrightHeals` | 1 340 386 |
| `audience` | two drafters across midnight, two requests: `PostedOnce`, and for drafts on which no two requests crossed `EveryEditRecorded`, `TerminalRowIsFrozen`; two vote requests, views, seeds with failures, aggregates with an outage: `DailyCeiling`, `FrozenVoteStays`, `NoGhostReaders`; and the actions of the weekly roundup | 2 154 890 |
| `desk_loop` | two short days, late wake-ups, ticks that outlast a slot, edits, a deploy: `OncePerSlot`, `PauseIsHeard`, `SlotIsServed`; the loop's tick beside a manual one, failing or killed at each step: `CostIsOfItsRun`, `ManifestHeals` | 4 713 388 |
| `loops` | a daily mail under its switch, two admin requests, the command line, a failure of the mail or of its mark, a deploy: `SwitchesHold`, `OneMailPerDay`, `DayIsMailed` | 4 626 893 |
| `records` | refreshes of a wallet from two visitors and the loop, a trade, a failure, a deploy: `RefreshesAgree`, `GateRemembers`; two fetches, two extractions with and without a cap, two articles that change, a failure or a kill: `SignalsAreCurrent`, `Polite`; two ingests, two matches of which one is listed the other way round, a correction, a failed call, a timeout, a limit: `OutcomeIsAResult`, `SettledIsResolved` | 9 104 241 |
| `caches` | two processes with any of the squad commands, two refreshes of the odds beside a run, two refreshes of the ratings beside the two readers, a kill in each: `PenaltyIsOfTheRows`, `SuspensionWins`, `OwnXI`; `UnresolvedIsOwed`, `FairBookIsOneAnswer`; `RatedByTheNewest`, `LabelledAsRated` | 3 038 890 |
| `one_cent` | `OpportunityPays`, without the exception of `QuotedOpportunityPays`: **violated** | - |
| `roundup` | `RoundupHasThePicks`: **violated** | - |
| `kept_alive` | `LoopRefreshesTheViewed`: **violated** | - |
| `half_feed` | `HalfParsedIsRefused`: **violated** | - |

All of them hold, but for the last four, which show where the code does not do what its
documents say (below). Deadlock is checked in every run: in each model something can always
happen, or, at the bounds, the explicit step `Horizon` stutters.

### Properties under a condition

Many of the promises in the code's documents do not hold without a condition, because
two processes can cross or one can be killed. The properties state the condition and the runs show
that it is enough; section "Where code and documents differ" says what happens without
it.

* **What only a crossing breaks.** `LostOnlyByRace` (a body is lost only when a run writes into a row in hand or
  gone), `EveryEditRecorded` and `TerminalRowIsFrozen` (unless two requests crossed on the draft), `SwitchesHold`
  (unless two requests crossed since the last lone request of that loop), `CostIsOfItsRun` and `ManifestHeals`
  (ticks that met no other), `SignalsAreCurrent` (an extraction nothing crossed, for as many of the newest articles
  as its cap let it take), `PenaltyIsOfTheRows` (a replacement nothing cut into), `FairBookIsOneAnswer` (a
  replacement nothing crossed; a killed one leaves fewer quotes, all of one answer), `RatedByTheNewest` (equality
  with the newest feed: a refresh that was neither killed nor crossed, of a feed that should not have been
  refused), `OutrightHeals` (a run of the outright that met no other). In each the condition is repaired by the
  next lone operation, and the properties say so: the history variable forgets the crossing then.
* **What holds whatever crosses.** `ImplementsPostbox`, `PostedOnce`, `RefreshesAgree` (with bounds instead of
  equality: an older fetch may win over a newer one, but nothing is mixed in that nobody was answered),
  `DailyCeiling` (with the slack that requests in flight give it), `OutcomeIsAResult`, `SuspensionWins`, `OwnXI`,
  `UnresolvedIsOwed` (an event no run can find is owed by a refresh under way, or lost by one that ended before it
  got there), `ClientsAreCurrent` (whatever happened within a cycle, after one that ended every connected browser
  holds its board), `LabelledAsRated` (a match whose team gets its first row between the two questions excepted),
  the bounds of `RatedByTheNewest` (never older than the last feed stored alone, never newer than the newest
  accepted), `GateRemembers`, and `OneMailPerDay` with its count: a day has one mail, and one more at most for each
  sender that began beside another or left its mail without the mark.
* **What is owed.** `SlotIsServed`, `DayIsMailed` and `SettledIsResolved` are progress
  stated as safety: by the time the loop sleeps again (or the ingest ends, or so many
  units have passed) the thing has been done, but for the excuses they name.

### Where code and documents differ

The models do what the code does. These are the places where a document, a comment or a
docstring says otherwise; they were met while reading and modelling.

* **Wire.** A sweep claims the row of a match and posts its body; the next run overwrites
  the row; the answer deletes it by id, the new body with it (`distribute/worker.py:93`
  against the module text of `outbox.py:9-12`). `LostOnlyByRace` says that this and a write that
  arrives after a newer one are the only ways to lose a body. A replayed dead letter may
  become a second pending row of its match (`outbox.py:228` against `:8`): `OnePendingPerMatch`
  is proved without replays. `worker.py:7-8` promises `rate_per_min` in any
  rolling minute; the budget is per sweep and a sweep comes every 30 s by default, so twice
  that is what holds (`TwoSweepsPerMinute`).
* **Publishing.** When every fixture fails the index keeps listing matches that are being withdrawn
  (`runner.py:469` against `:474-475`). A run killed between index and withdrawals leaves a
  pick published for ever, since no later snapshot names it (`runner.py:470`). Two
  runs share the `.tmp` files (`publish/writer.py:23`), so that one may install the other's body
  under a name and enqueue its own. A listed fixture whose build raises is withdrawn
  too, although `publish/contract.py:34-36` reserves that for matches that left the live universe.
* **Opportunities** (finding, run `one_cent`). `_to_decimal` (`core/market_normalizer.py:48`) takes a price
  above 1 for cents and everything else for dollars, so a quote of a single cent becomes a
  dollar. A book of 1 bid, 2 ask is read as 51 cents, and where NO is not quoted NO becomes 49 cents
  instead of 98.5: pairs are reported as arbitrage that cost more than a dollar.
  `QuotedOpportunityPays` shows that a quote of one cent is the only way. Two smaller ones: a
  Polymarket market without prices is shown as 50/50, and prices are mid prices, which nobody sells at.
* **Weekly roundup** (finding, run `roundup`). The roundup of a week looks for its picks in the published files
  when it fires, on a Sunday six to thirteen days after the kickoffs; by then the venue has closed the markets, a
  run has withdrawn the matches (`distribute/withdrawn.py:75`) and the files say so.
  `THE_DESK_SOCIAL_SPEC.md:141-144` expects them computable "from existing JSON". The same spec says "published in
  the last 7 days" (`:136`); the window is by kickoff, over the calendar week before the current one, which on a
  Sunday has been over for six days (`WindowIsOverForDays`). A subprocess that fails on its Sunday is not tried
  again that week, and then the week is never covered. The withdrawal is the only way to miss a match: a roundup
  that fires finds every match of its week that is still published (`OnlyWithdrawnMiss`).
* **Live feed.** `get_movers_from_memory` is documented as what is "used when SQLite history is too
  thin", and overwrites the movers of the store in every cycle; `DataStore.cleanup_old` is called by nothing;
  the room per route is checked before the accept is awaited, so browsers that knock together exceed it.
* **Odds.** "The cache never silently keeps stale prices" (`replace_prices_for_event_venue`), but only
  venues that are in the answer are visited: one that stops quoting keeps its last prices. "A failure
  on one sport_key doesn't block the others" (`refresh.py:94`) holds for the fetch; an `IntegrityError`
  while storing, which two refreshes that cross can cause, ends the walk.
* **Ratings** (finding, run `half_feed`). `parse_world_tsv` promises to abort on "too few rows after parse" and the
  module "never [to] overwrite the cache from a half-parsed feed" (`data/elo/eloratings.py:71-75`, `:8-10`); what is
  counted are the lines read (`:102`). A feed with enough lines of which few parse, those in range, is stored.
  `build_features` asks for the values and then for the labels: a team whose first row is stored
  in between passes the stub gate with the default of the seed (`features_builder.py:112`).
* **Prices.** A prediction market that leaves a side unpriced stays without true prices, so the verdict on that
  side falls back to implied ones although `compare.py` says they are never mixed, and the
  badge, which ranks priced quotes only, may then name another venue than the headline
  (`BadgeIsNoDearer` states what is left). The flag for true prices also merges the cached odds of bookmakers
  and exchanges, so switching it on can add a Pick: one charged at a cached quote, or, on markets that were not liquid
  by themselves, one the merge made liquid (`TruePriceIsConservative` says that these are all).
* **Social.** Two requests that both read a draft as pending can revive a rejected one
  (`desk_social_api.py:312` against `social/models.py:36`); two edits that cross keep the later
  entry of the history only (`THE_DESK_SOCIAL_SPEC.md:201`); the unique index answers a
  second drafter with an `IntegrityError` nobody catches (`social/runner.py:149` against `:14-15`).
* **Ticks.** After a run that failed, `_latest_run_id` is the previous run's, and its row is billed
  for this tick's calls (`desk_refresh_loop.py:372`): `CostIsOfItsRun` speaks of ticks whose
  report reached the manifest. An edit of `control.json` within the last two chunks of sleep (and an overrun) may go
  unheard, and one made during a tick does not end it: `PauseIsHeard` bounds how old such an edit can be.
* **Registry and mails.** Two requests that write at once may leave a torn `schedules.json`, which is read
  as the defaults. The mail loop's sleeps of an hour and its work drift, and may step over the
  hour of the mail altogether; a sender that crosses another may write an older
  `last_sent` over a newer one. "Emailed once per day" is one mail and one more for each time the mark was
  missing afterwards: the mail goes out before `mark_sent` (`daily_report.py:1070`), which may raise (no directory, no
  space), be cut by a deploy, or truncate the file another sender reads; the loop swallows what it raises
  and mails the day again when it next looks in the hour, and so does the command line.
* **Activity.** The comment calls a vote frozen 24 h after it was cast (`activity/router.py:178-180`);
  the clock is `voted_at`, which every flip resets, so `FrozenVoteStays` counts from the last flip.
  After an outage of the aggregate job `views_24h` of a match whose rows are pruned stays for ever.
* **Ledger** (finding, run `kept_alive`). "Refreshes every wallet viewed in the last 24h" (`ledger/refresh_loop.py:3`):
  every refresh marks the wallet as viewed, that of the loop too (`ledger/service.py:115`), so a wallet viewed once
  is refreshed at every turn of the loop for ever (`AViewLastsForEver`), and the set the loop walks only grows.
* **News.** `extract_all` is documented to extract "any items we don't yet have signals for"; its limit per source
  cuts the list before it looks which articles have signals already (`signals/extract.py:300-301`), so an article
  that falls behind the newest ones before it was extracted is not reached again until it changes, and
  `SignalsAreCurrent` promises nothing of it. `fetch.py` calls its stamp the "last successful fetch"; failures are
  stamped too, which is why the pill also looks at the status. `list_signals` returns the signals of every
  extractor and hash.
* **Verdict.** The branch of `decide()` for missing market data is unreachable
  (`UnquotedIsIlliquid`); on a snapshot where only some quotes are enriched the best one is
  ranked by implied price and charged at its true price; `pass_pp` is read by nothing.
* **Validation.** "Extra time" is mentioned, but only `FT` resolves: a match decided after it stays
  pending for ever. The timeout of an ingest throws away everything it had found, since outcomes
  are recorded after the walk (`desk/desk/cli.py:728`).
* **Squad data.** `lineup_for_team` says that "the lineup table only carries upcoming fixtures", but
  nothing deletes a row: until the next match is resolved, which happens inside its 24 h
  window only, the news of a team may carry the XI of its last match. `OwnXI` therefore starts from the
  match being resolved. The refresh of lineups says that it aborts on an auth failure; the
  outcome it looks at carries no error text, so it never does. "Per-team failure isolation"
  (`injuries_refresh.py:5`) is broken by a player listed twice: the `IntegrityError` ends the walk.

### Bounds

Every bound is a CONSTANT and a guard, and the cfg files give their values.

* *Wire.* Two matches let a budget of two rows and two deliveries in flight matter; how
  long a due row has waited only orders the claim, which none of that run's properties
  depends on, so there `MaxLate` is 0. Matches do not otherwise interact, so the run about what
  happens to one row uses one match. Two versions are what an overwrite needs, and two runs are
  what a stale write needs. The schedule has two steps (first retry, last retry) or one; the
  timeout of a sweep is one tick, so that a sweep sees a tick pass.
* *Publishing.* Two matches: one fails or disappears while the other is published. Two runs that
  find fixtures: publish, then withdraw or repair; or both at once. Any number of
  runs that find none, one fault, one kill.
* *Social.* One pick: drafts of different picks share nothing. Two days give two ids for
  that pick. Two edits and two requests are what a crossing needs.
* *Refresh.* An hour of three seconds and chunks of one leave several chunks to a slot, with every
  phase of the half seconds; days of two hours, so that a slot comes round again; ticks of 1 to
  3.5 s, longer than an hour; 20 half seconds are more than three hours. Two edits
  make a pause and its end; one deploy.
* *Live feed.* Three browsers for room of two: two inside and one at the door. Every second board
  is saved, so that cycles with and without the store alternate.
* *Opportunities.* Three markets on one platform, two on the other, so that pairs compete; the quotes of one
  market change per cycle, and the first cycle starts from any.
* *Outright.* Two runs, five payloads, a fault and a kill: a run that heals after one that was cut and one
  that crossed.
* *Roundup.* Two matches two weeks apart, days of two units, fifteen of them: both Sundays are reached, and
  the later match keeps the runs going when the earlier one is gone.
* *Ticks.* Two tickers, three ticks and three seconds: ids collide or do not. A retention of one
  makes every prune count.
* *Loops.* Two loops in one document, two requests, two toggles; two days of two hours of two
  units, with a unit of lateness and one of work, so that looks drift; a deploy, a failure (of the mail
  or of the mark), a manual mail.
* *Ledger.* One asset (assets are rows of their own; only membership is compared), two
  visitors and the loop: three refreshes in flight. The window of views is three units, the loop's
  interval one, a refresh one.
* *Activity.* A ceiling and caps of one, so that every step meets them; three matches, of which
  two exceed the ceiling; two seed passes.
* *News.* Two articles and caps of one and of two: an article that is cut off and one that is not. Two
  changes of them, two fetches and two extractions of one model, which cross or follow each other; a second
  model would meet the first nowhere but in the mark that two runs of one model leave. One failure or kill. The
  interval is one unit of two, so that a fetch comes too soon and another does not.
* *Validation.* One match as listed and one the other way round, each through all its statuses; two
  ingests; a settle buffer and a timeout of one unit; a correction and a failed call.
* *Odds.* Two ids of the match, one venue with two sides, two answers, a run, one fault.
* *Ratings.* Two teams of which the seed knows one; three feeds of six kinds (complete, reordered, half parsed so
  that a team is gone, columns shifted, too short, unparsable), two readers, a kill.
* *Squad.* One team with two matches, since the hazards are between the rows of a team and
  between its matches; answers that are empty, mixed, beyond the cap, or list a player twice;
  four commands in two processes and a kill.

Where a property has a theorem (section 4) it does not depend on these bounds.

### Fairness

Two properties are liveness properties, `EveryBodySettles` and `FeedMovesOn`. `FairSpec` of Distribute assumes that
the loop keeps ticking, that a sweep with due rows starts once the loop has slept, and that the deliveries in hand
proceed: weak fairness of `Tick`, `Claim`, and of *some* delivery. The loop is `while True` around a sleep and
catches what a sweep raises (`desk_distribute_loop.py`); a POST ends because the client has a timeout
(`client.py`), and the sweep awaits all its deliveries. The assumption is that the loop is enabled and the process
up. Nothing is assumed of the runs, the operator, or the answers of MTA, which may refuse for ever: that is why a
body may settle as a dead letter.

`FeedMovesOn` assumes weak fairness of the cycle of the scheduler: its loop catches what a cycle raises and sleeps
(`scheduler.py`), a fetch has a timeout, and a send ends or raises. (A peer that stays connected and stops reading
holds the broadcast until the ping timeout of the server ends it.) Nothing is assumed of the store, which may fail
at every call, of the platforms or of the browsers.

The clocked modules need no fairness: the passing of time (`Pass`, or `Elapse` in Validation) is blocked while a
sleeper is overdue by more than `Late`, or a piece of work by more than `Work`, so what must happen
by an instant is a safety property. Nothing is assumed of users, vendors and operators. Publish and
SocialDraft have no progress property: a run or a draft may be abandoned, and nothing in the
code retries it but the next run.

## 4. The proofs

The theorems hold for all sets of matches, processes, visitors and requests, and for every
schedule, interval and bound, from the named assumptions of the modules only
(`OutboxAssumption`, `PublishAssumption`, `LedgerAssumption`, ...): bounds are naturals, intervals are
positive, finite sets are finite. Each has the same shape: the initial states, one lemma or
step per action, and a temporal step. Each module starts from its typing theorem.

**Distribute** (`DistributeProofs`). Each table operator has a lemma that says what it keeps.

* `RetriesBounded` and `ClaimsStayPending` (an outcome is only applied to a pending row; no run checks
  this one by itself). `RetriesAreBounded` is not inductive: the
  worker decides on a *copy* of the row taken when it was claimed, and by the time
  the outcome is applied `enqueue` may have reset the row. `AttemptInv` adds that what
  is claimed is still a pending row of the same match, and that it counts no more
  attempts than its copy. The first of these is the heart of it: enqueue keeps ids,
  replays only touch dead rows, and only the drain deletes or buries.
* `LossOnlyByRace`. `LossInv` adds that the row a run has
  selected belongs to its match (ids are never reused), that no row is newer than what
  was queued last, that a row in hand holding the newest body of an unraced match still
  holds the body that was *sent*, and that an accepted body is at the receiver. The third
  is what makes the deletion by id harmless outside the race.
* `OnlyReplayRevives`: the action property `DeadStaysDead` (no run checks it any more, nor
  `RetriesAreBounded`: the theorems have taken their place). It needs `ClaimsArePending`: an
  outcome is applied by id, so it must not be the id of a dead row.
* `OneRunOnePending`: `OnePendingPerMatch`, the documented invariant, if one run enqueues
  at a time and nothing is replayed. The strengthening: a run that is about to insert would still
  find no pending row.
* `WireIsAMailbox`: under the same two assumptions `Spec` implements the specification of Mailbox, by the mapping
  of DistributeMailbox. `MailInv` collects what a step needs to be one of Mailbox: the invariants above, that
  whoever is about to write holds a body newer than any queued or claimed, and that no two rows of a match hold the
  same body (`FreshInv`). One lemma per kind of step (`MailWrite`, `MailDeliver`, `MailClaim`) gives the step of
  Mailbox; all others leave the mailbox alone. Without the assumptions a match has several slots, and the mapping
  is not defined.
* `WireIsAPostbox`: `Spec` implements the specification of Postbox, without any assumption. `BoxInv` is the types,
  `AttemptInv` and `LossInv` together: a claimed row is pending and of the match it was claimed for,
  so what `mark_sent` deletes by id is the letter of the copy, and an accepted body is at the receiver.
  Again one lemma per kind of step (`BoxWrite`, `BoxDeliver`, `BoxClaim`, `BoxReplay`).
* `TwoSweepsAlways` (`BudgetInv`): the calls made within a tick and those still waiting for the semaphore
  stay within one budget, by a lemma on the `LIMIT` of the claim, since the loop rests before the next
  sweep.

**Market** (`DistributeProofs`): `ClientsAreCurrentAlways`. `FeedInv` follows a cycle: which
half of the board it has assigned, and during the broadcast every browser that is in has heard
the board or is still among those to be sent it. `SocketsInv` says in which of the server's sets a
socket may be at each of its stages.

**Arbitrage** (`DistributeProofs`): `OpportunitiesPay`, for any markets, quotes and likeness of titles: an opportunity
on the board costs less than a dollar, unless one of its quotes is a single cent or missing; and no two are of one
market or of one title. The greedy pairing is the recursive function `Turns` over the markets served so far.
That it exists and has its type is an induction over its argument, which is done without an
induction rule: among the arguments at which it would fail there is a least one (`UpTo`, a well-founded order),
and there it does not. The same way the choices of the code are shown to choose something: a best market among
those left (`BestIsThere`), and the way with the largest edge, since no edge is wider than `Widest` (`EdgeIsBounded`).
`PriceIsCost` compares what the scheduler reads with what the quotes mean.

**Publish** (`PublishProofs`). `TypeCorrect` needs that only the index is written under a name
that is not a match (`Fits`). `IndexNeverDangles`: `IndexedFilesExist`, for any number of runs that share
their `.tmp` files. Any body that may end up under the name of the index, on disk, in a
`.tmp` or in a run, must list existing files only, and a run reaches its enqueue only after
its json has the name (`FileInv`, with `Grounded` for one run). A rename may install
another run's body, so the invariant speaks of all `.tmp` files at once.

`EtagsAgreeAlways`, `DiskIsPushedAlways`, `LiveIsIndexedAlways` and the action property
`StreamIsMonotonicAlways` are about the names that are not `dirty`. They share one invariant,
`PublishInv`: no body anywhere is later than the clock (`ClockInv`), and a run that met no other is
alone in the directory and `Tidy`, that is, at each of its places in the source the files, the etags, the
index and the wire are as far as the statements before that place brought them (`Shape`, `FilesInv`,
`CoherenceInv`, `IndexInv`, `StreamInv`). Once runs have met, every name is dirty until the
directory is quiet; and a quiet directory is `Settled`.

**Outright** (`PublishProofs`): `OutrightHealsAlways`, by what a lone run has written at each of its
places (`Wrote`).

**SocialDraft** (`SocialDraftProofs`). `PickIsPostedOnce`, from one row per pick in the table.
`PostFollowsApproval`: the guard of a transition is read on an older row, so the invariant
(`ApprovalInv`) also speaks of the requests in hand. `DecidedStaysDecided`: `GuardInv` says that a request
in hand passed its guard on the row it read, and that the row is still that one unless the draft was crossed.
`HistoryIsComplete`: `EditInv` says the same of the history an edit is about to write back.

**Activity** (`SocialDraftProofs`). `DailyCeilingHolds` (`CeilingInv`): the votes of today and the requests that
have passed the count are together at most the ceiling less one and the number of requests: a request
passes only while the votes are below the ceiling. `FrozenVotesStay` (`VoteRowsInv`): a request
about to change or lock a row has seen it old enough for that, and a vote once cast is never
none again. `GhostsNeedAnOutage` (`ViewsInv`): while the aggregate job was never
away, the readers an aggregate shows are among the rows that are too young to be pruned.

**Week** (`SocialDraftProofs`), for every instant and length of day: `WindowIsTheWeekBefore`, `NextFireIsAhead`,
`EarlyWakeIsTheSameWeek` (the sleep is cut to seconds, so the loop may draft twice at its hour; both drafts are of
one week, which the unique key refuses), `WindowIsOverForDays`, `WindowsTile`. An instant is split once into its
week, day and rest (`InItsWeek`); the rest is linear arithmetic.

**Roundup** (`SocialDraftProofs`), for any matches, kickoffs and length of day: `RoundupsStayApart` (no match is in
the roundups of two Sundays) and `OnlyWithdrawnMiss` (what a roundup misses of its week was withdrawn).
`WeeklyInv`: the matches of a draft have their kickoffs in the week the draft is of, which is a whole one
(`IsOfWeek`), weeks with a draft get no other, and a match that was a pick when last decided is still one in its
file or was withdrawn, its market closed.

**RefreshLoop** (`DeskLoopProofs`). Everything rests on `LoopInv`: a loop that sleeps went to sleep at some earlier
instant with the control it had read, which is the present one unless it was edited since, and has not overslept by
more than `Late` (`Slept`). Hours are quotients of the clock, hence the lemmas on multiples. `OncePerSlotAlways`
needs nothing else. `PauseIsHeardAlways` assumes that a sleep overruns by less than an hour. `SlotIsServedAlways`
(`ServedInv`: every hour scheduled for long enough was served, up to the instant the loop went to sleep,
`ServedUpTo`) assumes that a sleep overruns by less than a second, and the assumption is needed: a chunk that would
end a second before the slot and wakes at it is followed by a look for a slot strictly later. On the real loop that
takes a wake-up late by a second at one of the chunk boundaries; the slot is then lost without a trace.

**TickLog** (`DeskLoopProofs`): `ManifestHealsAlways` and `CostIsOfItsRunAlways`, by `LogInv`: ids against
the clock (`IdsInv`), what a ticker has not yet done at its stage (`StagesInv`), what an undisturbed
ticker may rely on although others come and go (`UndisturbedInv`, `RelyOn`: its id is its own, its report
the last, nobody else at the files), and that nobody pays any more under the id of a row of totals
(`RowsInv`).

**MailLoop and Registry** (`UpkeepProofs`). `MailedOnce` (`OneInv`): a day has at most as many mails
begun as it has slips and one more; and a day that has them all (`Full`) is marked, or over, or has a sender under
way, and no sender is at an earlier day, which could write an older mark over its own. So whoever begins the day
once more does so beside another sender, or after a mark that failed, and that is one more slip. Days are quotients
of the clock, hence the lemmas on division. `DueDaysAreMailed` (`DayInv`): the
mark of a day implies its mail, so a look that finds the mark owes nothing. `TheSwitchesHold`
(`SwitchInv`): a request in flight carries the switches of all sure loops, and the inode it writes is
its own unless another request shares it, in which case nothing is sure.

**SquadData** (`UpkeepProofs`). Any commands in any number of processes, with kills.

* `PenaltyIsOfTheRowsAlways` (`PenaltyInv`): what a command will charge a team is the charge of
  the rows it fetched, and where one command alone replaces the rows of a team, the rows stored and the rows
  it still has to insert are together what it fetched. Only that the charge is a function of
  the rows is used.
* `SuspensionWinsAlways` (`CardsInv`): also the rows that were reconciled and are not inserted yet
  heed the suspensions as they are stored now, unless one of the player was inserted since.
* `OwnXIAlways` (`LineupsInv`): an XI is stored under a match that is resolved, and matches stay
  resolved; what a run knew when it started still is so (`RunKnows`).

**OddsData** (`UpkeepProofs`). `UnresolvedIsOwedAlways` is inductive once the types are known: a refresh owes all
events of its answer until it has resolved them. `FairBookIsOneAnswerAlways` (`BookInv`): the
stored rows of a book that no two refreshes crossed in are quotes of one answer, every replacement of them
under way inserts that answer too, and what a run has read of such a book is of one answer.
The attempt showed that the property had an exception too many: a replacement that is killed half-way
needs none.

**EloData** (`UpkeepProofs`). `RatedByTheNewestAlways` (`RatedInv`): a refresh about to store a team that is not in
doubt holds the newest accepted feed that listed it; and `BoundInv`, which needs no such exception: what is stored,
or yet to be stored by any refresh, is no older than what was last stored alone. `LabelledAsRatedAlways`
(`LabelInv`): a rated team stays rated, so a match, which asks for values first (`ValuesFirst`), errs only on a
team that got its first rating between the two questions; the outrights ask for the label first (`LabelsFirst`) and
do not err.

**Ledger** (`LedgerProofs`). `CrossingRefreshesAgree` (`AgreeInv`): what each refresh in flight was answered lies
between the bounds (`Within`), and each stage every refresh has passed (`Past`) has brought its table between them.
`TheGateRemembers`: the sweep drops entries older than `GateKeep` intervals, at least one (`SweepIsLate`).
`AViewLastsForEver`, which explains the run `kept_alive`: where `Interval + 2 * (Late + Work) <= ViewWindow` the
loop's next look, or the refresh it is in, lies within one interval of the last view, its own included (no run
checks `ViewedForEver`).

**News** (`NewsProofs`). `FreshSourcesWereFetched` (the pill is fresh only within the window of a success; no
run checks this one by itself), `OutletIsSpared` (`PoliteInv`: what was asked last is stamped by the time no
fetch is under way), `SignalsStayCurrent` (`SignalInv`: what a quiet extraction has walked over has the
extractions of the cached versions, and an article that changes in between takes the quiet away;
`NewestSuffice`: whoever is not among the newest up to a cap has as many served articles before it).

**Validation** (`ValidationProofs`). `OutcomesAreResults` (`ResultInv` adds what each ingest has found),
`ResolvedStays` and `SettledGetsResolved` (`OwedInv`: what was due when an ingest began is resolved, found,
left to ask, or its call failed; settled matches stay settled). These, the ledger's and the news' are about the
specifications of the components; the run `records` executes one of them at a time, unchanged.

**Verdict** (`ValidationProofs`), for every input: `PickIsJustified`, `PickOrAvoid`, `BandOnlyRemoves`,
`TruePriceIsConservative`, `NoAvoidOnOneVenue`, `UnquotedIsIlliquid`. The last five are claims of comments
in `decide.py` and `thresholds.py`.

**OutrightLadder** (`ValidationProofs`): `HeadlineMatchesLadder` and `HeadlineIsSurest`. The headline is chosen over all
positions, the rows of the ladder team by team; that they agree rests on the same threshold applied
to the same lower edge. **Pricing** (`ValidationProofs`): `TruePriceIsNeverCheaper` (from the rounding of the three
formulas, each with a lemma), `FlagAloneChangesNothing`, `BadgeIsNoDearer`.

Where a component is checked as a part of an MC module, a step of that module is a step of one part
that leaves the others alone, and the theorem is about the specification the run uses
(`CachesSpec`, `PublishSpec`, `AudienceSpec`, `LoopSpec`, `DeliverySpec`).

Every other property of the passing runs is a theorem (section 3 says under which conditions). Only model-checked,
or not stated in general:

* `EveryBodySettles` and `FeedMovesOn`: liveness under fairness is beyond the proof system.
* Of operators that fold, such as `Charge` of SquadData, the theorems use only that they are functions
  of their arguments.
* `ImplementsMailbox` is checked and proved under the assumptions of its run, one run at a time and no replays; without
  them a match may have several pending rows, and Postbox is what holds.

The other way round, the two properties of Roundup are proved and no run checks them.

## 5. Not modelled

* The fixed sleep of the lineups loop and its publish switch: neither remembers anything. What the
  loop launches is in SquadData and Publish.
* Trading rails: no entry point constructs the executor, and it reads settings that `config.py`
  does not define. Modelling it would describe code that cannot run.
* Read APIs, the heuristics of the trading server: they read, or score one snapshot in real numbers.
* Desk stub and the older server: copies of code modelled here.
* Static site, signup, content of reports and mails: formatting and plain I/O.
* Numeric models (Elo, Poisson, simulation, form), vendor adapters, prose, Brier scores: real-valued
  functions of their inputs.
* Of modelled components: ops diffs, reactions and click counters of Activity, parsing and weighing
  of news, the form cache, the club ratings nothing asks for, `--force` of the mails.

By lines, most of the repository is in that list: the site generator, the templates of the explainer and
of the daily mail, the command line's printing and argument parsing, and the numeric models are its longest
files. They keep no state that outlives a call and meet nobody, and a
module about them would either repeat their text or say nothing of it. What the map covers is
therefore a small part of the lines and most of the statements that change shared state.

## 6. Plan

1. That MailLoop implements one mail a day, as a specification without a registry.
2. Publish composed with RefreshLoop and the lineups loop: how many runs are inside `run_once`,
   and when.
3. The form cache, the last of `data/`, which follows the pattern of SquadData.
