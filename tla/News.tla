-------------------------------- MODULE News -------------------------------
(* The news signals of one source (desk/signals: fetch.py, cache.py,         *)
(* extract.py, runtime.py): `desk fetch-signals` brings its articles into    *)
(* source_items, `desk extract-signals` asks a language model for the        *)
(* signals in them, and a run of the desk cites what signal_extractions      *)
(* holds. Both commands may run several times at once, every statement is    *)
(* committed by itself, and articles are edited meanwhile.                   *)
EXTENDS Integers, FiniteSets

CONSTANTS
    Articles,      \* of the source's feed
    Fetchers,      \* runs of fetch-signals
    Extractors,    \* runs of extract-signals
    Models,        \* Extractor.id: the model a run extracts with
    Caps,          \* what --limit of extract-signals may be; none is one as large as the feed
    MinInterval,   \* DEFAULT_MIN_INTERVAL
    FreshWindow,   \* _FRESH_WINDOW
    Slow,          \* bound: units a fetch may take
    MaxClock, MaxEdits, MaxCommands, MaxOutages   \* bounds

ASSUME NewsAssumption ==
    /\ IsFiniteSet(Articles) /\ IsFiniteSet(Fetchers) /\ IsFiniteSet(Extractors)
    /\ Models # {} /\ Caps \subseteq Nat \ {0}
    /\ {MinInterval, FreshWindow} \subseteq Nat \ {0}
    /\ {Slow, MaxClock, MaxEdits, MaxCommands, MaxOutages} \subseteq Nat

VARIABLES
    clock,
    feed,         \* the outlet's side: the version of each article, 0 before it appears
    item,         \* source_items: the version cached, by its content_hash
    stamp,        \* and its fetched_at
    fetched,      \* source_fetches: last_fetched_at and whether last_status is ok
    fetcher, extractor,
    extraction,   \* signal_extractions: the version each model's signals are of
    commands, edits, outages,
    \* Observed, for the properties only:
    lastGet,      \* when a fetch last asked the outlet
    sideBySide,   \* fetches have crossed, or one was killed, since one last ran alone
    settled,      \* for each model the --limit of its latest run, if nothing crossed or
                  \* failed it and no article has changed since; or 0
    success       \* when a fetch last succeeded

newsVars == <<clock, feed, item, stamp, fetched, fetcher, extractor, extraction, commands,
              edits, outages, lastGet, sideBySide, settled, success>>

-----------------------------------------------------------------------------
NotYet == -1
Clock == 0 .. MaxClock
Versions == 0 .. MaxEdits

IdleFetch == [pc |-> "idle", at |-> 0, body |-> [a \in Articles |-> 0], left |-> {}]
IdleExtract ==
    [pc |-> "idle", model |-> CHOOSE x \in Models : TRUE, cap |-> 0,
     list |-> [a \in Articles |-> 0], taken |-> {}, left |-> {}, whole |-> TRUE]

Fetching == {f \in Fetchers : fetcher[f].pc # "idle"}
Extracting == {e \in Extractors : extractor[e].pc # "idle"}

NewsTypeOK ==
    /\ clock \in Clock
    /\ feed \in [Articles -> Versions] /\ item \in [Articles -> Versions]
    /\ stamp \in [Articles -> Clock]
    /\ fetched \in [at : Clock \cup {NotYet}, ok : BOOLEAN]
    /\ fetcher \in [Fetchers -> [pc : {"idle", "get", "store"}, at : Clock,
                                 body : [Articles -> Versions], left : SUBSET Articles]]
    /\ extractor \in [Extractors -> [pc : {"idle", "walk"}, model : Models, cap : Caps \cup {0},
                                     list : [Articles -> Versions], taken : SUBSET Articles,
                                     left : SUBSET Articles, whole : BOOLEAN]]
    /\ extraction \in [Articles -> [Models -> Versions]]
    /\ settled \in [Models -> Caps \cup {0}]

NewsInit ==
    /\ clock = 0
    /\ feed = [a \in Articles |-> 0] /\ item = feed /\ stamp = feed
    /\ fetched = [at |-> NotYet, ok |-> FALSE]
    /\ fetcher = [f \in Fetchers |-> IdleFetch]
    /\ extractor = [e \in Extractors |-> IdleExtract]
    /\ extraction = [a \in Articles |-> [x \in Models |-> 0]]
    /\ commands = 0 /\ edits = 0 /\ outages = 0
    /\ lastGet = NotYet /\ sideBySide = FALSE /\ settled = [x \in Models |-> 0] /\ success = NotYet

-----------------------------------------------------------------------------
(* fetch_source.                                                             *)

\* "skipped"
TooSoon == fetched.at # NotYet /\ clock - fetched.at < MinInterval

FetchBegin(f) ==
    /\ fetcher[f].pc = "idle" /\ commands < MaxCommands /\ ~TooSoon
    /\ commands' = commands + 1
    /\ fetcher' = [fetcher EXCEPT ![f] = [IdleFetch EXCEPT !.pc = "get", !.at = clock]]
    /\ lastGet' = clock
    /\ sideBySide' = (Fetching # {})
    /\ UNCHANGED <<clock, feed, item, stamp, fetched, extractor, extraction, edits, outages,
                   settled, success>>

\* Faulty: only a success counts as a fetch.
Mark_OfSuccess(f, ok) == IF ok THEN [at |-> fetcher[f].at, ok |-> ok] ELSE fetched

\* mark_fetched, with the time the fetch began.
Mark(f, ok) == [at |-> fetcher[f].at, ok |-> ok]

FetchOver(f) == fetcher' = [fetcher EXCEPT ![f] = IdleFetch]

\* A transport error, a status other than 200 or a body that does not parse.
GetFails(f) ==
    /\ fetcher[f].pc = "get" /\ outages < MaxOutages
    /\ outages' = outages + 1
    /\ fetched' = Mark(f, FALSE)
    /\ FetchOver(f)
    /\ UNCHANGED <<clock, feed, item, stamp, extractor, extraction, commands, edits,
                   lastGet, sideBySide, settled, success>>

Get(f) ==
    /\ fetcher[f].pc = "get"
    /\ fetcher' = [fetcher EXCEPT ![f].pc = "store", ![f].body = feed,
                                  ![f].left = {a \in Articles : feed[a] # 0}]
    /\ UNCHANGED <<clock, feed, item, stamp, fetched, extractor, extraction, commands,
                   edits, outages, lastGet, sideBySide, settled, success>>

\* upsert_item: inserted, or rewritten when its hash differs; only then fetched_at moves.
\* (An article that changes crosses the extractions under way.)
StoreItem(f, a) ==
    /\ fetcher[f].pc = "store" /\ a \in fetcher[f].left
    /\ fetcher' = [fetcher EXCEPT ![f].left = @ \ {a}]
    /\ IF fetcher[f].body[a] = item[a] THEN UNCHANGED <<item, stamp, extractor, settled>>
       ELSE /\ item' = [item EXCEPT ![a] = fetcher[f].body[a]]
            /\ stamp' = [stamp EXCEPT ![a] = fetcher[f].at]
            /\ extractor' = [e \in Extractors |->
                               IF e \in Extracting THEN [extractor[e] EXCEPT !.whole = FALSE]
                               ELSE extractor[e]]
            /\ settled' = [x \in Models |-> 0]
    /\ UNCHANGED <<clock, feed, fetched, extraction, commands, edits, outages, lastGet,
                   sideBySide, success>>

FetchDone(f) ==
    /\ fetcher[f].pc = "store" /\ fetcher[f].left = {}
    /\ fetched' = Mark(f, TRUE)
    /\ success' = IF fetcher[f].at > success THEN fetcher[f].at ELSE success
    /\ FetchOver(f)
    /\ UNCHANGED <<clock, feed, item, stamp, extractor, extraction, commands, edits,
                   outages, lastGet, sideBySide, settled>>

FetchKilled(f) ==
    /\ fetcher[f].pc # "idle" /\ outages < MaxOutages
    /\ outages' = outages + 1
    /\ FetchOver(f)
    /\ sideBySide' = TRUE
    /\ UNCHANGED <<clock, feed, item, stamp, fetched, extractor, extraction, commands,
                   edits, lastGet, settled, success>>

-----------------------------------------------------------------------------
(* extract_all.                                                              *)

Crossed(x) == \E d \in Extracting : extractor[d].model = x

Present == {a \in Articles : item[a] # 0}

\* list_items ORDER BY fetched_at DESC, cut at the limit: whether they have been extracted
\* already or not. Nothing orders articles of one fetch.
Newest(cap) ==
    {s \in SUBSET Present :
        /\ Cardinality(s) <= cap
        /\ Cardinality(s) < cap => s = Present
        /\ \A a \in s, b \in Present \ s : stamp[a] >= stamp[b]}

\* The articles are listed once, at the start. (That two runs of one model have crossed is
\* noted in both.)
ExtractBegin(e, x) ==
    /\ extractor[e].pc = "idle" /\ commands < MaxCommands
    /\ commands' = commands + 1
    /\ \E cap \in Caps : \E s \in Newest(cap) :
         extractor' = [d \in Extractors |->
                         IF d = e THEN
                           [pc |-> "walk", model |-> x, cap |-> cap, list |-> item,
                            taken |-> s, left |-> s, whole |-> ~Crossed(x)]
                         ELSE IF d \in Extracting /\ extractor[d].model = x
                           THEN [extractor[d] EXCEPT !.whole = FALSE]
                         ELSE extractor[d]]
    /\ settled' = [settled EXCEPT ![x] = 0]
    /\ UNCHANGED <<clock, feed, item, stamp, fetched, fetcher, extraction, edits, outages,
                   lastGet, sideBySide, success>>

\* Faulty: what was extracted once is never extracted again.
Cached_Once(e, a) == extraction[a][extractor[e].model] # 0

\* cached_signals: the model has signals of the version listed.
Cached(e, a) == extraction[a][extractor[e].model] = extractor[e].list[a]

\* _extract_one: nothing to do, or the model is asked and its signals written down, under
\* the hash of the version listed.
Extract(e, a) ==
    /\ extractor[e].pc = "walk" /\ a \in extractor[e].left
    /\ extractor' = [extractor EXCEPT ![e].left = @ \ {a}]
    /\ extraction' = IF Cached(e, a) THEN extraction
                     ELSE [extraction EXCEPT ![a][extractor[e].model] = extractor[e].list[a]]
    /\ UNCHANGED <<clock, feed, item, stamp, fetched, fetcher, commands, edits, outages,
                   lastGet, sideBySide, settled, success>>

\* The model's call fails: the article waits for the next run.
ExtractFails(e, a) ==
    /\ extractor[e].pc = "walk" /\ a \in extractor[e].left /\ ~Cached(e, a)
    /\ outages < MaxOutages
    /\ outages' = outages + 1
    /\ extractor' = [extractor EXCEPT ![e].left = @ \ {a}, ![e].whole = FALSE]
    /\ UNCHANGED <<clock, feed, item, stamp, fetched, fetcher, extraction, commands, edits,
                   lastGet, sideBySide, settled, success>>

ExtractDone(e) ==
    LET x == extractor[e].model IN
    /\ extractor[e].pc = "walk" /\ extractor[e].left = {}
    /\ extractor' = [extractor EXCEPT ![e] = IdleExtract]
    /\ settled' = IF extractor[e].whole THEN [settled EXCEPT ![x] = extractor[e].cap]
                  ELSE settled
    /\ UNCHANGED <<clock, feed, item, stamp, fetched, fetcher, extraction, commands, edits,
                   outages, lastGet, sideBySide, success>>

ExtractKilled(e) ==
    /\ extractor[e].pc # "idle" /\ outages < MaxOutages
    /\ outages' = outages + 1
    /\ extractor' = [extractor EXCEPT ![e] = IdleExtract]
    /\ UNCHANGED <<clock, feed, item, stamp, fetched, fetcher, extraction, commands, edits,
                   lastGet, sideBySide, settled, success>>

-----------------------------------------------------------------------------
\* The outlet publishes an article or edits it.
Edit(a) ==
    /\ edits < MaxEdits
    /\ edits' = edits + 1
    /\ feed' = [feed EXCEPT ![a] = edits + 1]
    /\ UNCHANGED <<clock, item, stamp, fetched, fetcher, extractor, extraction, commands,
                   outages, lastGet, sideBySide, settled, success>>

NewsPass ==
    /\ clock < MaxClock
    /\ \A f \in Fetching : clock < fetcher[f].at + Slow
    /\ clock' = clock + 1
    /\ UNCHANGED <<feed, item, stamp, fetched, fetcher, extractor, extraction, commands,
                   edits, outages, lastGet, sideBySide, settled, success>>

\* The bounds are reached.
NewsHorizon ==
    /\ clock = MaxClock /\ Fetching = {} /\ Extracting = {}
    /\ UNCHANGED newsVars

NewsNext ==
    \/ \E f \in Fetchers :
         \/ FetchBegin(f) \/ GetFails(f) \/ Get(f) \/ FetchDone(f) \/ FetchKilled(f)
         \/ \E a \in Articles : StoreItem(f, a)
    \/ \E e \in Extractors :
         \/ \E x \in Models : ExtractBegin(e, x)
         \/ \E a \in Articles : Extract(e, a) \/ ExtractFails(e, a)
         \/ ExtractDone(e) \/ ExtractKilled(e)
    \/ \E a \in Articles : Edit(a)
    \/ NewsPass \/ NewsHorizon

NewsSpec == NewsInit /\ [][NewsNext]_newsVars

-----------------------------------------------------------------------------
\* _derive_status
Pill ==
    IF fetched.at # NotYet /\ ~fetched.ok THEN "failed"
    ELSE IF fetched.at # NotYet /\ clock - fetched.at <= FreshWindow THEN "fresh"
    ELSE "stale"

\* "we stay polite": a fetch that neither crossed another nor followed one that was killed
\* asks the outlet no sooner than MinInterval after the one before, failed ones included.
Polite ==
    [][\A f \in Fetchers :
          FetchBegin(f) /\ ~sideBySide /\ Fetching = {} /\ lastGet # NotYet =>
              clock - lastGet >= MinInterval]_newsVars

\* "if the item gets re-fetched and edited, the hash changes and we re-extract": once a
\* run of extract-signals that nothing crossed has gone through, the model's signals are
\* those of the articles as cached, until an article changes; but for articles as many as
\* its limit kept from it, none of them older.
SignalsAreCurrent ==
    \A x \in Models, a \in Articles :
        settled[x] # 0 =>
            \/ extraction[a][x] = item[a]
            \/ Cardinality({b \in Present : stamp[b] >= stamp[a] /\ extraction[b][x] = item[b]})
                 >= settled[x]

\* "last successful fetch keeps it fresh": a source shown fresh was fetched within the
\* window, whatever failed, crossed or was killed since.
FreshIsFetched ==
    Pill = "fresh" => success # NotYet /\ clock - success <= FreshWindow
=============================================================================
