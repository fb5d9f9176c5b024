----------------------------- MODULE NewsProofs -----------------------------
(* What the news signals of a source promise, for any articles, fetches,     *)
(* extractions, models, intervals and bounds.                                *)
EXTENDS News, FiniteSetTheorems, TLAPS

Fetch == [pc : {"idle", "get", "store"}, at : Clock, body : [Articles -> Versions],
          left : SUBSET Articles]
Walk == [pc : {"idle", "walk"}, model : Models, cap : Caps \cup {0},
         list : [Articles -> Versions], taken : SUBSET Articles, left : SUBSET Articles,
         whole : BOOLEAN]

\* NewsTypeOK, and the types of what is observed.
Typed ==
    /\ clock \in Clock /\ edits \in Versions
    /\ feed \in [Articles -> Versions] /\ item \in [Articles -> Versions]
    /\ stamp \in [Articles -> Clock]
    /\ fetched \in [at : Clock \cup {NotYet}, ok : BOOLEAN]
    /\ fetcher \in [Fetchers -> Fetch]
    /\ extractor \in [Extractors -> Walk]
    /\ extraction \in [Articles -> [Models -> Versions]]
    /\ settled \in [Models -> Caps \cup {0}]
    /\ lastGet \in Clock \cup {NotYet} /\ success \in Clock \cup {NotYet}
    /\ sideBySide \in BOOLEAN

LEMMA TypedIsTypeOK == Typed => NewsTypeOK
  BY DEF Typed, NewsTypeOK, Fetch, Walk

LEMMA Zeroes == 0 \in Clock /\ 0 \in Versions /\ Clock \subseteq Nat /\ Versions \subseteq Nat
  BY NewsAssumption DEF Clock, Versions

LEMMA IdleTypes == IdleFetch \in Fetch /\ IdleExtract \in Walk
  <1>1. (CHOOSE x \in Models : TRUE) \in Models
    BY NewsAssumption
  <1>2. [a \in Articles |-> 0] \in [Articles -> Versions]
    BY Zeroes
  <1> QED
    BY <1>1, <1>2, Zeroes DEF IdleFetch, IdleExtract, Fetch, Walk

LEMMA FetcherFields ==
    ASSUME Typed, NEW f \in Fetchers
    PROVE  /\ fetcher[f] \in Fetch /\ fetcher[f].at \in Clock
           /\ fetcher[f].body \in [Articles -> Versions] /\ fetcher[f].left \subseteq Articles
           /\ fetcher[f].pc \in {"idle", "get", "store"}
  BY DEF Typed, Fetch

LEMMA FetcherUpdate ==
    ASSUME Typed, NEW f \in Fetchers, NEW g \in Fetch, fetcher' = [fetcher EXCEPT ![f] = g]
    PROVE  /\ fetcher' \in [Fetchers -> Fetch] /\ fetcher'[f] = g
           /\ \A h \in Fetchers \ {f} : fetcher'[h] = fetcher[h]
  BY DEF Typed

LEMMA WalkFields ==
    ASSUME Typed, NEW e \in Extractors
    PROVE  /\ extractor[e] \in Walk /\ extractor[e].model \in Models
           /\ extractor[e].cap \in Caps \cup {0} /\ extractor[e].taken \subseteq Articles
           /\ extractor[e].list \in [Articles -> Versions] /\ extractor[e].left \subseteq Articles
           /\ extractor[e].whole \in BOOLEAN /\ extractor[e].pc \in {"idle", "walk"}
  BY DEF Typed, Walk

LEMMA WalkUpdate ==
    ASSUME Typed, NEW e \in Extractors, NEW g \in Walk, extractor' = [extractor EXCEPT ![e] = g]
    PROVE  /\ extractor' \in [Extractors -> Walk] /\ extractor'[e] = g
           /\ \A d \in Extractors \ {e} : extractor'[d] = extractor[d]
  BY DEF Typed

\* What each action of a fetch does to it.
LEMMA FetchMoves ==
    ASSUME Typed, NEW f \in Fetchers
    PROVE  /\ FetchBegin(f) =>
                \E g \in Fetch : /\ g.pc = "get" /\ g.at = clock
                                 /\ fetcher' = [fetcher EXCEPT ![f] = g]
           /\ GetFails(f) \/ FetchDone(f) \/ FetchKilled(f) =>
                fetcher' = [fetcher EXCEPT ![f] = IdleFetch]
           /\ Get(f) =>
                \E g \in Fetch : /\ g.pc = "store" /\ g.at = fetcher[f].at /\ g.body = feed
                                 /\ g.left = {a \in Articles : feed[a] # 0}
                                 /\ fetcher' = [fetcher EXCEPT ![f] = g]
           /\ \A a \in Articles : StoreItem(f, a) =>
                \E g \in Fetch : /\ g.pc = "store" /\ g.at = fetcher[f].at
                                 /\ g.body = fetcher[f].body /\ g.left = fetcher[f].left \ {a}
                                 /\ fetcher' = [fetcher EXCEPT ![f] = g]
  <1>1. ASSUME FetchBegin(f)
        PROVE  \E g \in Fetch : /\ g.pc = "get" /\ g.at = clock
                                /\ fetcher' = [fetcher EXCEPT ![f] = g]
    <2> DEFINE g == [IdleFetch EXCEPT !.pc = "get", !.at = clock]
    <2>1. g \in Fetch /\ g.pc = "get" /\ g.at = clock
      BY IdleTypes DEF Typed, Fetch
    <2>2. fetcher' = [fetcher EXCEPT ![f] = g]
      BY <1>1 DEF FetchBegin
    <2> QED
      BY <2>1, <2>2
  <1>2. ASSUME Get(f)
        PROVE  \E g \in Fetch : /\ g.pc = "store" /\ g.at = fetcher[f].at /\ g.body = feed
                                /\ g.left = {a \in Articles : feed[a] # 0}
                                /\ fetcher' = [fetcher EXCEPT ![f] = g]
    <2> DEFINE g == [fetcher[f] EXCEPT !.pc = "store", !.body = feed,
                                       !.left = {a \in Articles : feed[a] # 0}]
    <2>1. /\ g \in Fetch /\ g.pc = "store" /\ g.at = fetcher[f].at /\ g.body = feed
          /\ g.left = {a \in Articles : feed[a] # 0}
      BY FetcherFields DEF Typed, Fetch
    <2>2. fetcher' = [fetcher EXCEPT ![f] = g]
      BY <1>2 DEF Get
    <2> HIDE DEF g
    <2> QED
      BY <2>1, <2>2
  <1>3. ASSUME NEW a \in Articles, StoreItem(f, a)
        PROVE  \E g \in Fetch : /\ g.pc = "store" /\ g.at = fetcher[f].at
                                /\ g.body = fetcher[f].body /\ g.left = fetcher[f].left \ {a}
                                /\ fetcher' = [fetcher EXCEPT ![f] = g]
    <2> DEFINE g == [fetcher[f] EXCEPT !.left = fetcher[f].left \ {a}]
    <2>1. /\ g \in Fetch /\ g.pc = "store" /\ g.at = fetcher[f].at
          /\ g.body = fetcher[f].body /\ g.left = fetcher[f].left \ {a}
      BY <1>3, FetcherFields DEF Fetch, StoreItem
    <2>2. fetcher' = [fetcher EXCEPT ![f] = g]
      BY <1>3 DEF StoreItem
    <2> HIDE DEF g
    <2> QED
      BY <2>1, <2>2
  <1>4. GetFails(f) \/ FetchDone(f) \/ FetchKilled(f) =>
          fetcher' = [fetcher EXCEPT ![f] = IdleFetch]
    BY DEF GetFails, FetchDone, FetchKilled, FetchOver
  <1> QED
    BY <1>1, <1>2, <1>3, <1>4

\* What the actions of an extraction do to it.
LEMMA ExtractMoves ==
    ASSUME Typed, NEW e \in Extractors, NEW a \in Articles, Extract(e, a)
    PROVE  \E g \in Walk : /\ g.pc = "walk" /\ g.model = extractor[e].model
                           /\ g.list = extractor[e].list /\ g.left = extractor[e].left \ {a}
                           /\ g.taken = extractor[e].taken /\ g.cap = extractor[e].cap
                           /\ g.whole => extractor[e].whole
                           /\ extractor' = [extractor EXCEPT ![e] = g]
  <1> DEFINE g == [extractor[e] EXCEPT !.left = extractor[e].left \ {a}]
  <1>1. /\ g \in Walk /\ g.pc = "walk" /\ g.model = extractor[e].model
        /\ g.list = extractor[e].list /\ g.left = extractor[e].left \ {a}
        /\ g.taken = extractor[e].taken /\ g.cap = extractor[e].cap
        /\ g.whole => extractor[e].whole
    BY WalkFields DEF Walk, Extract
  <1>2. extractor' = [extractor EXCEPT ![e] = g]
    BY DEF Extract
  <1> HIDE DEF g
  <1> QED
    BY <1>1, <1>2

LEMMA FailMoves ==
    ASSUME Typed, NEW e \in Extractors, NEW a \in Articles, ExtractFails(e, a)
    PROVE  \E g \in Walk : /\ g.pc = "walk" /\ g.model = extractor[e].model
                           /\ g.list = extractor[e].list /\ g.left = extractor[e].left \ {a}
                           /\ g.taken = extractor[e].taken /\ g.cap = extractor[e].cap
                           /\ g.whole => FALSE
                           /\ extractor' = [extractor EXCEPT ![e] = g]
  <1> DEFINE g == [extractor[e] EXCEPT !.left = extractor[e].left \ {a}, !.whole = FALSE]
  <1>1. /\ g \in Walk /\ g.pc = "walk" /\ g.model = extractor[e].model
        /\ g.list = extractor[e].list /\ g.left = extractor[e].left \ {a}
        /\ g.taken = extractor[e].taken /\ g.cap = extractor[e].cap
        /\ g.whole => FALSE
    BY WalkFields DEF Walk, ExtractFails
  <1>2. extractor' = [extractor EXCEPT ![e] = g]
    BY DEF ExtractFails
  <1> HIDE DEF g
  <1> QED
    BY <1>1, <1>2

LEMMA EndMoves ==
    ASSUME Typed, NEW e \in Extractors, ExtractDone(e) \/ ExtractKilled(e)
    PROVE  extractor' = [extractor EXCEPT ![e] = IdleExtract]
  BY DEF ExtractDone, ExtractKilled

\* The beginning of an extraction, extractor by extractor.
LEMMA BeginMoves ==
    ASSUME Typed, NEW e \in Extractors, NEW x \in Models, ExtractBegin(e, x)
    PROVE  \E cap \in Caps : \E s \in Newest(cap) :
           /\ extractor' \in [Extractors -> Walk]
           /\ extractor'[e].pc = "walk" /\ extractor'[e].model = x /\ extractor'[e].cap = cap
           /\ extractor'[e].list = item /\ extractor'[e].taken = s /\ extractor'[e].left = s
           /\ extractor'[e].whole = ~Crossed(x)
           /\ \A d \in Extractors \ {e} :
                /\ extractor'[d].pc = extractor[d].pc /\ extractor'[d].model = extractor[d].model
                /\ extractor'[d].cap = extractor[d].cap /\ extractor'[d].taken = extractor[d].taken
                /\ extractor'[d].list = extractor[d].list /\ extractor'[d].left = extractor[d].left
                /\ extractor'[d].whole =
                     (extractor[d].whole /\ ~(extractor[d].pc # "idle" /\ extractor[d].model = x))
  <1> DEFINE new(cap, s) == [pc |-> "walk", model |-> x, cap |-> cap, list |-> item,
                             taken |-> s, left |-> s, whole |-> ~Crossed(x)]
             cut(d) == [extractor[d] EXCEPT !.whole = FALSE]
             after(cap, s) == [d \in Extractors |->
                                 IF d = e THEN new(cap, s)
                                 ELSE IF d \in Extracting /\ extractor[d].model = x THEN cut(d)
                                 ELSE extractor[d]]
  <1>0. PICK cap \in Caps : \E s \in Newest(cap) : extractor' = after(cap, s)
    BY DEF ExtractBegin
  <1>9. PICK s \in Newest(cap) : extractor' = after(cap, s)
    BY <1>0
  <1>8. s \subseteq Articles
    BY DEF Newest, Present
  <1>1. new(cap, s) \in Walk
    BY <1>8 DEF Typed, Walk
  <1>2. \A d \in Extractors :
          /\ cut(d) \in Walk /\ cut(d).pc = extractor[d].pc /\ cut(d).model = extractor[d].model
          /\ cut(d).cap = extractor[d].cap /\ cut(d).taken = extractor[d].taken
          /\ cut(d).list = extractor[d].list /\ cut(d).left = extractor[d].left
          /\ cut(d).whole = FALSE
    BY WalkFields DEF Walk
  <1>3. \A d \in Extractors :
          extractor'[d] = IF d = e THEN new(cap, s)
                          ELSE IF extractor[d].pc # "idle" /\ extractor[d].model = x THEN cut(d)
                          ELSE extractor[d]
    BY <1>9 DEF Extracting
  <1>4. extractor' \in [Extractors -> Walk]
    <2>1. \A d \in Extractors : extractor'[d] \in Walk
      <3> HIDE DEF new, cut
      <3> QED
        BY <1>1, <1>2, <1>3, WalkFields
    <2>2. DOMAIN extractor' = Extractors /\ extractor' = [d \in Extractors |-> extractor'[d]]
      BY <1>9
    <2> QED
      BY <2>1, <2>2
  <1>5. extractor'[e] = new(cap, s)
    BY <1>3
  <1>6. ASSUME NEW d \in Extractors \ {e}
        PROVE  /\ extractor'[d].pc = extractor[d].pc /\ extractor'[d].model = extractor[d].model
               /\ extractor'[d].cap = extractor[d].cap /\ extractor'[d].taken = extractor[d].taken
               /\ extractor'[d].list = extractor[d].list /\ extractor'[d].left = extractor[d].left
               /\ extractor'[d].whole =
                    (extractor[d].whole /\ ~(extractor[d].pc # "idle" /\ extractor[d].model = x))
    <2> HIDE DEF cut
    <2>1. CASE extractor[d].pc # "idle" /\ extractor[d].model = x
      BY <2>1, <1>2, <1>3
    <2>2. CASE ~(extractor[d].pc # "idle" /\ extractor[d].model = x)
      <3>1. extractor'[d] = extractor[d]
        BY <2>2, <1>3
      <3> QED
        BY <2>2, <3>1, WalkFields, Zenon
    <2> QED
      BY <2>1, <2>2
  <1> QED
    BY <1>4, <1>5, <1>6

\* An article that changes crosses every extraction under way, and leaves the rest of each
\* alone.
LEMMA StoreMoves ==
    ASSUME Typed, NEW f \in Fetchers, NEW a \in Articles, StoreItem(f, a)
    PROVE  /\ extractor' \in [Extractors -> Walk]
           /\ \A d \in Extractors :
                /\ extractor'[d].pc = extractor[d].pc /\ extractor'[d].model = extractor[d].model
                /\ extractor'[d].cap = extractor[d].cap /\ extractor'[d].taken = extractor[d].taken
                /\ extractor'[d].list = extractor[d].list /\ extractor'[d].left = extractor[d].left
                /\ extractor'[d].whole => extractor[d].whole
                /\ extractor'[d].whole /\ extractor[d].pc # "idle" =>
                     item' = item /\ stamp' = stamp /\ settled' = settled
  <1> DEFINE cut(d) == [extractor[d] EXCEPT !.whole = FALSE]
             after == [d \in Extractors |-> IF d \in Extracting THEN cut(d) ELSE extractor[d]]
  <1>1. CASE extractor' = extractor /\ item' = item /\ stamp' = stamp /\ settled' = settled
    BY <1>1, Zenon DEF Typed
  <1>2. CASE extractor' = after
    <2>1. \A d \in Extractors :
            /\ cut(d) \in Walk /\ cut(d).pc = extractor[d].pc /\ cut(d).model = extractor[d].model
            /\ cut(d).cap = extractor[d].cap /\ cut(d).taken = extractor[d].taken
            /\ cut(d).list = extractor[d].list /\ cut(d).left = extractor[d].left
            /\ cut(d).whole = FALSE
      BY WalkFields DEF Walk
    <2> HIDE DEF cut
    <2>2. \A d \in Extractors :
            extractor'[d] = IF extractor[d].pc # "idle" THEN cut(d) ELSE extractor[d]
      BY <1>2 DEF Extracting
    <2>3. DOMAIN extractor' = Extractors /\ extractor' = [d \in Extractors |-> extractor'[d]]
      BY <1>2
    <2>4. \A d \in Extractors : extractor'[d] \in Walk
      BY <2>1, <2>2, WalkFields
    <2>5. extractor' \in [Extractors -> Walk]
      BY <2>3, <2>4
    <2>6. ASSUME NEW d \in Extractors
          PROVE  /\ extractor'[d].pc = extractor[d].pc /\ extractor'[d].model = extractor[d].model
                 /\ extractor'[d].cap = extractor[d].cap /\ extractor'[d].taken = extractor[d].taken
                 /\ extractor'[d].list = extractor[d].list /\ extractor'[d].left = extractor[d].left
                 /\ extractor'[d].whole => extractor[d].whole
                 /\ extractor'[d].whole => extractor[d].pc = "idle"
      <3>1. CASE extractor[d].pc # "idle"
        BY <3>1, <2>1, <2>2
      <3>2. CASE extractor[d].pc = "idle"
        <4>1. extractor'[d] = extractor[d]
          BY <3>2, <2>2
        <4> QED
          BY <3>2, <4>1, Zenon
      <3> QED
        BY <3>1, <3>2
    <2> QED
      BY <2>5, <2>6
  <1>3. \/ extractor' = extractor /\ item' = item /\ stamp' = stamp /\ settled' = settled
        \/ extractor' = after
    BY DEF StoreItem
  <1> QED
    BY <1>1, <1>2, <1>3

LEMMA TypedInit == NewsInit => Typed
  <1> SUFFICES ASSUME NewsInit PROVE Typed
    OBVIOUS
  <1>1. [a \in Articles |-> 0] \in [Articles -> Versions]
    BY Zeroes
  <1>5. [x \in Models |-> 0] \in [Models -> Caps \cup {0}] /\ [a \in Articles |-> 0] \in [Articles -> Clock]
    BY Zeroes
  <1>2. [a \in Articles |-> [x \in Models |-> 0]] \in [Articles -> [Models -> Versions]]
    BY Zeroes
  <1>3. [at |-> NotYet, ok |-> FALSE] \in [at : Clock \cup {NotYet}, ok : BOOLEAN]
    OBVIOUS
  <1>4. fetcher \in [Fetchers -> Fetch] /\ extractor \in [Extractors -> Walk]
    BY IdleTypes DEF NewsInit
  <1> QED
    BY <1>1, <1>2, <1>3, <1>4, <1>5, Zeroes DEF NewsInit, Typed

LEMMA RowFields == Typed => fetched.at \in Clock \cup {NotYet} /\ fetched.ok \in BOOLEAN
  BY DEF Typed

LEMMA TimesAreNumbers ==
    ASSUME Typed
    PROVE  /\ clock \in Nat /\ success \in Int
           /\ fetched.at # NotYet => fetched.at \in Nat
           /\ \A f \in Fetchers : fetcher[f].at \in Nat
  <1>1. clock \in Clock /\ success \in Clock \cup {NotYet}
    BY DEF Typed
  <1>2. NotYet \in Int
    BY DEF NotYet
  <1>3. \A t : t \in Clock => t \in Nat /\ t \in Int
    BY Zeroes
  <1>4. clock \in Nat
    BY <1>1, <1>3
  <1>5. success \in Int
    BY <1>1, <1>2, <1>3
  <1>6. fetched.at # NotYet => fetched.at \in Nat
    BY <1>3, RowFields
  <1>7. \A f \in Fetchers : fetcher[f].at \in Nat
    BY <1>3, FetcherFields
  <1> QED
    BY <1>4, <1>5, <1>6, <1>7

LEMMA WindowsAreNumbers == MinInterval \in Nat /\ FreshWindow \in Nat
  BY NewsAssumption

LEMMA TypedStep == Typed /\ [NewsNext]_newsVars => Typed'
  <1> SUFFICES ASSUME Typed, [NewsNext]_newsVars PROVE Typed'
    OBVIOUS
  <1>1. ASSUME NEW f \in Fetchers, FetchBegin(f) PROVE Typed'
    <2>1. fetcher' \in [Fetchers -> Fetch]
      BY <1>1, FetchMoves, FetcherUpdate
    <2> QED
      BY <1>1, <2>1 DEF FetchBegin, Typed
  <1>2. ASSUME NEW f \in Fetchers, GetFails(f) \/ FetchDone(f) \/ FetchKilled(f) PROVE Typed'
    <2>1. fetcher' \in [Fetchers -> Fetch]
      BY <1>2, FetchMoves, FetcherUpdate, IdleTypes
    <2>2. /\ [at |-> fetcher[f].at, ok |-> FALSE] \in [at : Clock \cup {NotYet}, ok : BOOLEAN]
          /\ [at |-> fetcher[f].at, ok |-> TRUE] \in [at : Clock \cup {NotYet}, ok : BOOLEAN]
      BY FetcherFields
    <2> QED
      BY <1>2, <2>1, <2>2, FetcherFields DEF GetFails, FetchDone, FetchKilled, Mark, Typed
  <1>3. ASSUME NEW f \in Fetchers, Get(f) PROVE Typed'
    <2>1. fetcher' \in [Fetchers -> Fetch]
      BY <1>3, FetchMoves, FetcherUpdate
    <2> QED
      BY <1>3, <2>1 DEF Get, Typed
  <1>4. ASSUME NEW f \in Fetchers, NEW a \in Articles, StoreItem(f, a) PROVE Typed'
    <2>1. fetcher' \in [Fetchers -> Fetch]
      BY <1>4, FetchMoves, FetcherUpdate
    <2>2. fetcher[f].body[a] \in Versions /\ fetcher[f].at \in Clock
      BY FetcherFields
    <2>3. extractor' \in [Extractors -> Walk]
      BY <1>4, StoreMoves
    <2>4. settled' \in [Models -> Caps \cup {0}]
      BY <1>4 DEF StoreItem, Typed
    <2>5. item' \in [Articles -> Versions] /\ stamp' \in [Articles -> Clock]
      BY <1>4, <2>2 DEF StoreItem, Typed
    <2> QED
      BY <1>4, <2>1, <2>3, <2>4, <2>5 DEF StoreItem, Typed
  <1>5. ASSUME NEW e \in Extractors, NEW x \in Models, ExtractBegin(e, x) PROVE Typed'
    <2>1. extractor' \in [Extractors -> Walk]
      BY <1>5, BeginMoves
    <2>2. settled' \in [Models -> Caps \cup {0}]
      BY <1>5 DEF ExtractBegin, Typed
    <2> QED
      BY <1>5, <2>1, <2>2 DEF ExtractBegin, Typed
  <1>6. ASSUME NEW e \in Extractors, NEW a \in Articles, Extract(e, a) PROVE Typed'
    <2>1. extractor' \in [Extractors -> Walk]
      BY <1>6, ExtractMoves, WalkUpdate
    <2>2. extraction' \in [Articles -> [Models -> Versions]]
      <3>1. extractor[e].list[a] \in Versions /\ extractor[e].model \in Models
        BY WalkFields
      <3>2. [extraction[a] EXCEPT ![extractor[e].model] = extractor[e].list[a]] \in [Models -> Versions]
        BY <3>1 DEF Typed
      <3> QED
        BY <1>6, <3>2 DEF Extract, Typed
    <2> QED
      BY <1>6, <2>1, <2>2 DEF Extract, Typed
  <1>7. ASSUME NEW e \in Extractors, NEW a \in Articles, ExtractFails(e, a) PROVE Typed'
    <2>1. extractor' \in [Extractors -> Walk]
      BY <1>7, FailMoves, WalkUpdate
    <2> QED
      BY <1>7, <2>1 DEF ExtractFails, Typed
  <1>8. ASSUME NEW e \in Extractors, ExtractDone(e) \/ ExtractKilled(e) PROVE Typed'
    <2>1. extractor' \in [Extractors -> Walk]
      BY <1>8, EndMoves, WalkUpdate, IdleTypes
    <2>2. settled' \in [Models -> Caps \cup {0}]
      BY <1>8, WalkFields DEF ExtractDone, ExtractKilled, Typed
    <2> QED
      BY <1>8, <2>1, <2>2 DEF ExtractDone, ExtractKilled, Typed
  <1>9. ASSUME NEW a \in Articles, Edit(a) PROVE Typed'
    <2>1. edits + 1 \in Versions
      BY <1>9, NewsAssumption DEF Edit, Versions, Typed
    <2> QED
      BY <1>9, <2>1 DEF Edit, Typed
  <1>10. CASE NewsPass
    <2>1. clock + 1 \in Clock
      BY <1>10, NewsAssumption DEF NewsPass, Clock, Typed
    <2> QED
      BY <1>10, <2>1 DEF NewsPass, Typed
  <1>11. CASE NewsHorizon \/ UNCHANGED newsVars
    BY <1>11 DEF NewsHorizon, newsVars, Typed
  <1> QED
    BY <1>1, <1>2, <1>3, <1>4, <1>5, <1>6, <1>7, <1>8, <1>9, <1>10, <1>11 DEF NewsNext

-----------------------------------------------------------------------------
(* The source's row and the fetches.                                         *)

\* A row that says ok was written by a fetch that succeeded.
FreshInv == fetched.ok => fetched.at # NotYet /\ success >= fetched.at

\* When no fetch crossed another, the row or the one fetch running holds the last request.
PoliteInv ==
    ~sideBySide =>
        /\ Fetching = {} /\ lastGet # NotYet => fetched.at = lastGet
        /\ \A f \in Fetchers : fetcher[f].pc # "idle" =>
             /\ fetcher[f].at = lastGet
             /\ \A g \in Fetchers \ {f} : fetcher[g].pc = "idle"

FetchInv == FreshInv /\ PoliteInv

LEMMA FetchInvInit == NewsInit => FetchInv
  BY DEF NewsInit, FetchInv, FreshInv, PoliteInv, Fetching, IdleFetch, NotYet

LEMMA FetchInvStep == Typed /\ FetchInv /\ [NewsNext]_newsVars => FetchInv'
  <1> SUFFICES ASSUME Typed, FetchInv, [NewsNext]_newsVars PROVE FetchInv'
    OBVIOUS
  <1>1. ASSUME NEW f \in Fetchers, FetchBegin(f) PROVE FetchInv'
    <2>1. PICK g \in Fetch : /\ g.pc = "get" /\ g.at = clock
                             /\ fetcher' = [fetcher EXCEPT ![f] = g]
      BY <1>1, FetchMoves
    <2>2. fetcher'[f] = g /\ \A h \in Fetchers \ {f} : fetcher'[h] = fetcher[h]
      BY <2>1, FetcherUpdate
    <2>3. PoliteInv'
      <3>1. fetcher'[f].at = lastGet' /\ fetcher'[f].pc # "idle"
        BY <1>1, <2>1, <2>2 DEF FetchBegin
      <3>2. sideBySide' = (Fetching # {})
        BY <1>1 DEF FetchBegin
      <3>3. ~sideBySide' => \A h \in Fetchers \ {f} : fetcher'[h].pc = "idle"
        BY <2>2, <3>2 DEF Fetching
      <3> QED
        BY <3>1, <3>3 DEF PoliteInv, Fetching
    <2> QED
      BY <1>1, <2>3 DEF FetchInv, FreshInv, FetchBegin
  <1>2. ASSUME NEW f \in Fetchers, GetFails(f) \/ FetchDone(f) PROVE FetchInv'
    <2>0. fetcher' = [fetcher EXCEPT ![f] = IdleFetch] /\ IdleFetch.pc = "idle"
      BY <1>2, FetchMoves DEF IdleFetch
    <2>1. fetcher'[f].pc = "idle" /\ \A h \in Fetchers \ {f} : fetcher'[h] = fetcher[h]
      BY <2>0, FetcherUpdate, IdleTypes
    <2>2. fetched'.at = fetcher[f].at
      BY <1>2 DEF GetFails, FetchDone, Mark
    <2>3. PoliteInv'
      BY <1>2, <2>1, <2>2 DEF GetFails, FetchDone, PoliteInv, Fetching, FetchInv
    <2>4. FreshInv'
      <3>1. CASE GetFails(f)
        BY <3>1 DEF GetFails, Mark, FreshInv
      <3>2. CASE FetchDone(f)
        <4>1. fetched' = [at |-> fetcher[f].at, ok |-> TRUE]
          BY <3>2 DEF FetchDone, Mark
        <4>2. fetcher[f].at \in Nat /\ success \in Int
          BY TimesAreNumbers
        <4>3. success' >= fetcher[f].at
          BY <3>2, <4>2 DEF FetchDone
        <4> QED
          BY <4>1, <4>2, <4>3 DEF FreshInv, NotYet
      <3> QED
        BY <1>2, <3>1, <3>2
    <2> QED
      BY <2>3, <2>4 DEF FetchInv
  <1>3. ASSUME NEW f \in Fetchers, FetchKilled(f) PROVE FetchInv'
    BY <1>3 DEF FetchKilled, FetchInv, FreshInv, PoliteInv
  <1>4. ASSUME NEW f \in Fetchers, Get(f) \/ \E a \in Articles : StoreItem(f, a) PROVE FetchInv'
    <2>1. /\ fetcher'[f].pc = "store" /\ fetcher'[f].at = fetcher[f].at
          /\ \A h \in Fetchers \ {f} : fetcher'[h] = fetcher[h]
      BY <1>4, FetchMoves, FetcherUpdate
    <2>2. fetcher[f].pc # "idle"
      BY <1>4 DEF Get, StoreItem
    <2> QED
      BY <1>4, <2>1, <2>2 DEF Get, StoreItem, FetchInv, FreshInv, PoliteInv, Fetching
  <1>5. ASSUME UNCHANGED <<fetcher, fetched, lastGet, sideBySide, success>> PROVE FetchInv'
    BY <1>5 DEF FetchInv, FreshInv, PoliteInv, Fetching
  <1> QED
    BY <1>1, <1>2, <1>3, <1>4, <1>5
       DEF NewsNext, ExtractBegin, Extract, ExtractFails, ExtractDone, ExtractKilled, Edit, NewsPass,
           NewsHorizon, newsVars

-----------------------------------------------------------------------------
\* Every variable keeps to its type.
THEOREM TypeCorrect == NewsSpec => []NewsTypeOK
  <1>1. NewsSpec => []Typed
    BY TypedInit, TypedStep, PTL DEF NewsSpec
  <1> QED
    BY <1>1, TypedIsTypeOK, PTL

LEMMA FetchInvHolds == NewsSpec => [](Typed /\ FetchInv)
  BY TypedInit, TypedStep, FetchInvInit, FetchInvStep, PTL DEF NewsSpec

\* "last successful fetch keeps it fresh": a source shown fresh was fetched within the
\* window, whatever failed, crossed or was killed since.
THEOREM FreshSourcesWereFetched == NewsSpec => []FreshIsFetched
  <1>1. Typed /\ FetchInv => FreshIsFetched
    <2> SUFFICES ASSUME Typed, FetchInv, Pill = "fresh"
                 PROVE  success # NotYet /\ clock - success <= FreshWindow
      BY DEF FreshIsFetched
    <2>1. fetched.at # NotYet /\ clock - fetched.at <= FreshWindow /\ fetched.ok
      BY DEF Pill
    <2>2. success >= fetched.at
      BY <2>1 DEF FetchInv, FreshInv
    <2>3. clock \in Nat /\ fetched.at \in Nat /\ success \in Int /\ FreshWindow \in Nat
      BY <2>1, TimesAreNumbers, WindowsAreNumbers
    <2> QED
      BY <2>1, <2>2, <2>3 DEF NotYet
  <1> QED
    BY <1>1, FetchInvHolds, PTL

\* "we stay polite": a fetch that neither crossed another nor followed one that was killed
\* asks the outlet no sooner than MinInterval after the one before.
THEOREM OutletIsSpared == NewsSpec => Polite
  <1>1. Typed /\ FetchInv /\ [NewsNext]_newsVars =>
          [\A f \in Fetchers :
             FetchBegin(f) /\ ~sideBySide /\ Fetching = {} /\ lastGet # NotYet =>
               clock - lastGet >= MinInterval]_newsVars
    <2> SUFFICES ASSUME Typed, FetchInv, NEW f \in Fetchers,
                        FetchBegin(f), ~sideBySide, Fetching = {}, lastGet # NotYet
                 PROVE  clock - lastGet >= MinInterval
      OBVIOUS
    <2>1. fetched.at = lastGet
      BY DEF FetchInv, PoliteInv
    <2>2. ~(clock - fetched.at < MinInterval)
      BY <2>1 DEF FetchBegin, TooSoon
    <2> QED
      BY <2>1, <2>2, TimesAreNumbers, WindowsAreNumbers
  <1> QED
    BY <1>1, FetchInvHolds, PTL DEF NewsSpec, Polite

-----------------------------------------------------------------------------
(* The articles and the extractions.                                         *)

\* The articles at least as new as one whose signals the model has as they are cached.
Served(x, a) == {b \in Present : stamp[b] >= stamp[a] /\ extraction[b][x] = item[b]}

\* What is cached or extracted once has appeared: a fetch stores only what it found, a run
\* lists only what is cached.
Appeared ==
    /\ \A f \in Fetchers : fetcher[f].pc = "store" =>
         \A a \in fetcher[f].left : fetcher[f].body[a] # 0
    /\ \A e \in Extractors : extractor[e].pc = "walk" =>
         \A a \in Articles : item[a] = 0 => extractor[e].list[a] = 0
    /\ \A a \in Articles, x \in Models : item[a] = 0 => extraction[a][x] = 0

\* A run that nothing crossed walks the newest articles as they are cached, and has the
\* signals of those behind it.
Walked ==
    \A e \in Extractors : extractor[e].pc = "walk" /\ extractor[e].whole =>
        /\ \A d \in Extractors \ {e} :
             extractor[d].pc = "idle" \/ extractor[d].model # extractor[e].model
        /\ extractor[e].list = item
        /\ extractor[e].cap \in Caps /\ extractor[e].taken \in Newest(extractor[e].cap)
        /\ \A a \in extractor[e].taken \ extractor[e].left :
             extraction[a][extractor[e].model] = item[a]

\* A model has settled only when no run of it goes on.
Quiet ==
    \A x \in Models : settled[x] # 0 =>
        \A e \in Extractors : extractor[e].pc = "walk" => extractor[e].model # x

SignalInv == Appeared /\ Walked /\ Quiet /\ SignalsAreCurrent

\* Where the newest articles have signals, an article without has a limit's worth of
\* articles before it.
LEMMA NewestSuffice ==
    ASSUME Typed, Appeared, NEW x \in Models, NEW cap \in Caps, NEW s \in Newest(cap),
           \A a \in s : extraction[a][x] = item[a]
    PROVE  \A a \in Articles :
             extraction[a][x] = item[a] \/ Cardinality(Served(x, a)) >= cap
  <1> SUFFICES ASSUME NEW a \in Articles, extraction[a][x] # item[a]
               PROVE  Cardinality(Served(x, a)) >= cap
    OBVIOUS
  <1>1. a \in Present \ s
    BY DEF Appeared, Present
  <1>2. s \subseteq Served(x, a)
    BY <1>1 DEF Newest, Served
  <1>3. IsFiniteSet(Served(x, a))
    <2>1. Served(x, a) \subseteq Articles
      BY DEF Served, Present
    <2> QED
      BY <2>1, NewsAssumption, FS_Subset
  <1>4. Cardinality(s) \in Nat /\ Cardinality(Served(x, a)) \in Nat
        /\ Cardinality(s) <= Cardinality(Served(x, a))
    BY <1>2, <1>3, FS_Subset, FS_CardinalityType
  <1>5. ~(Cardinality(s) < cap)
    BY <1>1 DEF Newest
  <1>6. cap \in Nat
    BY NewsAssumption
  <1> QED
    BY <1>4, <1>5, <1>6

LEMMA SignalInvInit == NewsInit => SignalInv
  <1> SUFFICES ASSUME NewsInit PROVE SignalInv
    OBVIOUS
  <1>1. \A f \in Fetchers : fetcher[f].pc = "idle"
    BY DEF NewsInit, IdleFetch
  <1>2. \A e \in Extractors : extractor[e].pc = "idle"
    BY DEF NewsInit, IdleExtract
  <1>3. \A a \in Articles, x \in Models : extraction[a][x] = 0
    BY DEF NewsInit
  <1>4. \A x \in Models : settled[x] = 0
    BY DEF NewsInit
  <1> QED
    BY <1>1, <1>2, <1>3, <1>4 DEF SignalInv, Appeared, Walked, Quiet, SignalsAreCurrent

\* What the invariant says of articles, runs and signals stays while these do.
LEMMA SignalsUntouched ==
    ASSUME SignalInv, UNCHANGED <<item, stamp, extractor, extraction, settled>>
    PROVE  Walked' /\ Quiet' /\ SignalsAreCurrent'
  BY DEF SignalInv, Walked, Quiet, SignalsAreCurrent, Newest, Present

\* The steps of the fetches leave the extractions alone, but for an article rewritten.
LEMMA SignalInvFetch ==
    ASSUME Typed, SignalInv, NEW f \in Fetchers,
           FetchBegin(f) \/ GetFails(f) \/ FetchDone(f) \/ FetchKilled(f) \/ Get(f)
    PROVE  SignalInv'
  <1>1. UNCHANGED <<item, stamp, extractor, extraction, settled>>
    BY DEF FetchBegin, GetFails, FetchDone, FetchKilled, Get
  <1>2. /\ \A h \in Fetchers \ {f} : fetcher'[h] = fetcher[h]
        /\ fetcher'[f].pc = "store" =>
             \A a \in fetcher'[f].left : fetcher'[f].body[a] # 0
    <2>1. CASE FetchBegin(f)
      BY <2>1, FetchMoves, FetcherUpdate
    <2>2. CASE GetFails(f) \/ FetchDone(f) \/ FetchKilled(f)
      <3>1. fetcher' = [fetcher EXCEPT ![f] = IdleFetch] /\ IdleFetch.pc = "idle"
        BY <2>2, FetchMoves DEF IdleFetch
      <3> QED
        BY <3>1, FetcherUpdate, IdleTypes
    <2>3. CASE Get(f)
      <3>1. PICK g \in Fetch : /\ g.body = feed /\ g.left = {a \in Articles : feed[a] # 0}
                               /\ fetcher' = [fetcher EXCEPT ![f] = g]
        BY <2>3, FetchMoves
      <3> QED
        BY <3>1, FetcherUpdate
    <2> QED
      BY <2>1, <2>2, <2>3
  <1>3. Appeared'
    BY <1>1, <1>2 DEF SignalInv, Appeared
  <1> QED
    BY <1>1, <1>3, SignalsUntouched DEF SignalInv

LEMMA SignalInvStore ==
    ASSUME Typed, SignalInv, NEW f \in Fetchers, NEW a \in Articles, StoreItem(f, a)
    PROVE  SignalInv'
  <1>1. extraction' = extraction
    BY DEF StoreItem
  <1>2. PICK g \in Fetch : /\ g.body = fetcher[f].body /\ g.left = fetcher[f].left \ {a}
                           /\ fetcher' = [fetcher EXCEPT ![f] = g]
    BY FetchMoves
  <1>3. fetcher'[f] = g /\ \A h \in Fetchers \ {f} : fetcher'[h] = fetcher[h]
    BY <1>2, FetcherUpdate
  <1>4. \A b \in Articles : item'[b] = 0 => item[b] = 0
    <2>1. fetcher[f].body[a] # 0
      BY DEF StoreItem, SignalInv, Appeared
    <2> QED
      BY <2>1 DEF StoreItem, Typed
  <1>5. Appeared'
    <2>1. \A h \in Fetchers : fetcher'[h].pc = "store" =>
            \A b \in fetcher'[h].left : fetcher'[h].body[b] # 0
      <3>1. fetcher[f].pc = "store"
        BY DEF StoreItem
      <3> QED
        BY <1>2, <1>3, <3>1 DEF SignalInv, Appeared
    <2>2. \A e \in Extractors : /\ extractor'[e].pc = extractor[e].pc
                                /\ extractor'[e].list = extractor[e].list
      BY StoreMoves
    <2> QED
      BY <1>1, <1>4, <2>1, <2>2 DEF SignalInv, Appeared
  <1>6. CASE UNCHANGED <<item, stamp, extractor, settled>>
    BY <1>1, <1>5, <1>6, SignalsUntouched DEF SignalInv
  <1>7. CASE ~UNCHANGED <<item, stamp, extractor, settled>>
    <2>1. fetcher[f].body[a] # item[a] /\ item' # item /\ settled' = [x \in Models |-> 0]
      <3>1. fetcher[f].body[a] # item[a]
        BY <1>7 DEF StoreItem
      <3>2. item' = [item EXCEPT ![a] = fetcher[f].body[a]] /\ settled' = [x \in Models |-> 0]
        BY <3>1 DEF StoreItem
      <3> QED
        BY <3>1, <3>2 DEF Typed
    <2>2. Walked'
      <3>1. \A e \in Extractors : extractor'[e].pc = extractor[e].pc
                                  /\ (extractor'[e].whole => extractor[e].pc = "idle")
        BY <2>1, StoreMoves
      <3> QED
        BY <3>1 DEF Walked
    <2>3. Quiet' /\ SignalsAreCurrent'
      BY <2>1 DEF Quiet, SignalsAreCurrent
    <2> QED
      BY <1>5, <2>2, <2>3 DEF SignalInv
  <1> QED
    BY <1>6, <1>7

LEMMA SignalInvBegin ==
    ASSUME Typed, SignalInv, NEW e \in Extractors, NEW x \in Models, ExtractBegin(e, x)
    PROVE  SignalInv'
  <1>1. UNCHANGED <<item, stamp, fetcher, extraction>> /\ settled' = [settled EXCEPT ![x] = 0]
    BY DEF ExtractBegin
  <1>0. PICK cap \in Caps : \E s \in Newest(cap) :
        /\ extractor'[e].pc = "walk" /\ extractor'[e].model = x /\ extractor'[e].cap = cap
        /\ extractor'[e].list = item /\ extractor'[e].taken = s /\ extractor'[e].left = s
        /\ extractor'[e].whole = ~Crossed(x)
        /\ \A d \in Extractors \ {e} :
             /\ extractor'[d].pc = extractor[d].pc /\ extractor'[d].model = extractor[d].model
             /\ extractor'[d].cap = extractor[d].cap /\ extractor'[d].taken = extractor[d].taken
             /\ extractor'[d].list = extractor[d].list /\ extractor'[d].left = extractor[d].left
             /\ extractor'[d].whole =
                  (extractor[d].whole /\ ~(extractor[d].pc # "idle" /\ extractor[d].model = x))
    BY BeginMoves
  <1>2. PICK s \in Newest(cap) :
        /\ extractor'[e].pc = "walk" /\ extractor'[e].model = x /\ extractor'[e].cap = cap
        /\ extractor'[e].list = item /\ extractor'[e].taken = s /\ extractor'[e].left = s
        /\ extractor'[e].whole = ~Crossed(x)
        /\ \A d \in Extractors \ {e} :
             /\ extractor'[d].pc = extractor[d].pc /\ extractor'[d].model = extractor[d].model
             /\ extractor'[d].cap = extractor[d].cap /\ extractor'[d].taken = extractor[d].taken
             /\ extractor'[d].list = extractor[d].list /\ extractor'[d].left = extractor[d].left
             /\ extractor'[d].whole =
                  (extractor[d].whole /\ ~(extractor[d].pc # "idle" /\ extractor[d].model = x))
    BY <1>0
  <1>3. \A n : Newest(n)' = Newest(n)
    BY <1>1 DEF Newest, Present
  <1>4. Appeared'
    <2>1. \A d \in Extractors : extractor'[d].pc = "walk" =>
            \A a \in Articles : item'[a] = 0 => extractor'[d].list[a] = 0
      BY <1>1, <1>2 DEF SignalInv, Appeared
    <2> QED
      BY <1>1, <2>1 DEF SignalInv, Appeared
  <1>5. Walked'
    <2> SUFFICES ASSUME NEW d \in Extractors, extractor'[d].pc = "walk", extractor'[d].whole
                 PROVE  /\ \A c \in Extractors \ {d} :
                             extractor'[c].pc = "idle" \/ extractor'[c].model # extractor'[d].model
                        /\ extractor'[d].list = item
                        /\ extractor'[d].cap \in Caps
                        /\ extractor'[d].taken \in Newest(extractor'[d].cap)
                        /\ \A a \in extractor'[d].taken \ extractor'[d].left :
                             extraction[a][extractor'[d].model] = item[a]
      BY <1>1, <1>3 DEF Walked
    <2>1. CASE d = e
      <3>1. \A c \in Extractors : extractor[c].pc = "idle" \/ extractor[c].model # x
        BY <2>1, <1>2 DEF Crossed, Extracting
      <3> QED
        BY <2>1, <3>1, <1>2
    <2>2. CASE d # e
      <3>1. extractor[d].pc = "walk" /\ extractor[d].whole /\ extractor[d].model # x
        BY <2>2, <1>2
      <3>2. \A c \in Extractors \ {d} :
              extractor'[c].pc = "idle" \/ extractor'[c].model # extractor'[d].model
        BY <2>2, <3>1, <1>2 DEF SignalInv, Walked
      <3>3. /\ extractor[d].list = item /\ extractor[d].cap \in Caps
            /\ extractor[d].taken \in Newest(extractor[d].cap)
            /\ \A a \in extractor[d].taken \ extractor[d].left :
                 extraction[a][extractor[d].model] = item[a]
        BY <3>1 DEF SignalInv, Walked
      <3> QED
        BY <2>2, <3>2, <3>3, <1>2
    <2> QED
      BY <2>1, <2>2
  <1>6. \A y \in Models : settled'[y] # 0 => settled[y] # 0 /\ settled'[y] = settled[y] /\ y # x
    BY <1>1 DEF Typed
  <1>7. Quiet'
    BY <1>2, <1>6 DEF SignalInv, Quiet
  <1>8. SignalsAreCurrent'
    BY <1>1, <1>6 DEF SignalInv, SignalsAreCurrent, Present
  <1> QED
    BY <1>4, <1>5, <1>7, <1>8 DEF SignalInv

\* One article of a run: written down, cached already, or failed.
LEMMA SignalInvExtract ==
    ASSUME Typed, SignalInv, NEW e \in Extractors, NEW a \in Articles,
           Extract(e, a) \/ ExtractFails(e, a)
    PROVE  SignalInv'
  <1> DEFINE x == extractor[e].model
  <1>1. UNCHANGED <<item, stamp, fetcher, settled>> /\ extractor[e].pc = "walk"
    BY DEF Extract, ExtractFails
  <1>2. PICK g \in Walk : /\ g.pc = "walk" /\ g.model = x /\ g.list = extractor[e].list
                          /\ g.whole => Extract(e, a) /\ extractor[e].whole
                          /\ g.left = extractor[e].left \ {a}
                          /\ g.taken = extractor[e].taken /\ g.cap = extractor[e].cap
                          /\ extractor' = [extractor EXCEPT ![e] = g]
    <2>1. CASE Extract(e, a)
      BY <2>1, ExtractMoves DEF x
    <2>2. CASE ExtractFails(e, a)
      BY <2>2, FailMoves DEF x
    <2> QED
      BY <2>1, <2>2
  <1>3. extractor'[e] = g /\ \A d \in Extractors \ {e} : extractor'[d] = extractor[d]
    BY <1>2, WalkUpdate
  <1>4. x \in Models /\ settled[x] = 0
    BY <1>1, WalkFields DEF SignalInv, Quiet
  <1>5. /\ \A b \in Articles, y \in Models :
             b # a \/ y # x => extraction'[b][y] = extraction[b][y]
        /\ extraction'[a][x] \in {extraction[a][x], extractor[e].list[a]}
        /\ Extract(e, a) => extraction'[a][x] = extractor[e].list[a]
    <2>1. CASE Extract(e, a) /\ ~Cached(e, a)
      <3>1. extraction' = [extraction EXCEPT ![a][x] = extractor[e].list[a]]
        BY <2>1 DEF Extract
      <3> QED
        BY <3>1, <1>4 DEF Typed
    <2>2. CASE ~(Extract(e, a) /\ ~Cached(e, a))
      BY <2>2 DEF Extract, ExtractFails, Cached
    <2> QED
      BY <2>1, <2>2
  <1> HIDE DEF x
  <1>0. \A n : Newest(n)' = Newest(n) /\ Newest(n) \subseteq SUBSET Articles
    BY <1>1 DEF Newest, Present
  <1>6. Appeared'
    <2>1. \A d \in Extractors : extractor'[d].pc = "walk" =>
            \A b \in Articles : item'[b] = 0 => extractor'[d].list[b] = 0
      BY <1>1, <1>2, <1>3 DEF SignalInv, Appeared
    <2>2. \A b \in Articles, y \in Models : item'[b] = 0 => extraction'[b][y] = 0
      BY <1>1, <1>5 DEF SignalInv, Appeared
    <2> QED
      BY <1>1, <2>1, <2>2 DEF SignalInv, Appeared
  <1>7. Walked'
    <2> SUFFICES ASSUME NEW d \in Extractors, extractor'[d].pc = "walk", extractor'[d].whole
                 PROVE  /\ \A c \in Extractors \ {d} :
                             extractor'[c].pc = "idle" \/ extractor'[c].model # extractor'[d].model
                        /\ extractor'[d].list = item
                        /\ extractor'[d].cap \in Caps
                        /\ extractor'[d].taken \in Newest(extractor'[d].cap)
                        /\ \A b \in extractor'[d].taken \ extractor'[d].left :
                             extraction'[b][extractor'[d].model] = item[b]
      BY <1>0, <1>1 DEF Walked
    <2>1. /\ extractor[d].pc = "walk" /\ extractor[d].whole
          /\ extractor'[d].model = extractor[d].model /\ extractor'[d].list = extractor[d].list
          /\ extractor'[d].cap = extractor[d].cap /\ extractor'[d].taken = extractor[d].taken
      BY <1>1, <1>2, <1>3 DEF x
    <2>2. \A c \in Extractors : /\ extractor'[c].model = extractor[c].model
                                /\ extractor'[c].pc = extractor[c].pc
      BY <1>1, <1>2, <1>3 DEF x
    <2>3. /\ \A c \in Extractors \ {d} :
               extractor[c].pc = "idle" \/ extractor[c].model # extractor[d].model
          /\ extractor[d].list = item /\ extractor[d].cap \in Caps
          /\ extractor[d].taken \in Newest(extractor[d].cap)
          /\ \A b \in extractor[d].taken \ extractor[d].left :
               extraction[b][extractor[d].model] = item[b]
      BY <2>1 DEF SignalInv, Walked
    <2>4. extractor[d].model \in Models /\ extractor[d].taken \subseteq Articles
      BY WalkFields
    <2>5. \A b \in extractor'[d].taken \ extractor'[d].left :
            extraction'[b][extractor[d].model] = item[b]
      <3>1. CASE d = e
        <4>1. \A b \in extractor'[d].taken \ extractor'[d].left :
                b = a \/ b \in extractor[d].taken \ extractor[d].left
          BY <3>1, <1>2, <1>3, <2>1
        <4>2. extraction'[a][x] = item[a]
          BY <3>1, <1>2, <1>3, <1>5, <2>3
        <4>3. x = extractor[d].model
          BY <3>1 DEF x
        <4> QED
          BY <2>3, <2>4, <4>1, <4>2, <4>3, <1>4, <1>5
      <3>2. CASE d # e
        <4>1. extractor[d].model # x
          BY <2>3, <3>2, <1>1 DEF x
        <4>2. extractor'[d].left = extractor[d].left
          BY <3>2, <1>3
        <4> QED
          BY <2>1, <2>3, <2>4, <4>1, <4>2, <1>5
      <3> QED
        BY <3>1, <3>2
    <2> QED
      BY <2>1, <2>2, <2>3, <2>5
  <1>8. Quiet'
    BY <1>1, <1>2, <1>3 DEF SignalInv, Quiet, x
  <1>9. SignalsAreCurrent'
    <2> SUFFICES ASSUME NEW y \in Models, NEW b \in Articles, settled[y] # 0
                 PROVE  \/ extraction'[b][y] = item[b]
                        \/ Cardinality({c \in Present : stamp[c] >= stamp[b] /\ extraction'[c][y] = item[c]})
                             >= settled[y]
      BY <1>1 DEF SignalsAreCurrent, Present
    <2>1. y # x /\ \A c \in Articles : extraction'[c][y] = extraction[c][y]
      BY <1>4, <1>5
    <2>2. {c \in Present : stamp[c] >= stamp[b] /\ extraction'[c][y] = item[c]}
            = {c \in Present : stamp[c] >= stamp[b] /\ extraction[c][y] = item[c]}
      BY <2>1 DEF Present
    <2> QED
      BY <2>1, <2>2 DEF SignalInv, SignalsAreCurrent
  <1> QED
    BY <1>6, <1>7, <1>8, <1>9 DEF SignalInv

LEMMA SignalInvEnd ==
    ASSUME Typed, SignalInv, NEW e \in Extractors, ExtractDone(e) \/ ExtractKilled(e)
    PROVE  SignalInv'
  <1>1. UNCHANGED <<item, stamp, fetcher, extraction>> /\ extractor[e].pc = "walk"
    BY WalkFields DEF ExtractDone, ExtractKilled
  <1>2. extractor'[e].pc = "idle" /\ \A d \in Extractors \ {e} : extractor'[d] = extractor[d]
    <2>1. extractor' = [extractor EXCEPT ![e] = IdleExtract] /\ IdleExtract.pc = "idle"
      BY EndMoves DEF IdleExtract
    <2> QED
      BY <2>1, WalkUpdate, IdleTypes
  <1>3. \A x \in Models :
          \/ settled'[x] = settled[x]
          \/ /\ x = extractor[e].model /\ extractor[e].whole /\ extractor[e].left = {}
             /\ settled'[x] = extractor[e].cap
    BY DEF ExtractDone, ExtractKilled, Typed
  <1>4. Appeared'
    BY <1>1, <1>2 DEF SignalInv, Appeared
  <1>5. Walked'
    BY <1>1, <1>2 DEF SignalInv, Walked, Newest, Present
  <1>6. Quiet'
    <2> SUFFICES ASSUME NEW x \in Models, settled'[x] # 0, NEW d \in Extractors,
                        extractor'[d].pc = "walk"
                 PROVE  extractor'[d].model # x
      BY DEF Quiet
    <2>1. d # e /\ extractor'[d] = extractor[d] /\ extractor[d].pc = "walk"
      BY <1>2
    <2>2. CASE settled'[x] = settled[x]
      BY <2>1, <2>2 DEF SignalInv, Quiet
    <2>3. CASE x = extractor[e].model /\ extractor[e].whole
      BY <2>1, <2>3, <1>1 DEF SignalInv, Walked
    <2> QED
      BY <2>2, <2>3, <1>3
  <1>7. SignalsAreCurrent'
    <2> SUFFICES ASSUME NEW x \in Models, NEW a \in Articles, settled'[x] # 0
                 PROVE  extraction[a][x] = item[a] \/ Cardinality(Served(x, a)) >= settled'[x]
      BY <1>1 DEF SignalsAreCurrent, Served, Present
    <2>1. CASE settled'[x] = settled[x]
      BY <2>1 DEF SignalInv, SignalsAreCurrent, Served
    <2>2. CASE x = extractor[e].model /\ extractor[e].whole /\ extractor[e].left = {}
               /\ settled'[x] = extractor[e].cap
      <3>1. /\ extractor[e].cap \in Caps /\ extractor[e].taken \in Newest(extractor[e].cap)
            /\ \A b \in extractor[e].taken : extraction[b][x] = item[b]
        BY <2>2, <1>1 DEF SignalInv, Walked
      <3> QED
        BY <2>2, <3>1, NewestSuffice DEF SignalInv
    <2> QED
      BY <2>1, <2>2, <1>3
  <1> QED
    BY <1>4, <1>5, <1>6, <1>7 DEF SignalInv

LEMMA SignalInvStep == Typed /\ SignalInv /\ [NewsNext]_newsVars => SignalInv'
  <1> SUFFICES ASSUME Typed, SignalInv, [NewsNext]_newsVars PROVE SignalInv'
    OBVIOUS
  <1>1. ASSUME UNCHANGED <<item, stamp, fetcher, extractor, extraction, settled>> PROVE SignalInv'
    BY <1>1, SignalsUntouched DEF SignalInv, Appeared
  <1>2. CASE NewsPass \/ NewsHorizon \/ UNCHANGED newsVars \/ \E a \in Articles : Edit(a)
    BY <1>1, <1>2 DEF NewsPass, NewsHorizon, newsVars, Edit
  <1> QED
    BY <1>2, SignalInvFetch, SignalInvStore, SignalInvBegin, SignalInvExtract, SignalInvEnd
       DEF NewsNext

\* "if the item gets re-fetched and edited, the hash changes and we re-extract": once a
\* run of extract-signals that nothing crossed has gone through, the model's signals are
\* those of the articles as cached, until an article changes; but for articles as many as
\* its limit kept from it, none of them older.
THEOREM SignalsStayCurrent == NewsSpec => []SignalsAreCurrent
  <1>1. NewsSpec => [](Typed /\ SignalInv)
    BY TypedInit, TypedStep, SignalInvInit, SignalInvStep, PTL DEF NewsSpec
  <1>2. SignalInv => SignalsAreCurrent
    BY DEF SignalInv
  <1> QED
    BY <1>1, <1>2, PTL
=============================================================================
