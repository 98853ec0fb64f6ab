-------------------------- MODULE PaginationProofs --------------------------
(***************************************************************************)
(* Proofs about module Pagination, for collections, pages and limits of    *)
(* any size, any sort and any token a client makes up: a scan misses       *)
(* nothing and repeats nothing, tokens are usable and lead forward.        *)
(*                                                                         *)
(* The argument: the token of a request splits the keys into those that    *)
(* the scan has passed and those it has not.  A project that was there all *)
(* the time was returned exactly if its key was passed; and a page takes   *)
(* all that lies between the token of its request and its own.             *)
(***************************************************************************)
EXTENDS Pagination, FiniteSetTheorems, TLAPS

\* What the token of the request says, if there is one and it can be read.
Selector == deserialize_page_token(request.page_token[1])[1]

\* Has the scan passed this key, by the token of its request?
Passed(k) == request.page_token # <<>> /\ ~Before(ScanSort, Selector.key, k)

\* The names of the projects of a page.
Returned == {p.name : p \in response.items}

\* What a page's token says.
NextSelector == deserialize_page_token(response.next_page[1])[1]

\* A request carries no token, one that a client made up, or a usable one.
QueryOK(query) ==
  /\ query.sort = <<>> \/ query.sort[1] \in Sorts
  /\ query.limit = <<>> \/ query.limit[1] \in Nat
  /\ query.page_token # <<>> =>
       LET read == deserialize_page_token(query.page_token[1])
       IN  /\ read = <<>> => query.page_token[1] \in StrayTokens
           /\ read # <<>> => read[1] \in Selectors

RequestOK == QueryOK(request)

\* Before the scan there is nothing.
IdleOK ==
  pc = "idle" => /\ stable = {} /\ \A n \in Names : seen[n] = 0
                 /\ request.page_token = <<>>

\* What was returned so far is what was passed: for the names of a sort whose
\* keys never change, and for the projects that are still where they were.
ScanOK ==
  pc \in {"sent", "received"} =>
    /\ ScanSort.by # "MtimeName" =>
         \A n \in Names : seen[n] = 1 => Passed(NameKey(ScanSort, n))
    /\ \A p \in projects : p.name \in stable =>
         seen[p.name] = IF Passed(Key(ScanSort, p)) THEN 1 ELSE 0

\* A page holds nothing that was passed before; it reaches up to its token,
\* and without a token there was nothing left.
PageOK ==
  pc = "received" /\ response.status = 200 =>
    /\ request.page_token # <<>> => deserialize_page_token(request.page_token[1]) # <<>>
    /\ \A p \in response.items : ~Passed(Key(ScanSort, p))
    /\ response.next_page # <<>> =>
         /\ deserialize_page_token(response.next_page[1]) # <<>>
         /\ NextSelector \in Selectors /\ scan_params(NextSelector) = ScanSort
         /\ request.page_token # <<>> => Before(ScanSort, Selector.key, NextSelector.key)
         /\ \A p \in response.items :
              ~Before(ScanSort, NextSelector.key, Key(ScanSort, p))
         /\ \A p \in projects : p.name \in stable =>
              (p.name \in Returned <=> /\ ~Passed(Key(ScanSort, p))
                                       /\ ~Before(ScanSort, NextSelector.key, Key(ScanSort, p)))
    /\ response.next_page = <<>> =>
         /\ response.items = {}
         /\ \A p \in projects : p.name \in stable => Passed(Key(ScanSort, p))

\* The inductive invariant.
PagingInv ==
  /\ TypeOK
  /\ RequestOK
  /\ IdleOK
  /\ ScanOK
  /\ PageOK
  /\ StableSeenOnce
  /\ NoRepeats
  /\ TokensUsable
  /\ PageBounded

-----------------------------------------------------------------------------
(* Keys and their order.                                                   *)

LEMMA KeyFacts ==
  ASSUME NEW sort \in Sorts, NEW p \in Project
  PROVE  /\ Key(sort, p) \in Nat \X Nat
         /\ sort.by # "MtimeName" => Key(sort, p) = NameKey(sort, p.name)
<1>1. sort.by \in {"Name", "MtimeName", "Id"} /\ p.name \in Nat /\ p.mtime \in Nat
      /\ IdOf[p.name] \in Nat
  BY PagingAssumption DEF Sorts, Project
<1>2. CASE sort.by = "Name"
  BY <1>1, <1>2 DEF Key, NameKey
<1>3. CASE sort.by = "MtimeName"
  BY <1>1, <1>3 DEF Key
<1>4. CASE sort.by = "Id"
  BY <1>1, <1>4 DEF Key, NameKey
<1> QED
  BY <1>1, <1>2, <1>3, <1>4

\* Two projects have the same key only if they have the same name.
LEMMA KeyInjective ==
  ASSUME NEW sort \in Sorts, NEW p \in Project, NEW q \in Project,
         Key(sort, p) = Key(sort, q)
  PROVE  p.name = q.name
<1>1. sort.by \in {"Name", "MtimeName", "Id"} /\ p.name \in Names /\ q.name \in Names
  BY DEF Sorts, Project
<1>2. CASE sort.by = "Name"
  BY <1>2 DEF Key
<1>3. CASE sort.by = "MtimeName"
  BY <1>3 DEF Key
<1>4. CASE sort.by = "Id"
  <2>1. <<0, IdOf[p.name]>> = <<0, IdOf[q.name]>>
    BY <1>4 DEF Key
  <2>2. IdOf[p.name] = IdOf[q.name]
    BY <2>1
  <2> QED
    BY <1>1, <2>2, PagingAssumption
<1> QED
  BY <1>1, <1>2, <1>3, <1>4

\* The order of a scan is a strict total order of the keys.
LEMMA BeforeIsStrict ==
  ASSUME NEW sort, NEW k \in Nat \X Nat, NEW l \in Nat \X Nat
  PROVE  /\ ~Before(sort, k, k)
         /\ Before(sort, k, l) => ~Before(sort, l, k)
BY DEF Before, KeyLess

LEMMA BeforeIsTransitive ==
  ASSUME NEW sort, NEW k \in Nat \X Nat, NEW l \in Nat \X Nat, NEW m \in Nat \X Nat,
         Before(sort, k, l), Before(sort, l, m)
  PROVE  Before(sort, k, m)
BY DEF Before, KeyLess

LEMMA BeforeIsTotal ==
  ASSUME NEW sort, NEW k \in Nat \X Nat, NEW l \in Nat \X Nat,
         ~Before(sort, k, l), ~Before(sort, l, k)
  PROVE  k = l
<1>1. k[1] = l[1] /\ k[2] = l[2]
  BY DEF Before, KeyLess
<1> QED
  BY <1>1

-----------------------------------------------------------------------------
(* Pages.                                                                  *)

\* Projects of different names are finitely many.
LEMMA PagesAreFinite ==
  ASSUME NEW S, S \subseteq Project, \A p, q \in S : p.name = q.name => p = q
  PROVE  IsFiniteSet(S)
<1> DEFINE f == [p \in S |-> p.name]
<1>1. f \in Injection(S, Names)
  BY DEF Injection, IsInjective, Project
<1> QED
  BY <1>1, FS_Injection, PagingAssumption

\* A page that is not empty has a last project in the order of the scan.
LEMMA LastExists ==
  ASSUME NEW S, S \subseteq Project, S # {}, NEW sort \in Sorts,
         \A p, q \in S : p.name = q.name => p = q
  PROVE  \E p \in S : \A q \in S \ {p} : Before(sort, Key(sort, q), Key(sort, p))
<1> DEFINE From(p) == {q \in S : ~Before(sort, Key(sort, q), Key(sort, p))}
           T == {From(p) : p \in S}
           R == StrictSubsetOrdering(S)
<1>1. IsFiniteSet(S)
  BY PagesAreFinite
<1>2. IsWellFoundedOn(R, SUBSET S)
  BY <1>1, FS_StrictSubsetOrderingWellFounded, FS_FiniteSubsetsOfFinite
<1>3. PICK X \in T : \A Y \in T : ~(<<Y, X>> \in R)
  <2>0. PICK s \in S : TRUE
    OBVIOUS
  <2>1. From(s) \in T /\ \A p \in S : From(p) \subseteq S
    OBVIOUS
  <2>2. T \subseteq SUBSET S
    BY <2>1, Zenon
  <2> HIDE DEF T, R
  <2> QED
    BY <1>2, <2>1, <2>2, WFMin
<1>4. PICK p \in S : X = From(p)
  OBVIOUS
<1>5. \A q \in S : Key(sort, q) \in Nat \X Nat
  BY KeyFacts
<1>6. ASSUME NEW q \in S \ {p}, ~Before(sort, Key(sort, q), Key(sort, p))
      PROVE  FALSE
  <2>1. Key(sort, q) # Key(sort, p)
    BY KeyInjective
  <2>2. Before(sort, Key(sort, p), Key(sort, q))
    BY <1>5, <1>6, <2>1, BeforeIsTotal
  <2>3. From(q) \subseteq From(p)
    <3> SUFFICES ASSUME NEW r \in S, ~Before(sort, Key(sort, r), Key(sort, q)),
                        Before(sort, Key(sort, r), Key(sort, p))
                 PROVE  FALSE
      OBVIOUS
    <3> QED
      BY <1>5, <2>2, BeforeIsTransitive
  <2>4. p \in From(p) /\ p \notin From(q)
    BY <1>5, <2>2, BeforeIsStrict
  <2>5. From(q) \in T /\ <<From(q), From(p)>> \in R
    BY <2>3, <2>4 DEF StrictSubsetOrdering
  <2> QED
    BY <1>3, <1>4, <2>5
<1> QED
  BY <1>6

\* A page starts with the first project that is left, and its last project
\* bounds it: nothing up to there is left out.
LEMMA PageFacts ==
  ASSUME NEW S, S \subseteq Project, \A p, q \in S : p.name = q.name => p = q,
         NEW n \in Nat \ {0}, NEW sort \in Sorts, NEW items \in SUBSET S,
         IsPage(items, S, n, sort)
  PROVE  /\ Cardinality(items) \in Nat /\ Cardinality(items) <= n
         /\ items = {} => S = {} /\ NextPage(items, sort) = <<>>
         /\ items # {} => \E last \in items :
              /\ NextPage(items, sort) = <<serialize_page_token(page_selector_for(last, sort))>>
              /\ \A q \in S : q \in items <=> ~Before(sort, Key(sort, last), Key(sort, q))
<1>1. IsFiniteSet(items)
  BY PagesAreFinite
<1>2. Cardinality(items) \in Nat /\ Cardinality(items) <= n
  BY <1>1, FS_CardinalityType DEF IsPage
<1>3. ASSUME items = {} PROVE S = {} /\ NextPage(items, sort) = <<>>
  BY <1>3, FS_EmptySet DEF IsPage, NextPage
<1>4. ASSUME items # {}
      PROVE  \E last \in items :
              /\ NextPage(items, sort) = <<serialize_page_token(page_selector_for(last, sort))>>
              /\ \A q \in S : q \in items <=> ~Before(sort, Key(sort, last), Key(sort, q))
  <2> DEFINE IsLast(p) == \A q \in items \ {p} : Before(sort, Key(sort, q), Key(sort, p))
             last == CHOOSE p \in items : IsLast(p)
  <2>1. \E p \in items : IsLast(p)
    BY <1>4, LastExists
  <2>2. last \in items /\ IsLast(last)
    BY <2>1
  <2>3. NextPage(items, sort) = <<serialize_page_token(page_selector_for(last, sort))>>
    BY <1>4 DEF NextPage
  <2> HIDE DEF last
  <2>4. \A q \in S : Key(sort, q) \in Nat \X Nat
    BY KeyFacts
  <2>5. ASSUME NEW q \in items PROVE ~Before(sort, Key(sort, last), Key(sort, q))
    BY <2>2, <2>4, BeforeIsStrict
  <2>6. ASSUME NEW q \in S \ items PROVE Before(sort, Key(sort, last), Key(sort, q))
    BY <2>2 DEF IsPage
  <2> QED
    BY <2>2, <2>3, <2>5, <2>6
<1> QED
  BY <1>2, <1>3, <1>4

-----------------------------------------------------------------------------
(* Requests and tokens.                                                    *)

\* A token that a server hands out can be read again, and says what it was
\* made from.
LEMMA RoundTrip ==
  ASSUME NEW p \in Project, NEW sort \in Sorts
  PROVE  LET selector == page_selector_for(p, sort)
             token    == serialize_page_token(selector)
         IN  /\ selector \in Selectors
             /\ scan_params(selector) = sort
             /\ selector.key = Key(sort, p)
             /\ token # <<>> => deserialize_page_token(token[1]) = <<selector>>
<1> DEFINE selector == page_selector_for(p, sort)
<1>1. selector \in Selectors /\ scan_params(selector) = sort /\ selector.key = Key(sort, p)
  BY KeyFacts DEF page_selector_for, Selectors, scan_params, Sorts
<1>2. JsonLen(selector) \in Nat
  BY TokenAssumption
<1> HIDE DEF selector
<1>3. EncodedLen(JsonLen(selector)) \in Nat
  BY <1>2 DEF EncodedLen
<1>4. serialize_page_token(selector) # <<>> =>
        deserialize_page_token(serialize_page_token(selector)[1]) = <<selector>>
  BY <1>3, PagingAssumption DEF serialize_page_token, deserialize_page_token, Token
<1> QED
  BY <1>1, <1>4 DEF selector

\* What the server makes of a request.
LEMMA WhichPageFacts ==
  ASSUME RequestOK
  PROVE  /\ ScanSort \in Sorts
         /\ request.page_token = <<>> =>
              WhichPage(request) = <<[which |-> "First", sort |-> ScanSort]>>
         /\ request.page_token # <<>> /\ deserialize_page_token(request.page_token[1]) # <<>> =>
              /\ Selector \in Selectors /\ ScanSort = scan_params(Selector)
              /\ WhichPage(request) =
                   <<[which |-> "Next", sort |-> ScanSort, selector |-> Selector]>>
         /\ request.page_token # <<>> /\ deserialize_page_token(request.page_token[1]) = <<>> =>
              WhichPage(request) = <<>> /\ request.page_token[1] \in StrayTokens
<1>1. default_project_sort \in Sorts
  BY DEF default_project_sort, Sorts
<1>2. CASE request.page_token = <<>>
  BY <1>1, <1>2 DEF RequestOK, QueryOK, WhichPage, ScanSort
<1>3. CASE request.page_token # <<>> /\ deserialize_page_token(request.page_token[1]) = <<>>
  BY <1>1, <1>3 DEF RequestOK, QueryOK, WhichPage, ScanSort
<1>4. CASE request.page_token # <<>> /\ deserialize_page_token(request.page_token[1]) # <<>>
  <2>1. Selector \in Selectors
    BY <1>4 DEF RequestOK, QueryOK, Selector
  <2>2. scan_params(Selector) \in Sorts
    BY <2>1 DEF scan_params, Selectors, Sorts
  <2>3. WhichPage(request) =
          <<[which |-> "Next", sort |-> scan_params(Selector), selector |-> Selector]>>
    BY <1>4 DEF WhichPage, Selector
  <2>4. ScanSort = scan_params(Selector)
    BY <2>3 DEF ScanSort
  <2> QED
    BY <1>4, <2>1, <2>2, <2>3, <2>4
<1> QED
  BY <1>2, <1>3, <1>4

\* The limit of a page is not zero, and within what the server is configured for.
LEMMA LimitFacts ==
  ASSUME NEW limit, limit = <<>> \/ limit[1] \in Nat, LimitParses(limit)
  PROVE  /\ page_limit(limit) \in Nat \ {0}
         /\ page_limit(limit) <= IF page_default_nitems > page_max_nitems
                                   THEN page_default_nitems ELSE page_max_nitems
BY PagingAssumption DEF LimitParses, page_limit

-----------------------------------------------------------------------------
(* The invariant holds initially, and every step keeps it.                 *)

LEMMA InitPaging == Init => PagingInv
<1> SUFFICES ASSUME Init PROVE PagingInv
  OBVIOUS
<1>1. Cardinality({}) = 0
  BY FS_EmptySet
<1>2. TypeOK /\ PageBounded
  BY <1>1, PagingAssumption DEF Init, TypeOK, PageBounded, Error
<1> QED
  BY <1>2 DEF Init, PagingInv, RequestOK, QueryOK, IdleOK, ScanOK, PageOK,
              StableSeenOnce, NoRepeats, TokensUsable

\* A client starts a scan: nothing is passed and nothing was returned.
LEMMA FirstPageStep ==
  ASSUME PagingInv, NEW sort \in {<<>>} \cup {<<s>> : s \in Sorts}, NEW limit \in Limits,
         FirstPage(sort, limit)
  PROVE  PagingInv'
<1>1. /\ pc = "idle" /\ pc' = "sent" /\ UNCHANGED <<projects, changes, response, seen>>
      /\ request' = [page_token |-> <<>>, sort |-> sort, limit |-> limit]
      /\ stable' = {p.name : p \in projects}
      /\ \A n \in Names : seen[n] = 0
  BY DEF FirstPage, Send, PagingInv, IdleOK
<1>2. TypeOK' /\ PageBounded'
  BY <1>1 DEF PagingInv, TypeOK, PageBounded
<1>3. QueryOK(request')
  BY <1>1, PagingAssumption DEF QueryOK
<1>4. ScanOK'
  BY <1>1, <1>2 DEF ScanOK, Passed, TypeOK, Project
<1>5. NoRepeats'
  BY <1>1 DEF NoRepeats
<1> QED
  BY <1>1, <1>2, <1>3, <1>4, <1>5 DEF PagingInv, RequestOK, IdleOK, PageOK, StableSeenOnce, TokensUsable

\* A client starts with a token from elsewhere: no project counts as stable.
LEMMA StrayPageStep ==
  ASSUME PagingInv, NEW token \in StrayTokens, NEW limit \in Limits, StrayPage(token, limit)
  PROVE  PagingInv'
<1>1. /\ pc = "idle" /\ pc' = "sent"
      /\ UNCHANGED <<projects, changes, response, seen, stable>>
      /\ request' = [page_token |-> <<token>>, sort |-> <<>>, limit |-> limit]
      /\ stable = {} /\ \A n \in Names : seen[n] = 0
  BY DEF StrayPage, Send, PagingInv, IdleOK
<1>2. TypeOK' /\ PageBounded'
  BY <1>1 DEF PagingInv, TypeOK, PageBounded
<1>3. QueryOK(request')
  BY <1>1, PagingAssumption, TokenAssumption DEF QueryOK
<1>4. ScanOK' /\ NoRepeats'
  BY <1>1 DEF ScanOK, NoRepeats
<1> QED
  BY <1>1, <1>2, <1>3, <1>4 DEF PagingInv, RequestOK, IdleOK, PageOK, StableSeenOnce, TokensUsable

\* The collection changes: what matters is that a project that stays stable
\* keeps its key in the scan.
LEMMA ChangeStep ==
  ASSUME PagingInv, NEW S, NEW moved, Change(S, moved), S \subseteq Project,
         \A p, q \in S : p.name = q.name => p = q,
         stable \ moved \subseteq {p.name : p \in S},
         \A p \in S : p.name \in stable \ moved =>
           \E q \in projects : q.name = p.name /\ Key(ScanSort, q) = Key(ScanSort, p)
  PROVE  PagingInv'
<1>1. /\ projects' = S /\ stable' = stable \ moved
      /\ UNCHANGED <<request, response, pc, seen>>
      /\ changes < MaxChanges /\ changes' = changes + 1
  BY DEF Change
<1>2. /\ ScanSort' = ScanSort /\ (\A k : Passed(k)' <=> Passed(k))
      /\ Returned' = Returned /\ NextSelector' = NextSelector /\ Selector' = Selector
  BY <1>1 DEF ScanSort, Passed, Selector, Returned, NextSelector
<1>3. TypeOK'
  BY <1>1, PagingAssumption DEF PagingInv, TypeOK
<1>4. RequestOK' /\ IdleOK' /\ StableSeenOnce' /\ TokensUsable' /\ PageBounded'
  BY <1>1 DEF PagingInv, RequestOK, IdleOK, StableSeenOnce, TokensUsable, FromStart, PageBounded
<1>5. NoRepeats'
  BY <1>1, <1>2 DEF PagingInv, NoRepeats
<1>6. ScanOK'
  BY <1>1, <1>2 DEF PagingInv, ScanOK
<1>7. PageOK'
  BY <1>1, <1>2 DEF PagingInv, PageOK
<1> QED
  BY <1>3, <1>4, <1>5, <1>6, <1>7 DEF PagingInv

LEMMA WriterStep ==
  ASSUME PagingInv, Writer
  PROVE  PagingInv'
<1> USE DEF Writer
<1>1. /\ projects \subseteq Project /\ stable \subseteq {p.name : p \in projects}
      /\ \A p, q \in projects : p.name = q.name => p = q
  BY DEF PagingInv, TypeOK
<1>2. ASSUME NEW p \in Project, Insert(p) PROVE PagingInv'
  <2> DEFINE S == projects \cup {p}
  <2>1. Change(S, {}) /\ \A q \in projects : q.name # p.name
    BY <1>2 DEF Insert
  <2>2. S \subseteq Project /\ \A q, r \in S : q.name = r.name => q = r
    BY <1>1, <2>1
  <2>3. \A q \in S : q.name \in stable \ {} =>
          \E r \in projects : r.name = q.name /\ Key(ScanSort, r) = Key(ScanSort, q)
    BY <1>1, <2>1
  <2>4. stable \ {} \subseteq {q.name : q \in S}
    BY <1>1
  <2> HIDE DEF S
  <2> QED
    BY <2>1, <2>2, <2>3, <2>4, ChangeStep
<1>3. ASSUME NEW p \in projects, Delete(p) PROVE PagingInv'
  <2> DEFINE S == projects \ {p}
             moved == {p.name}
  <2>1. Change(S, moved)
    BY <1>3 DEF Delete
  <2>2. S \subseteq Project /\ \A q, r \in S : q.name = r.name => q = r
    BY <1>1
  <2>3. \A q \in S : q.name \in stable \ moved =>
          \E r \in projects : r.name = q.name /\ Key(ScanSort, r) = Key(ScanSort, q)
    OBVIOUS
  <2>4. stable \ moved \subseteq {q.name : q \in S}
    BY <1>1
  <2> HIDE DEF S, moved
  <2> QED
    BY <2>1, <2>2, <2>3, <2>4, ChangeStep
<1>4. ASSUME NEW p \in projects, NEW mtime \in Mtimes, Touch(p, mtime) PROVE PagingInv'
  <2> DEFINE touched == [p EXCEPT !.mtime = mtime]
             S == (projects \ {p}) \cup {touched}
             moved == IF ScanSort.by = "MtimeName" THEN {p.name} ELSE {}
  <2>1. Change(S, moved)
    BY <1>4 DEF Touch
  <2>2. touched \in Project /\ touched.name = p.name
    BY <1>1 DEF Project
  <2> HIDE DEF touched
  <2>3. S \subseteq Project /\ \A q, r \in S : q.name = r.name => q = r
    BY <1>1, <2>2
  <2>4. ScanSort \in Sorts
    BY WhichPageFacts DEF PagingInv
  <2>5. ScanSort.by # "MtimeName" => Key(ScanSort, touched) = Key(ScanSort, p)
    BY <1>1, <2>2, <2>4, KeyFacts
  <2>6. \A q \in S : q.name \in stable \ moved =>
          \E r \in projects : r.name = q.name /\ Key(ScanSort, r) = Key(ScanSort, q)
    BY <2>2, <2>5
  <2>7. stable \ moved \subseteq {q.name : q \in S}
    BY <1>1, <2>2
  <2> HIDE DEF S, moved
  <2> QED
    BY <2>1, <2>3, <2>6, <2>7, ChangeStep
<1> QED
  BY <1>2, <1>3, <1>4

\* The server answers: its page is what lies between the token of the request
\* and the token of the page.
LEMMA ServerStep ==
  ASSUME PagingInv, example_list_projects
  PROVE  PagingInv'
<1> DEFINE page == WhichPage(request)
<1>1. /\ pc = "sent" /\ pc' = "received"
      /\ UNCHANGED <<projects, changes, request, seen, stable>>
  BY DEF example_list_projects
<1>2. /\ ScanSort' = ScanSort /\ (\A k : Passed(k)' <=> Passed(k)) /\ Selector' = Selector
  BY <1>1 DEF ScanSort, Passed, Selector
<1>3. ScanSort \in Sorts /\ RequestOK
  BY WhichPageFacts DEF PagingInv
<1>4. RequestOK' /\ IdleOK' /\ StableSeenOnce' /\ NoRepeats' /\ ScanOK'
  BY <1>1, <1>2 DEF PagingInv, RequestOK, IdleOK, StableSeenOnce, NoRepeats, ScanOK
<1>5. response'.items \subseteq Project => TypeOK'
  BY <1>1 DEF PagingInv, TypeOK
<1>6. CASE ~LimitParses(request.limit) \/ page = <<>>
  <2>1. response' = [status |-> 400, items |-> {}, next_page |-> <<>>]
    BY <1>6 DEF example_list_projects, Error
  <2>2. TypeOK' /\ PageOK'
    BY <1>5, <2>1 DEF PageOK
  <2>3. PageBounded'
    BY <2>1, FS_EmptySet, PagingAssumption DEF PageBounded
  <2>4. TokensUsable'
    <3>1. page = <<>> => ~FromStart
      BY <1>3, WhichPageFacts DEF FromStart
    <3> QED
      BY <1>1, <1>6, <3>1 DEF TokensUsable, FromStart
  <2> QED
    BY <1>4, <2>2, <2>3, <2>4 DEF PagingInv
<1>7. CASE LimitParses(request.limit) /\ page # <<>>
  <2> DEFINE S == do_list(page[1])
  <2>1. page = <<page[1]>> /\ page[1].sort = ScanSort
        /\ (request.page_token # <<>> =>
              /\ deserialize_page_token(request.page_token[1]) # <<>>
              /\ Selector \in Selectors /\ ScanSort = scan_params(Selector))
    BY <1>3, <1>7, WhichPageFacts
  <2>2. S = {p \in projects : ~Passed(Key(ScanSort, p))}
    <3>1. CASE request.page_token = <<>>
      BY <1>3, <3>1, WhichPageFacts DEF do_list, Passed
    <3>2. CASE request.page_token # <<>>
      <4>1. page[1] = [which |-> "Next", sort |-> ScanSort, selector |-> Selector]
        BY <1>3, <2>1, <3>2, WhichPageFacts
      <4>2. S = iter_from(Selector)
        BY <4>1 DEF do_list
      <4> QED
        BY <2>1, <3>2, <4>2 DEF iter_from, Passed
    <3> QED
      BY <3>1, <3>2
  <2>3. PICK items \in SUBSET S :
          /\ IsPage(items, S, page_limit(request.limit), ScanSort)
          /\ response' = ResultsPage(items, ScanSort)
    BY <1>7, <2>1 DEF example_list_projects
  <2> HIDE DEF S, page
  <2>4. S \subseteq Project /\ \A p, q \in S : p.name = q.name => p = q
    BY <2>2 DEF PagingInv, TypeOK
  <2>5. /\ page_limit(request.limit) \in Nat \ {0}
        /\ page_limit(request.limit) <= IF page_default_nitems > page_max_nitems
                                          THEN page_default_nitems ELSE page_max_nitems
    BY <1>3, <1>7, LimitFacts DEF RequestOK, QueryOK
  <2>6. /\ Cardinality(items) \in Nat /\ Cardinality(items) <= page_limit(request.limit)
        /\ items = {} => S = {} /\ NextPage(items, ScanSort) = <<>>
        /\ items # {} => \E last \in items :
             /\ NextPage(items, ScanSort) =
                  <<serialize_page_token(page_selector_for(last, ScanSort))>>
             /\ \A q \in S : q \in items <=>
                  ~Before(ScanSort, Key(ScanSort, last), Key(ScanSort, q))
    BY <1>3, <2>3, <2>4, <2>5, PageFacts
  <2>7. CASE response' = [status |-> 500, items |-> {}, next_page |-> <<>>]
    <3>1. TypeOK' /\ PageOK' /\ TokensUsable'
      BY <1>5, <2>7 DEF PageOK, TokensUsable
    <3>2. PageBounded'
      BY <2>7, FS_EmptySet, PagingAssumption DEF PageBounded
    <3> QED
      BY <1>4, <3>1, <3>2 DEF PagingInv
  <2>8. ASSUME response'.status = 200, response'.items = items
        PROVE  TypeOK' /\ TokensUsable' /\ PageBounded'
    <3>1. PageBounded'
      BY <2>5, <2>6, <2>8, PagingAssumption DEF PageBounded
    <3> QED
      BY <1>5, <2>4, <2>8, <3>1 DEF TokensUsable
  <2>9. CASE items = {}
    <3>1. response' = [status |-> 500, items |-> {}, next_page |-> <<>>]
          \/ response' = [status |-> 200, items |-> items, next_page |-> <<>>]
      BY <2>3, <2>6, <2>9 DEF ResultsPage, Error
    <3>2. CASE response' = [status |-> 200, items |-> items, next_page |-> <<>>]
      <4>1. \A p \in projects : Passed(Key(ScanSort, p))
        BY <2>2, <2>6, <2>9
      <4>2. PageOK'
        BY <1>1, <1>2, <2>1, <2>9, <3>2, <4>1 DEF PageOK
      <4> QED
        BY <1>4, <2>8, <3>2, <4>2 DEF PagingInv
    <3> QED
      BY <2>7, <3>1, <3>2
  <2>10. CASE items # {}
    <3>1. PICK last \in items :
             /\ NextPage(items, ScanSort) =
                  <<serialize_page_token(page_selector_for(last, ScanSort))>>
             /\ \A q \in S : q \in items <=>
                  ~Before(ScanSort, Key(ScanSort, last), Key(ScanSort, q))
      BY <2>6, <2>10
    <3> DEFINE selector == page_selector_for(last, ScanSort)
               token == serialize_page_token(selector)
    <3>2. /\ selector \in Selectors /\ scan_params(selector) = ScanSort
          /\ selector.key = Key(ScanSort, last)
          /\ token # <<>> => deserialize_page_token(token[1]) = <<selector>>
      BY <1>3, <2>4, RoundTrip
    <3>3. NextPage(items, ScanSort) = <<token>>
      BY <3>1
    <3> HIDE DEF selector, token
    <3>4. \/ response' = [status |-> 500, items |-> {}, next_page |-> <<>>]
          \/ token # <<>> /\ response' = [status |-> 200, items |-> items, next_page |-> token]
      <4>1. CASE token = <<>>
        <5>1. NextPage(items, ScanSort) = <<<<>>>>
          BY <3>3, <4>1, Zenon
        <5>2. response' = Error(500)
          BY <2>3, <5>1, Zenon DEF ResultsPage
        <5> QED
          BY <5>2, Zenon DEF Error
      <4>2. CASE token # <<>>
        <5>1. <<token>> # <<<<>>>> /\ <<token>> # <<>> /\ <<token>>[1] = token
          BY <4>2
        <5> QED
          BY <2>3, <3>3, <4>2, <5>1 DEF ResultsPage
      <4> QED
        BY <4>1, <4>2
    <3>5. CASE token # <<>> /\ response' = [status |-> 200, items |-> items, next_page |-> token]
      <4>1. NextSelector' = selector
        BY <3>2, <3>5 DEF NextSelector
      <4>2. \A p \in items : ~Passed(Key(ScanSort, p))
        BY <2>2
      <4>3. request.page_token # <<>> => Before(ScanSort, Selector.key, selector.key)
        BY <3>2, <4>2 DEF Passed
      <4>4. \A p \in items : ~Before(ScanSort, selector.key, Key(ScanSort, p))
        BY <3>1, <3>2
      <4>5. Returned' = {p.name : p \in items}
        BY <3>5 DEF Returned
      <4>6. ASSUME NEW p \in projects
            PROVE  p.name \in Returned' <=>
                     /\ ~Passed(Key(ScanSort, p))
                     /\ ~Before(ScanSort, selector.key, Key(ScanSort, p))
        <5>1. p.name \in Returned' <=> p \in items
          BY <2>2, <4>5 DEF PagingInv, TypeOK
        <5> QED
          BY <2>2, <3>1, <3>2, <5>1
      <4>7. PageOK'
        BY <1>1, <1>2, <2>1, <3>2, <3>5, <4>1, <4>2, <4>3, <4>4, <4>6 DEF PageOK
      <4> QED
        BY <1>4, <2>8, <3>5, <4>7 DEF PagingInv
    <3> QED
      BY <2>7, <3>4, <3>5
  <2> QED
    BY <2>9, <2>10
<1> QED
  BY <1>6, <1>7

\* The client takes a page and asks for the next one: the names it has seen
\* move on with the token.
LEMMA ClientStep ==
  ASSUME PagingInv, NEW limit \in Limits, iter_collection(limit)
  PROVE  PagingInv'
<1>1. pc = "received" /\ UNCHANGED <<projects, changes, response, stable>>
  BY DEF iter_collection
<1>2. ScanSort \in Sorts /\ RequestOK
  BY WhichPageFacts DEF PagingInv
<1>3. PageBounded'
  BY <1>1 DEF PagingInv, PageBounded
<1>4. CASE response.status # 200
  <2>1. pc' = "failed" /\ UNCHANGED <<request, seen>>
    BY <1>4 DEF iter_collection
  <2>2. ScanSort' = ScanSort
    BY <2>1 DEF ScanSort
  <2> QED
    BY <1>1, <1>3, <2>1, <2>2 DEF PagingInv, TypeOK, RequestOK, IdleOK, ScanOK, PageOK,
                                  StableSeenOnce, NoRepeats, TokensUsable
<1>5. CASE response.status = 200
  <2>1. seen' = [n \in Names |-> IF n \in Returned /\ seen[n] < 2
                                   THEN seen[n] + 1 ELSE seen[n]]
    BY <1>5 DEF iter_collection, Returned
  <2>2. seen \in [Names -> 0 .. 2] /\ seen' \in [Names -> 0 .. 2]
    BY <2>1 DEF PagingInv, TypeOK
  <2>3. pc' \in {"sent", "done"} => TypeOK'
    BY <1>1, <2>2 DEF PagingInv, TypeOK
  <2>4. CASE response.next_page = <<>>
    <3>1. pc' = "done" /\ UNCHANGED request
      BY <1>5, <2>4 DEF iter_collection
    <3>2. Returned = {}
      BY <1>1, <1>5, <2>4 DEF PagingInv, PageOK, Returned
    <3>3. \A n \in Names : seen'[n] = seen[n]
      BY <2>1, <3>2
    <3>4. ScanSort' = ScanSort
      BY <3>1 DEF ScanSort
    <3>5. NoRepeats'
      BY <3>3, <3>4 DEF PagingInv, NoRepeats
    <3>6. StableSeenOnce'
      <4> SUFFICES ASSUME NEW n \in stable PROVE seen'[n] = 1
        BY <1>1 DEF StableSeenOnce
      <4>1. PICK p \in projects : p.name = n /\ n \in Names
        BY DEF PagingInv, TypeOK, Project
      <4>2. Passed(Key(ScanSort, p))
        BY <1>1, <1>5, <2>4, <4>1 DEF PagingInv, PageOK
      <4> QED
        BY <1>1, <3>3, <4>1, <4>2 DEF PagingInv, ScanOK
    <3> QED
      BY <1>1, <1>3, <2>3, <3>1, <3>5, <3>6
      DEF PagingInv, RequestOK, IdleOK, ScanOK, PageOK, TokensUsable
  <2>5. CASE response.next_page # <<>>
    <3>1. /\ pc' = "sent"
          /\ request' = [page_token |-> response.next_page, sort |-> request.sort,
                         limit |-> limit]
      BY <1>5, <2>5 DEF iter_collection, Send
    <3>2. /\ deserialize_page_token(response.next_page[1]) # <<>>
          /\ NextSelector \in Selectors /\ scan_params(NextSelector) = ScanSort
          /\ request.page_token # <<>> =>
               /\ Selector \in Selectors
               /\ Before(ScanSort, Selector.key, NextSelector.key)
          /\ \A p \in response.items : /\ ~Passed(Key(ScanSort, p))
                                      /\ ~Before(ScanSort, NextSelector.key, Key(ScanSort, p))
          /\ \A p \in projects : p.name \in stable =>
               (p.name \in Returned <=> /\ ~Passed(Key(ScanSort, p))
                                        /\ ~Before(ScanSort, NextSelector.key, Key(ScanSort, p)))
      BY <1>1, <1>2, <1>5, <2>5, WhichPageFacts DEF PagingInv, PageOK
    <3>3. QueryOK(request')
      BY <1>2, <3>1, <3>2, PagingAssumption DEF RequestOK, QueryOK, NextSelector
    <3>4. Selector' = NextSelector
      BY <3>1 DEF Selector, NextSelector
    <3>5. ScanSort' = ScanSort
      <4>1. WhichPage(request') = <<[which |-> "Next", sort |-> ScanSort, selector |-> NextSelector]>>
        BY <2>5, <3>1, <3>2 DEF WhichPage, NextSelector
      <4> QED
        BY <4>1 DEF ScanSort
    <3>6. \A k : Passed(k)' <=> ~Before(ScanSort, NextSelector.key, k)
      BY <2>5, <3>1, <3>4, <3>5 DEF Passed
    <3>7. ASSUME NEW k \in Nat \X Nat, Passed(k)
          PROVE  ~Before(ScanSort, NextSelector.key, k)
      BY <3>2, <3>7, BeforeIsTransitive DEF Passed, Selectors
    <3>8. response.items \subseteq Project /\ projects \subseteq Project
      BY DEF PagingInv, TypeOK
    <3>9. ASSUME ScanSort.by # "MtimeName", NEW n \in Names
          PROVE  /\ seen'[n] <= 1
                 /\ seen'[n] = 1 => ~Before(ScanSort, NextSelector.key, NameKey(ScanSort, n))
      <4>1. seen[n] \in {0, 1} /\ (seen[n] = 1 => Passed(NameKey(ScanSort, n)))
        BY <1>1, <2>2, <3>9 DEF PagingInv, ScanOK, NoRepeats
      <4>2. n \in Returned => /\ ~Passed(NameKey(ScanSort, n))
                              /\ ~Before(ScanSort, NextSelector.key, NameKey(ScanSort, n))
        BY <1>2, <3>2, <3>8, <3>9, KeyFacts DEF Returned
      <4>3. NameKey(ScanSort, n) \in Nat \X Nat
        BY <1>2, <3>9, PagingAssumption DEF NameKey, Key, Sorts
      <4> QED
        BY <2>1, <3>7, <4>1, <4>2, <4>3
    <3>10. ASSUME NEW p \in projects, p.name \in stable
           PROVE  seen'[p.name] = IF Before(ScanSort, NextSelector.key, Key(ScanSort, p))
                                    THEN 0 ELSE 1
      <4>1. p.name \in Names /\ Key(ScanSort, p) \in Nat \X Nat
        BY <1>2, <3>8, KeyFacts DEF Project
      <4>2. seen[p.name] = IF Passed(Key(ScanSort, p)) THEN 1 ELSE 0
        BY <1>1, <3>10 DEF PagingInv, ScanOK
      <4>3. p.name \in Returned <=> /\ ~Passed(Key(ScanSort, p))
                                    /\ ~Before(ScanSort, NextSelector.key, Key(ScanSort, p))
        BY <3>2, <3>10
      <4>4. CASE Passed(Key(ScanSort, p))
        BY <2>1, <3>7, <4>1, <4>2, <4>3, <4>4
      <4>5. CASE ~Passed(Key(ScanSort, p))
        BY <2>1, <4>1, <4>2, <4>3, <4>5
      <4> QED
        BY <4>4, <4>5
    <3>11. NoRepeats'
      BY <3>5, <3>9 DEF NoRepeats
    <3>12. ScanOK'
      BY <1>1, <3>5, <3>6, <3>9, <3>10 DEF ScanOK
    <3> QED
      BY <1>3, <2>3, <3>1, <3>3, <3>11, <3>12
      DEF PagingInv, RequestOK, IdleOK, PageOK, StableSeenOnce, TokensUsable
  <2> QED
    BY <2>4, <2>5
<1> QED
  BY <1>4, <1>5

LEMMA StepPaging == PagingInv /\ [Next]_vars => PagingInv'
<1> SUFFICES ASSUME PagingInv, [Next]_vars PROVE PagingInv'
  OBVIOUS
<1>1. CASE UNCHANGED vars
  BY <1>1 DEF vars, PagingInv, TypeOK, RequestOK, IdleOK, ScanOK, PageOK, StableSeenOnce,
              NoRepeats, TokensUsable, FromStart, PageBounded, Passed, Returned, Selector,
              NextSelector, ScanSort
<1>2. CASE Next
  BY <1>2, FirstPageStep, StrayPageStep, ServerStep, ClientStep, WriterStep
  DEF Next, Scan
<1> QED
  BY <1>1, <1>2

\* What a client has seen and the token it sends tell the same story, whatever
\* other writers do between its requests (pagination.rs:151-178, 325-353).
THEOREM PagingInvariant == Spec => []PagingInv
BY InitPaging, StepPaging, PTL DEF Spec

\* A scan that gets to its end has returned every project that was there from
\* its start, exactly once; and one by name or by id returns none twice,
\* whatever is inserted, deleted and touched while it runs
\* (pagination.rs:16-19).
THEOREM ScansAreComplete == Spec => []ScanComplete
<1>1. PagingInv => ScanComplete
  BY DEF PagingInv, ScanComplete
<1> QED
  BY <1>1, PagingInvariant, PTL

\* The server takes back every token it hands out, and never returns more
\* than it is configured for (pagination.rs:384-385, handler.rs:194).
THEOREM TokensAreSound == Spec => []TokensSound
<1>1. PagingInv => TokensSound
  BY DEF PagingInv, TokensSound
<1> QED
  BY <1>1, PagingInvariant, PTL

\* Every token that a page hands out lies strictly ahead of the one that asked
\* for the page, in the same order: no chain of tokens leads back
\* (pagination.rs:159).
THEOREM TokensLeadForward == Spec => TokensAdvance
<1>1. ASSUME PagingInv, [Next]_vars
      PROVE  [\A t \in {request.page_token}, u \in {request'.page_token} :
                pc = "received" /\ pc' = "sent" /\ t # <<>> =>
                  LET from == t[1].page_start[1]
                      to   == u[1].page_start[1]
                  IN  /\ scan_params(to) = scan_params(from)
                      /\ Before(scan_params(from), from.key, to.key)]_vars
  <2> SUFFICES ASSUME pc = "received", pc' = "sent", request.page_token # <<>>
               PROVE  LET from == request.page_token[1].page_start[1]
                          to   == request'.page_token[1].page_start[1]
                      IN  /\ scan_params(to) = scan_params(from)
                          /\ Before(scan_params(from), from.key, to.key)
    OBVIOUS
  <2>1. PICK limit \in Limits : iter_collection(limit)
    BY <1>1 DEF Next, Scan, Writer, FirstPage, StrayPage, example_list_projects, Insert,
                Delete, Touch, Change, vars
  <2>2. /\ response.status = 200 /\ response.next_page # <<>>
        /\ request'.page_token = response.next_page
    BY <2>1 DEF iter_collection, Send
  <2>3. /\ deserialize_page_token(request.page_token[1]) # <<>>
        /\ deserialize_page_token(response.next_page[1]) # <<>>
        /\ scan_params(NextSelector) = ScanSort
        /\ Before(ScanSort, Selector.key, NextSelector.key)
    BY <1>1, <2>2 DEF PagingInv, PageOK
  <2>4. ScanSort = scan_params(Selector)
    BY <1>1, <2>3, WhichPageFacts DEF PagingInv
  <2>5. /\ Selector = request.page_token[1].page_start[1]
        /\ NextSelector = response.next_page[1].page_start[1]
    BY <2>3 DEF Selector, NextSelector, deserialize_page_token
  <2> QED
    BY <2>2, <2>3, <2>4, <2>5
<1> QED
  BY <1>1, PagingInvariant, PTL DEF Spec, TokensAdvance

=============================================================================
