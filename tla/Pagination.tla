----------------------------- MODULE Pagination -----------------------------
(***************************************************************************)
(* A client scans a paginated collection (dropshot/src/pagination.rs)      *)
(* while somebody else changes the collection.  The endpoint is the one of *)
(* the repository's pagination examples: keyset pagination over projects,  *)
(* by name, by id or by (mtime, name), in either order.  The server keeps  *)
(* nothing between two requests; the whole position is in the page token.  *)
(***************************************************************************)
EXTENDS Integers, Sequences, FiniteSets

CONSTANTS
  Names,               \* project names, as numbers in their order
  IdOf,                \* name -> id
  Mtimes,              \* modification times
  JsonLen(_),          \* selector -> the bytes of its token's JSON text
  Limits,              \* the values of "limit" a client sends; <<>> is none
  StrayTokens,         \* page tokens that no server handed out
  page_max_nitems,
  page_default_nitems,
  MAX_TOKEN_LENGTH,
  MaxChanges           \* bound on the changes of the collection

ASSUME PagingAssumption ==
  /\ Names \subseteq Nat /\ IsFiniteSet(Names)
  /\ IdOf \in [Names -> Nat]
  /\ \A m, n \in Names : IdOf[m] = IdOf[n] => m = n
  /\ Mtimes \subseteq Nat
  /\ \A limit \in Limits : limit = <<>> \/ limit[1] \in Nat
  /\ MAX_TOKEN_LENGTH \in Nat /\ MaxChanges \in Nat
  /\ page_max_nitems \in Nat \ {0} /\ page_default_nitems \in Nat \ {0}

VARIABLES
  projects,  \* the collection: a set of [name, mtime]
  changes,   \* how often the collection changed
  request,   \* the request the client waits for, or the last one
  response,  \* what the server answered to it
  pc,        \* the client: "idle", "sent", "received", "done" or "failed"
  seen,      \* name -> how often the scan has returned it; 2 is "twice or more"
  stable     \* the projects of the start of the scan whose key has not changed

vars == <<projects, changes, request, response, pc, seen, stable>>

-----------------------------------------------------------------------------
(* Sort modes and page selectors of the examples.                          *)

Sorts == [by : {"Name", "MtimeName", "Id"}, order : {"Ascending", "Descending"}]

default_project_sort == [by |-> "Name", order |-> "Ascending"]

Project == [name : Names, mtime : Mtimes]

\* The key of a project in the index that a sort mode uses.
Key(sort, p) ==
  CASE sort.by = "Name"      -> <<0, p.name>>
    [] sort.by = "MtimeName" -> <<p.mtime, p.name>>
    [] sort.by = "Id"        -> <<0, IdOf[p.name]>>

KeyLess(k, l) == k[1] < l[1] \/ (k[1] = l[1] /\ k[2] < l[2])

\* Does key k come before key l in this scan?
Before(sort, k, l) ==
  IF sort.order = "Ascending" THEN KeyLess(k, l) ELSE KeyLess(l, k)

\* Faulty variant: the order is left out of the selector.
page_selector_forUnordered(last, sort) ==
  [by |-> sort.by, order |-> "Ascending", key |-> Key(sort, last)]

page_selector_for(last, sort) ==
  [by |-> sort.by, order |-> sort.order, key |-> Key(sort, last)]

\* What a selector says of the scan it came from.
scan_params(selector) == [by |-> selector.by, order |-> selector.order]

\* Faulty variant: the range starts at the last project seen, inclusive.
iter_fromInclusive(selector) ==
  {p \in projects : \/ Before(scan_params(selector), selector.key, Key(scan_params(selector), p))
                    \/ Key(scan_params(selector), p) = selector.key}

\* The range of the index that follows the last project seen, exclusive.
iter_from(selector) ==
  {p \in projects : Before(scan_params(selector), selector.key,
                           Key(scan_params(selector), p))}

\* P is what take(n) takes of the projects S in the order of the scan.
IsPage(P, S, n, sort) ==
  /\ Cardinality(P) <= n
  /\ P # S => Cardinality(P) = n
  /\ \A p \in P, q \in S \ P : Before(sort, Key(sort, p), Key(sort, q))

-----------------------------------------------------------------------------
(* Page tokens.                                                            *)

\* The length of n bytes in base64 with padding.
EncodedLen(n) == 4 * ((n + 2) \div 3)

\* A token that is base64 of the JSON text of a SerializedToken.
Token(selector) ==
  [len |-> EncodedLen(JsonLen(selector)), form |-> "token", v |-> "v1",
   page_start |-> <<selector>>]

\* Faulty variant: the length of a new token is not checked.
serialize_page_tokenUnchecked(selector) == <<Token(selector)>>

\* <<>> when the token would be too large: an internal error.
serialize_page_token(selector) ==
  IF Token(selector).len > MAX_TOKEN_LENGTH THEN <<>> ELSE <<Token(selector)>>

\* <<>> when the token is too large, not base64, not the JSON of this
\* endpoint's selector, or of another version.
deserialize_page_token(token) ==
  IF /\ token.len <= MAX_TOKEN_LENGTH
     /\ token.form = "token"
     /\ token.v = "v1"
    THEN token.page_start
    ELSE <<>>

Selectors == [by : {"Name", "MtimeName", "Id"}, order : {"Ascending", "Descending"},
              key : Nat \X Nat]

\* What a token that no server handed out says, if it can be read at all, is a
\* selector of this endpoint, of any key.
ASSUME TokenAssumption ==
  /\ \A p \in Project, sort \in Sorts : JsonLen(page_selector_for(p, sort)) \in Nat
  /\ \A token \in StrayTokens : LET selector == deserialize_page_token(token)
                                IN  selector # <<>> => selector[1] \in Selectors

-----------------------------------------------------------------------------
(* The server: one request for a page.                                     *)

Error(status) == [status |-> status, items |-> {}, next_page |-> <<>>]

\* An absent limit, or a NonZeroU32.
LimitParses(limit) == limit = <<>> \/ limit[1] > 0

\* Faulty variant: the limit of the client is not clamped to the maximum.
page_limitUnclamped(limit) ==
  IF limit = <<>> THEN page_default_nitems ELSE limit[1]

page_limit(limit) ==
  IF limit = <<>> THEN page_default_nitems
  ELSE IF limit[1] < page_max_nitems THEN limit[1] ELSE page_max_nitems

\* ResultsPage::new(): the token for the last item, if there is an item;
\* <<<<>>>> when the token cannot be serialised.
NextPage(items, sort) ==
  IF items = {} THEN <<>>
  ELSE LET last == CHOOSE p \in items : \A q \in items \ {p} :
                     Before(sort, Key(sort, q), Key(sort, p))
       IN  <<serialize_page_token(page_selector_for(last, sort))>>

ResultsPage(items, sort) ==
  LET next == NextPage(items, sort)
  IN  IF next = <<<<>>>> THEN Error(500)
      ELSE [status |-> 200, items |-> items,
            next_page |-> IF next = <<>> THEN <<>> ELSE next[1]]

\* deserialize_whichpage(): a page token wins over the scan parameters.
\* <<>> when the query does not parse.
WhichPage(query) ==
  IF query.page_token = <<>>
    THEN <<[which |-> "First",
            sort |-> IF query.sort = <<>> THEN default_project_sort ELSE query.sort[1]]>>
    ELSE LET selector == deserialize_page_token(query.page_token[1])
         IN  IF selector = <<>> THEN <<>>
             ELSE <<[which |-> "Next", sort |-> scan_params(selector[1]),
                     selector |-> selector[1]]>>

\* The projects that a page is taken from.
do_list(page) ==
  IF page.which = "First" THEN projects ELSE iter_from(page.selector)

\* The endpoint: the query is parsed, a page is taken and the token built.
example_list_projects ==
  /\ pc = "sent"
  /\ pc' = "received"
  /\ LET page == WhichPage(request)
     IN  IF ~LimitParses(request.limit) \/ page = <<>>
           THEN response' = Error(400)
           ELSE \E items \in SUBSET do_list(page[1]) :
                  /\ IsPage(items, do_list(page[1]), page_limit(request.limit),
                            page[1].sort)
                  /\ response' = ResultsPage(items, page[1].sort)
  /\ UNCHANGED <<projects, changes, request, seen, stable>>

-----------------------------------------------------------------------------
(* The client follows the tokens until a page has none.                    *)

Send(token, sort, limit) ==
  /\ request' = [page_token |-> token, sort |-> sort, limit |-> limit]
  /\ pc' = "sent"

FirstPage(sort, limit) ==
  /\ pc = "idle"
  /\ Send(<<>>, sort, limit)
  /\ stable' = {p.name : p \in projects}
  /\ UNCHANGED <<projects, changes, response, seen>>

\* A client resumes with a token it made up, or got from somebody else.
StrayPage(token, limit) ==
  /\ pc = "idle"
  /\ Send(<<token>>, <<>>, limit)
  /\ UNCHANGED <<projects, changes, response, seen, stable>>

iter_collection(limit) ==
  /\ pc = "received"
  /\ IF response.status # 200
       THEN pc' = "failed" /\ UNCHANGED <<request, seen>>
       ELSE /\ seen' = [n \in Names |->
                          IF (\E p \in response.items : p.name = n)
                            /\ seen[n] < 2
                            THEN seen[n] + 1 ELSE seen[n]]
            /\ IF response.next_page = <<>>
                 THEN pc' = "done" /\ UNCHANGED request
                 ELSE Send(response.next_page, request.sort, limit)
  /\ UNCHANGED <<projects, changes, response, stable>>

-----------------------------------------------------------------------------
(* Somebody else changes the collection.                                   *)

\* The sort of the scan under way.
ScanSort == LET page == WhichPage(request)
            IN  IF page = <<>> THEN default_project_sort ELSE page[1].sort

Change(S, moved) ==
  /\ changes < MaxChanges
  /\ changes' = changes + 1
  /\ projects' = S
  /\ stable' = stable \ moved
  /\ UNCHANGED <<request, response, pc, seen>>

Insert(p) ==
  /\ \A q \in projects : q.name # p.name
  /\ Change(projects \cup {p}, {})

Delete(p) == Change(projects \ {p}, {p.name})

Touch(p, mtime) ==
  /\ mtime # p.mtime
  /\ Change((projects \ {p}) \cup {[p EXCEPT !.mtime = mtime]},
            IF ScanSort.by = "MtimeName" THEN {p.name} ELSE {})

-----------------------------------------------------------------------------
Init ==
  /\ projects \in SUBSET Project
  /\ \A p, q \in projects : p.name = q.name => p = q
  /\ changes = 0
  /\ request = [page_token |-> <<>>, sort |-> <<>>, limit |-> <<>>]
  /\ response = Error(0)
  /\ pc = "idle"
  /\ seen = [n \in Names |-> 0]
  /\ stable = {}

Scan ==
  \/ \E sort \in {<<>>} \cup {<<s>> : s \in Sorts}, limit \in Limits : FirstPage(sort, limit)
  \/ \E limit \in Limits : iter_collection(limit)
  \/ example_list_projects

Writer ==
  \/ \E p \in Project : Insert(p)
  \/ \E p \in projects : Delete(p)
  \/ \E p \in projects, mtime \in Mtimes : Touch(p, mtime)

Next ==
  \/ Scan
  \/ \E token \in StrayTokens, limit \in Limits : StrayPage(token, limit)
  \/ Writer

Spec == Init /\ [][Next]_vars /\ WF_vars(example_list_projects)
             /\ WF_vars(\E limit \in Limits : iter_collection(limit))

-----------------------------------------------------------------------------
TypeOK ==
  /\ projects \subseteq Project
  /\ \A p, q \in projects : p.name = q.name => p = q
  /\ changes \in 0 .. MaxChanges
  /\ pc \in {"idle", "sent", "received", "done", "failed"}
  /\ seen \in [Names -> 0 .. 2]
  /\ stable \subseteq {p.name : p \in projects}
  /\ response.items \subseteq Project

\* The key of a name in a scan, for the sorts whose key cannot change.
NameKey(sort, n) == Key(sort, [name |-> n, mtime |-> 0])

\* The request has no token, or one that a server handed out.
FromStart == request.page_token # <<>> => request.page_token[1] \notin StrayTokens

\* "If the client scans all the way through the collection, they will see
\* every object that existed both before the scan and after the scan and was
\* not renamed during the scan" (pagination.rs:16-19), and exactly once,
\* whatever else happens to the collection meanwhile and in every sort order.
StableSeenOnce ==
  pc = "done" => \A n \in stable : seen[n] = 1

\* A scan by a key that never changes (name, id) returns no project twice,
\* even if projects are deleted and created again behind it: the range of
\* iter_from excludes everything up to the last project seen.
NoRepeats ==
  ScanSort.by # "MtimeName" => \A n \in Names : seen[n] <= 1

\* A client that only sends back tokens it was handed, with a valid limit, is
\* never told that its request is bad: "We apply this limit when we create
\* tokens to avoid handing out a token that can't be used"
\* (pagination.rs:384-385).
TokensUsable ==
  pc = "received" /\ FromStart /\ LimitParses(request.limit)
    => response.status # 400

\* The server never does more work for a page than its configured maximum
\* (handler.rs, page_limit()), whatever limit the client asks for.
PageBounded ==
  Cardinality(response.items) <=
    IF page_default_nitems > page_max_nitems
      THEN page_default_nitems ELSE page_max_nitems

\* Every token moves the scan strictly forward in its own order, so that no
\* chain of tokens leads back to where it has been.
TokensAdvance ==
  [][ \A t \in {request.page_token}, u \in {request'.page_token} :
        pc = "received" /\ pc' = "sent" /\ t # <<>> =>
          LET from == t[1].page_start[1]
              to   == u[1].page_start[1]
          IN  /\ scan_params(to) = scan_params(from)
              /\ Before(scan_params(from), from.key, to.key) ]_vars

\* Every scan comes to an end, whatever happens to the collection meanwhile.
ScanEnds == pc = "sent" ~> pc \in {"done", "failed"}

\* The promise of pagination.rs:16-19 to a client that scans a collection that
\* others change: nothing is missed, nothing comes twice.
ScanComplete == TypeOK /\ StableSeenOnce /\ NoRepeats

\* A server never hands out what it will not take back, nor more than it is
\* configured for, whatever it is asked (pagination.rs:384-385, 455-520,
\* handler.rs:194).
TokensSound == TokensUsable /\ PageBounded

\* Every token leads forward (pagination.rs:159), so that every scan ends,
\* whatever happens to the collection meanwhile.
ScanProgress == TokensAdvance /\ ScanEnds

=============================================================================
