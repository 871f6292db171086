---------------------------- MODULE SqueakPages ----------------------------
(***************************************************************************)
(* Lists of squeaks that are read page by page: the timeline, the squeaks  *)
(* of a profile and the results of a search.  A page is the first rows of  *)
(* a query below the position of the last entry the client has; the        *)
(* frontend appends the pages it gets to the list it shows.                *)
(*                                                                         *)
(* Rows come, go and start or stop to match while pages are under way,     *)
(* several requests may be under way for one list, and nothing in a reply  *)
(* says which request, or which query, it answers.                         *)
(***************************************************************************)
EXTENDS Ordering, SequencesExt

CONSTANTS
    Squeak,
    Profile,
    Text,        \* texts that are searched for
    Timeline,    \* the query of the timeline
    Query,       \* the queries that are used: of Timeline, Profile and Text
    Author,      \* Author[s]: the profile that wrote s
    Texts,       \* Texts[s]: the texts that the content of s contains
    Key,         \* Key[s]: its block height, time and hash
    Limit,       \* how many entries a page has at most
    None,
    Requests,    \* what users and the other parts of the node do
    Faults,      \* what goes wrong
    MaxFetches,  \* bound: how many pages are asked for
    MaxFaults    \* bound: how often it goes wrong

ASSUME QueryAssumption ==
    /\ Query \subseteq {Timeline} \cup Profile \cup Text
    /\ Timeline \notin Profile \cup Text /\ Profile \cap Text = {}
    /\ None \notin Query \cup Squeak

ASSUME SqueakAssumption ==
    /\ IsFiniteSet(Squeak)
    /\ Author \in [Squeak -> Profile]
    /\ Texts \in [Squeak -> SUBSET Text]
    /\ Key \in [Squeak -> Nat \X Nat \X Nat]
    /\ \A s, t \in Squeak : Key[s][3] = Key[t][3] => s = t

ASSUME EnvironmentAssumption ==
    /\ Requests \subseteq {"insert", "unlock", "remove", "delete", "follow", "edit"}
    /\ Faults \subseteq {"request"}
    /\ Limit \in Nat \ {0} /\ MaxFetches \in Nat /\ MaxFaults \in Nat

VARIABLES
    stored,     \* squeaks that have a row
    unlocked,   \* those that have a content
    following,  \* profiles that are followed
    shown,      \* timelineSqueaks, profileSqueaks and searchSqueaks
    loading,    \* the lists whose status is 'loading'
    query,      \* what each list was opened for, None if it was not
    searchText, \* the text in the search box
    deleting,   \* squeaks the user deleted whose reply is under way
    fetches,    \* requests for a page that are under way
    replies,    \* pages that are under way
    fetched,    \* number of requests so far
    opened,     \* number of the request that each opening of a list sent
    mixed,      \* lists that got the reply to another opening or query
    stable,     \* rows that have matched, undeleted, since the list was opened
    faults      \* number of faults so far

tables == <<stored, unlocked, following>>
slice == <<shown, loading, query, searchText, deleting>>
wire == <<fetches, replies, fetched, opened>>
vars == <<tables, slice, wire, mixed, stable, faults>>
-----------------------------------------------------------------------------
List == {"timeline", "profile", "search"}

ListOf(q) ==
    IF q = Timeline THEN "timeline" ELSE IF q \in Profile THEN "profile" ELSE "search"

Fetch == [id : 1..MaxFetches, query : Query \cup Text, last : Squeak \cup {None}]

TypeOK ==
    /\ stored \subseteq Squeak /\ unlocked \subseteq stored
    /\ following \subseteq Profile
    /\ shown \in [List -> Seq(Squeak)]
    /\ loading \subseteq List
    /\ query \in [List -> Query \cup {None}]
    /\ searchText \in Text \cup {None}
    /\ deleting \subseteq Squeak
    /\ fetches \subseteq Fetch
    /\ \A r \in replies : r.fetch \in Fetch /\ r.page \in Seq(Squeak)
    /\ fetched \in 0..MaxFetches
    /\ opened \in [List -> 0..MaxFetches]
    /\ mixed \subseteq List
    /\ stable \in [List -> SUBSET Squeak]
    /\ faults \in 0..MaxFaults
-----------------------------------------------------------------------------
(* The queries of the database.                                            *)

\* Tuples are compared as in SQL.
Less(a, b) ==
    \/ a[1] < b[1]
    \/ a[1] = b[1] /\ a[2] < b[2]
    \/ a[1] = b[1] /\ a[2] = b[2] /\ a[3] < b[3]

\* Mutant: the hash is left out of the comparison.
Below_NoHash(s, t) == Less(Key[s], [Key[t] EXCEPT ![3] = Key[s][3]])

\* Mutant: the last entry is not excluded.
Below_OrEqual(s, t) == ~Less(Key[t], Key[s])

Below(s, t) == Less(Key[s], Key[t])

Matches(q) ==
    {s \in stored :
        \/ q = Timeline /\ Author[s] \in following
        \/ q \in Profile /\ Author[s] = q
        \/ q \in Text /\ s \in unlocked /\ q \in Texts[s]}

Newer == {p \in Squeak \X Squeak : Less(Key[p[2]], Key[p[1]])}

\* WHERE, ORDER BY and LIMIT; last is None for the first page.
GetPage(q, last) ==
    FirstOf({s \in Matches(q) : last = None \/ Below(s, last)}, Newer, Limit)
-----------------------------------------------------------------------------
(* Changes of the tables.                                                  *)

\* What stays stable when the tables change.
StillMatching ==
    stable' = [l \in List |-> IF query[l] = None THEN {}
                                ELSE stable[l] \cap Matches(query[l])']

InsertSqueak(s) ==
    /\ "insert" \in Requests
    /\ stored' = stored \cup {s}
    /\ UNCHANGED <<unlocked, following, deleting>>

UnlockSqueak(s) ==
    /\ "unlock" \in Requests
    /\ s \in stored
    /\ unlocked' = unlocked \cup {s}
    /\ UNCHANGED <<stored, following, deleting>>

\* Mutant: the content is kept.
RemoveRow_KeepsContent(s) ==
    /\ "remove" \in Requests
    /\ stored' = stored \ {s}
    /\ UNCHANGED <<unlocked, following, deleting>>

\* Retention, or another client.
RemoveRow(s) ==
    /\ "remove" \in Requests
    /\ stored' = stored \ {s}
    /\ unlocked' = unlocked \ {s}
    /\ UNCHANGED <<following, deleting>>

\* The user deletes a squeak that one of the lists shows; the reply is under way.
DeleteSqueak(s) ==
    /\ "delete" \in Requests
    /\ \E l \in List : s \in Range(shown[l])
    /\ stored' = stored \ {s}
    /\ unlocked' = unlocked \ {s}
    /\ deleting' = deleting \cup {s}
    /\ UNCHANGED following

SetProfileFollowing(p, on) ==
    /\ "follow" \in Requests
    /\ following' = IF on THEN following \cup {p} ELSE following \ {p}
    /\ UNCHANGED <<stored, unlocked, deleting>>

Statement ==
    /\ \/ \E s \in Squeak :
            InsertSqueak(s) \/ UnlockSqueak(s) \/ RemoveRow(s) \/ DeleteSqueak(s)
       \/ \E p \in Profile, on \in BOOLEAN : SetProfileFollowing(p, on)
    /\ UNCHANGED <<shown, loading, query, searchText, wire, mixed, faults>>
    /\ StillMatching
-----------------------------------------------------------------------------
(* The frontend.                                                           *)

Send(q, last) ==
    /\ fetched < MaxFetches
    /\ fetched' = fetched + 1
    /\ fetches' = fetches \cup {[id |-> fetched + 1, query |-> q, last |-> last]}
    /\ loading' = loading \cup {ListOf(q)}
    /\ UNCHANGED replies

\* Mutant: the list is not cleared.
Open_NotCleared(q) ==
    LET l == ListOf(q)
    IN  /\ Send(q, None)
        /\ query' = [query EXCEPT ![l] = q]
        /\ opened' = [opened EXCEPT ![l] = fetched + 1]
        /\ mixed' = mixed \ {l}
        /\ stable' = [stable EXCEPT ![l] = Matches(q)]
        /\ searchText' = IF q \in Text THEN q ELSE searchText
        /\ UNCHANGED <<shown, tables, deleting, faults>>

\* The page is opened: its list is cleared and the first entries are fetched,
\* whatever is still under way.
Open(q) ==
    LET l == ListOf(q)
    IN  /\ Send(q, None)
        /\ shown' = [shown EXCEPT ![l] = <<>>]
        /\ query' = [query EXCEPT ![l] = q]
        /\ opened' = [opened EXCEPT ![l] = fetched + 1]
        /\ mixed' = mixed \ {l}
        /\ stable' = [stable EXCEPT ![l] = Matches(q)]
        /\ searchText' = IF q \in Text THEN q ELSE searchText
        /\ UNCHANGED <<tables, deleting, faults>>

EditSearchText(x) ==
    /\ "edit" \in Requests
    /\ query["search"] # None
    /\ searchText' = x
    /\ UNCHANGED <<tables, shown, loading, query, deleting, wire, mixed, stable, faults>>

\* LOAD MORE is there unless the list is loading.  A search goes on with the
\* text that is in the box by now.
LoadMore(l) ==
    /\ query[l] # None
    /\ l \notin loading
    /\ Send(IF l = "search" THEN searchText ELSE query[l],
            IF shown[l] = <<>> THEN None ELSE Last(shown[l]))
    /\ UNCHANGED <<tables, shown, query, searchText, deleting, opened, mixed, stable, faults>>

\* The server runs the query.
Answer(f) ==
    /\ fetches' = fetches \ {f}
    /\ replies' = replies \cup {[fetch |-> f, page |-> GetPage(f.query, f.last)]}
    /\ UNCHANGED <<tables, slice, fetched, opened, mixed, stable, faults>>

\* The reply is appended to whatever the list is now.
Fulfilled(r) ==
    LET l == ListOf(r.fetch.query)
    IN  /\ replies' = replies \ {r}
        /\ shown' = [shown EXCEPT ![l] = @ \o r.page]
        /\ loading' = loading \ {l}
        /\ mixed' = IF r.fetch.id < opened[l] \/ r.fetch.query # query[l]
                    THEN mixed \cup {l} ELSE mixed
        /\ UNCHANGED <<tables, query, searchText, deleting, fetches, fetched, opened, stable,
                       faults>>

\* The reply to a deletion: the squeak is taken off every list.
RemoveDeleted(s) ==
    /\ s \in deleting
    /\ deleting' = deleting \ {s}
    /\ shown' = [l \in List |-> Without(shown[l], s)]
    /\ stable' = [l \in List |-> stable[l] \ {s}]
    /\ UNCHANGED <<tables, loading, query, searchText, wire, mixed, faults>>

\* A request that fails is not handled: the list goes on loading.
FetchFails(f) ==
    /\ "request" \in Faults /\ faults < MaxFaults
    /\ fetches' = fetches \ {f}
    /\ faults' = faults + 1
    /\ UNCHANGED <<tables, slice, replies, fetched, opened, mixed, stable>>
-----------------------------------------------------------------------------
Init ==
    /\ stored \in SUBSET Squeak /\ unlocked \in SUBSET stored
    /\ following \in SUBSET Profile
    /\ shown = [l \in List |-> <<>>]
    /\ loading = {}
    /\ query = [l \in List |-> None]
    /\ searchText = None
    /\ deleting = {}
    /\ fetches = {} /\ replies = {} /\ fetched = 0
    /\ opened = [l \in List |-> 0]
    /\ mixed = {}
    /\ stable = [l \in List |-> {}]
    /\ faults = 0

Next ==
    \/ Statement
    \/ \E q \in Query : Open(q)
    \/ \E x \in Text : EditSearchText(x)
    \/ \E l \in List : LoadMore(l)
    \/ \E f \in fetches : Answer(f) \/ FetchFails(f)
    \/ \E r \in replies : Fulfilled(r)
    \/ \E s \in Squeak : RemoveDeleted(s)

Spec == Init /\ [][Next]_vars
-----------------------------------------------------------------------------
(* Safety.                                                                 *)

\* Rows come and go between the pages, but a list never shows a squeak twice
\* nor out of order, however many are made in one block or second, unless a
\* reply to another opening or search got into it.
ListsInOrder ==
    \A l \in List \ mixed : \A i, j \in 1..Len(shown[l]) :
        i < j => Less(Key[shown[l][j]], Key[shown[l][i]])

\* Under the same condition no squeak is left out: one that has matched ever
\* since the list was opened, and was not deleted by the user, is shown if a
\* later one is.
ListsHaveNoGaps ==
    \A l \in List \ mixed : \A s \in stable[l] :
        (\E t \in Range(shown[l]) : Less(Key[t], Key[s])) => s \in Range(shown[l])
=============================================================================
