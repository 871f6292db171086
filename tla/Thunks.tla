------------------------------- MODULE Thunks -------------------------------
(***************************************************************************)
(* How the web frontend talks to its node: the asynchronous actions        *)
(* (createAsyncThunk) that the slices of the redux store are made of.      *)
(*                                                                         *)
(* A dispatched thunk makes its requests one after the other; the node     *)
(* runs each of them at some later time, and the last reply is handed to   *)
(* the reducers of the slice at some later time again.  Thunks that were   *)
(* dispatched together, or one after the other, overtake each other.  A    *)
(* request fails when the node raises, or when the connection does.        *)
(***************************************************************************)
EXTENDS Integers, FiniteSets, SequencesExt

CONSTANTS
    None,
    Error,       \* the reply of a request that failed
    Views,       \* the parts of the frontend that are followed, sets of thunks; bounds:
                 \* Views[v].acts is how many acts of the user dispatch thunks of v,
                 \* Views[v].faults how many requests the connection loses
    MaxCalls     \* bound: how many calls may be under way at an act of the user

ASSUME ThunksAssumption ==
    /\ Views \in [DOMAIN Views -> [acts : Nat, faults : Nat]]
    /\ MaxCalls \in Nat /\ None # Error

VARIABLES
    view,      \* the thunks that this behaviour follows, no other is dispatched
    calls,     \* thunks that are under way
    loading,   \* the status fields of the slices that are 'loading'
    events,    \* number of acts of the user so far
    faults,    \* number of requests lost so far
    doubt,     \* fields of the slices that overlapping calls may have made stale
    crashed    \* status fields left by a reducer that threw

thunkVars == <<view, calls, loading, events, faults, doubt, crashed>>

\* A thunk: its argument, the requests it makes with theirs, and its status field.
Read(thunk, arg, requests, status) ==
    [thunk |-> thunk, arg |-> arg, todo |-> requests, status |-> status, writes |-> FALSE]

\* A thunk that changes what the node has.
Write(thunk, arg, requests, status) ==
    [thunk |-> thunk, arg |-> arg, todo |-> requests, status |-> status, writes |-> TRUE]
-----------------------------------------------------------------------------
Followed(D) == {d \in D : d.thunk \in view}

\* Calls overlap when one is dispatched before the other is done; one that
\* overlaps with a call that writes is crossed, its reply may be out of date.
Started(d, id, rest) ==
    [thunk |-> d.thunk, arg |-> d.arg, todo |-> d.todo, status |-> d.status,
     writes |-> d.writes, id |-> id, reply |-> None,
     crossed |-> \E c \in rest : c.writes]

Begin(D, id, rest) ==
    {[c EXCEPT !.crossed = @ \/ \E d \in Followed(D) : d.writes] : c \in rest}
        \cup {Started(d, id, rest) : d \in Followed(D)}

Pending(D) == {d.status : d \in Followed(D)} \ {None}

\* An act of the user, or the mounting of a page, dispatches the thunks D.
Dispatch(D) ==
    /\ events < Views[view].acts /\ Cardinality(calls) <= MaxCalls
    /\ events' = events + 1
    /\ calls' = Begin(D, events + 1, calls)
    /\ loading' = loading \cup Pending(D)
    /\ UNCHANGED <<view, faults, crashed>>

\* The calls that a slice and its part of the node have to do with.
Of(thunks) == {c \in calls : c.thunk \in thunks}

\* The next request of c is the given one.
At(c, request) == c.todo # <<>> /\ Head(c.todo)[1] = request

Argument(c) == Head(c.todo)[2]

Replace(c, d) == calls' = (calls \ {c}) \cup {d}

Answer(c, reply) == Replace(c, [c EXCEPT !.todo = Tail(@), !.reply = reply])

\* The node raises, or the reply is not OK: the promise is rejected.
Refuse(c) == Replace(c, [c EXCEPT !.todo = <<>>, !.reply = Error])

\* The connection fails, before or after the node ran the request.
Lose(c) ==
    /\ faults < Views[view].faults /\ c.reply # Error
    /\ faults' = faults + 1
    /\ Refuse(c)
    /\ UNCHANGED <<view, loading, events, doubt, crashed>>

\* The reply of the last request is there.
Done(c, thunk) == c.thunk = thunk /\ c.todo = <<>> /\ c.reply # Error

\* The call is over and its status field idle, D is dispatched by its `then'.
Settle(c, D) ==
    /\ calls' = Begin(D, c.id, calls \ {c})
    /\ loading' = (loading \ {c.status}) \cup Pending(D)
    /\ UNCHANGED <<view, events, faults, crashed>>

\* The reducer throws: the slice, its status field too, stays as it was.
Crash(c) ==
    /\ calls' = calls \ {c}
    /\ crashed' = crashed \cup {c.status}
    /\ UNCHANGED <<view, loading, events, faults>>

\* A thunk fails; the slice has a case for it (its status gets idle) or
\* has none.  The fields that it would have changed stay as they are.
Rejected(c, hasCase, fields) ==
    /\ c.reply = Error
    /\ calls' = calls \ {c}
    /\ loading' = IF hasCase THEN loading \ {c.status} ELSE loading
    /\ doubt' = doubt \cup fields
    /\ UNCHANGED <<view, events, faults, crashed>>

\* What a reply does to the fields it goes to: one that it replaces is as true
\* as the reply, one that it updates stays in doubt.
Replaces(c, field) ==
    doubt' = IF c.crossed THEN doubt \cup {field} ELSE doubt \ {field}

Updates(c, fields) == doubt' = IF c.crossed THEN doubt \cup fields ELSE doubt
-----------------------------------------------------------------------------
ThunksInit ==
    /\ view \in DOMAIN Views
    /\ calls = {} /\ loading = {}
    /\ events = 0 /\ faults = 0
    /\ doubt = {} /\ crashed = {}

ThunksTypeOK ==
    /\ view \in DOMAIN Views
    /\ \A c \in calls :
        /\ c.thunk \in view /\ c.id \in 1..events
        /\ c.writes \in BOOLEAN /\ c.crossed \in BOOLEAN
    /\ \A c, d \in calls : c.id = d.id /\ c.thunk = d.thunk => c = d
    /\ events \in 0..Views[view].acts /\ faults \in 0..Views[view].faults
    /\ None \notin loading
=============================================================================
