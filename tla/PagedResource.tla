---------------------------- MODULE PagedResource ----------------------------
(***************************************************************************)
(* The client's list that grows page by page,                              *)
(* src/frontend/src/data/usePagedResource.ts, while filters change, the    *)
(* list is reloaded, answers come in any order and clicks reach handlers   *)
(* of the last render.  React applies updates in order, renders when it    *)
(* likes, and runs effects after the render and before the next one.       *)
(***************************************************************************)
EXTENDS Naturals, Sequences, FiniteSets

CONSTANTS
    Screens,        \* the filters; "off" is the hook that is not enabled
    Pages,          \* how many pages the listing of a filter has
    NoMore,         \* the null cursor
    MaxSteps        \* bound: changes of the filter, reloads and requests

ASSUME PagedAssumption ==
    Pages \in Nat \ {0} /\ "off" \in Screens /\ NoMore \notin Nat /\ MaxSteps \in Nat

VARIABLES
    wanted,         \* the cache key that the next render has: a reload token and a filter
    state,          \* the hook's state after every update so far
    view,           \* the state that the handlers of the last render have captured
    effects,        \* the cache key whose effects have run
    requests,       \* the requests that are not aborted or whose answer is still to come
    more,           \* loadMoreControllerRef, the id of a request
    removals,       \* removals from the list that have been clicked, by cache key
    gone,           \* history: removals that were applied
    steps

pagedVars == <<wanted, state, view, effects, requests, more, removals, gone, steps>>

(* Page p of a filter; an item can move over the end of a page and be on both. *)
Page(key, p) == <<[of |-> key.screen, id |-> p], [of |-> key.screen, id |-> p + 1]>>

FreshState(key) ==
    [key |-> key, entries |-> <<>>, next |-> NoMore, loading |-> FALSE,
     status |-> IF key.screen = "off" THEN "ready" ELSE "loading"]

NoRequest == 0
Unmounted == [token |-> 0, screen |-> "off"]

PagedInit ==
    /\ wanted = Unmounted /\ effects = Unmounted
    /\ state = FreshState(Unmounted) /\ view = FreshState(Unmounted)
    /\ requests = {} /\ more = NoRequest
    /\ removals = {} /\ gone = {} /\ steps = 0

-----------------------------------------------------------------------------
Counted == steps < MaxSteps /\ steps' = steps + 1

ChangeFilter ==
    /\ Counted
    /\ \E s \in Screens \ {wanted.screen} : wanted' = [wanted EXCEPT !.screen = s]
    /\ UNCHANGED <<state, view, effects, requests, more, removals, gone>>

Reload ==
    /\ Counted
    /\ wanted' = [wanted EXCEPT !.token = @ + 1]
    /\ UNCHANGED <<state, view, effects, requests, more, removals, gone>>

(* State of another key is replaced while rendering. *)
Render ==
    /\ effects = view.key
    /\ view # state \/ view.key # wanted
    /\ state' = IF state.key = wanted THEN state ELSE FreshState(wanted)
    /\ view' = state'
    /\ UNCHANGED <<wanted, effects, requests, more, removals, gone, steps>>

Aborted(all) == {[r EXCEPT !.aborted = TRUE] : r \in all}

(* The clean-ups of the key before, which abort its first page and the one that "more" names,
   and the effect that asks for the first page of this key. *)
RunEffects ==
    LET key == view.key
        ends(r) == r.page = 1 \/ r.id = more
        first == [id |-> steps', key |-> key, page |-> 1, aborted |-> FALSE] IN
    /\ effects # key
    /\ Counted
    /\ effects' = key
    /\ more' = NoRequest
    /\ requests' = {r \in requests : ~ ends(r)} \cup Aborted({r \in requests : ends(r)})
                   \cup (IF key.screen = "off" THEN {} ELSE {first})
    /\ UNCHANGED <<wanted, state, view, removals, gone>>

SetAlways(key, new) == state' = new

(* An update made by code that was created for this key is dropped under another. *)
Set(key, new) == state' = IF state.key = key THEN new ELSE state

LoadMore ==
    /\ view.next # NoMore /\ ~ view.loading /\ more = NoRequest
    /\ Counted
    /\ more' = steps'
    /\ requests' = requests \cup
         {[id |-> steps', key |-> view.key, page |-> view.next, aborted |-> FALSE]}
    /\ Set(view.key, [state EXCEPT !.loading = TRUE])
    /\ UNCHANGED <<wanted, view, effects, removals, gone>>

Forgotten(r) == IF more = r.id THEN NoRequest ELSE more

(* The entries but for those of these ids, in the order they are in. *)
Without(entries, ids) ==
    LET stay == {i \in DOMAIN entries : entries[i].id \notin ids}
        place == CHOOSE f \in [1..Cardinality(stay) -> stay] :
                   \A m, n \in DOMAIN f : m < n => f[m] < f[n] IN
    [n \in 1..Cardinality(stay) |-> entries[place[n]]]

MergeUnique(entries, page) ==
    LET shown == {entries[i].id : i \in DOMAIN entries} IN
    entries \o Without(page, shown)

Ignored(r) == r.aborted

Answer(r) ==
    LET page == Page(r.key, r.page)
        next == IF r.page = Pages THEN NoMore ELSE r.page + 1 IN
    /\ requests' = requests \ {r}
    /\ more' = Forgotten(r)
    /\ IF Ignored(r) THEN UNCHANGED state
       ELSE IF r.page = 1
       THEN Set(r.key, [state EXCEPT !.entries = page, !.next = next, !.status = "ready"])
       ELSE Set(r.key, [state EXCEPT !.entries = MergeUnique(@, page), !.next = next,
                                     !.loading = FALSE])
    /\ UNCHANGED <<wanted, view, effects, removals, gone, steps>>

(* A failed request, the rejection of an aborted one included. *)
FailAnswer(r) ==
    /\ requests' = requests \ {r}
    /\ more' = Forgotten(r)
    /\ IF Ignored(r) THEN UNCHANGED state
       ELSE IF r.page = 1 THEN Set(r.key, [state EXCEPT !.status = "error"])
       ELSE Set(r.key, [state EXCEPT !.loading = FALSE])
    /\ UNCHANGED <<wanted, view, effects, removals, gone, steps>>

(* A card of the last render is removed when the mutation it starts has been answered. *)
ClickRemove ==
    /\ Counted
    /\ \E i \in DOMAIN view.entries :
         removals' = removals \cup {[key |-> view.key, id |-> view.entries[i].id]}
    /\ UNCHANGED <<wanted, state, view, effects, requests, more, gone>>

RemoveEntry(m) ==
    /\ removals' = removals \ {m}
    /\ gone' = gone \cup {m}
    /\ Set(m.key, [state EXCEPT !.entries = Without(@, {m.id})])
    /\ UNCHANGED <<wanted, view, effects, requests, more, steps>>

(* The page is left: all is aborted, and nothing listens any more. *)
Unmount ==
    /\ wanted' = Unmounted /\ effects' = Unmounted
    /\ state' = FreshState(Unmounted) /\ view' = FreshState(Unmounted)
    /\ requests' = {} /\ more' = NoRequest
    /\ removals' = {} /\ gone' = {} /\ steps' = 0

PagedNext ==
    \/ ChangeFilter \/ Reload \/ Render \/ RunEffects \/ LoadMore \/ ClickRemove \/ Unmount
    \/ \E r \in requests : Answer(r) \/ FailAnswer(r)
    \/ \E m \in removals : RemoveEntry(m)

PagedSpec == PagedInit /\ [][PagedNext]_pagedVars

-----------------------------------------------------------------------------
Loaded == IF state.next = NoMore THEN Pages ELSE state.next - 1

(* usePagedResource ("a response from a superseded filter set is discarded rather than
   rendered, and merging by id keeps a duplicate ... from appearing twice"): the list holds
   entries of its own filter only, each once, and all of the pages up to its cursor but for
   those the reader removed; it says it is loading more only while a live request is; and
   of those there is one at most. *)
ListIsOfOneListing ==
    LET entries == state.entries
        ids == {entries[i].id : i \in DOMAIN entries}
        live == {r \in requests : r.page > 1 /\ ~ r.aborted} IN
    /\ \A i \in DOMAIN entries : entries[i].of = state.key.screen
    /\ Cardinality(ids) = Len(entries)
    /\ state.status = "ready" /\ state.key.screen # "off" =>
          /\ ids \subseteq 1..(Loaded + 1)
          /\ \A id \in 1..(Loaded + 1) : id \in ids \/ \E m \in gone : m.id = id /\ m.key = state.key
    /\ state.loading => \E r \in live : r.key = state.key
    /\ Cardinality(live) <= 1
=============================================================================
