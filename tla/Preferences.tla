----------------------------- MODULE Preferences -----------------------------
(***************************************************************************)
(* One account's preferences, src/app/services/preferences.py: sign-ins    *)
(* create the profile and seed its lists, patches replace lists.  Requests *)
(* run statement by statement under READ COMMITTED: a statement sees what  *)
(* was committed when it began and waits for rows that another open        *)
(* transaction has written.                                                *)
(***************************************************************************)
EXTENDS Sequences, FiniteSets

CONSTANTS
    Callers,        \* the requests in flight at once
    Lists,          \* the lists of a profile, in the order apply_patch takes them
    Defaults,       \* the terms each list is seeded with
    Scalar,         \* the values of a scalar preference; one of them is the default
    DefaultScalar,
    Patches,        \* list name -> terms asked for, and perhaps a new scalar
    Unusable        \* terms a list refuses: unknown, disabled, empty or over-long

ListNames == {Lists[i] : i \in DOMAIN Lists}

ASSUME PreferencesAssumption ==
    /\ Lists \in Seq(ListNames) /\ {"users", "user_preferences"} \cap ListNames = {}
    /\ DefaultScalar \in Scalar
    /\ DOMAIN Defaults = ListNames
    /\ \A p \in Patches : DOMAIN p.lists \subseteq ListNames /\ p.scalars \subseteq Scalar

(* A row of the account: its users row, its profile row, or a row of one of its lists. *)
UserRow == <<"users", "">>
ProfileRow == <<"user_preferences", "">>
Rows(list, terms) == {list} \X terms

VARIABLES
    committed,      \* the rows every new statement sees
    scalar,         \* the committed scalar preference
    calls           \* the requests and their open transactions

prefVars == <<committed, scalar, calls>>

(* An open transaction: the rows it has inserted and deleted, the versions of rows a running
   DELETE is after, and the new scalar, if its UPDATE has been sent.  "loaded" is the scalar
   the session read.  History: the rows that other requests committed since the DELETE of
   their list began, and those that others removed. *)
Transaction(kind, patch, pc) ==
    [kind |-> kind, patch |-> patch, pc |-> pc, todo |-> Lists, loaded |-> DefaultScalar,
     inserted |-> {}, deleted |-> {}, targets |-> {}, updated |-> {},
     came |-> {}, went |-> {}]

NoPatch == [lists |-> <<>>, scalars |-> {}]
Closed == Transaction("none", NoPatch, "closed")

PrefInit ==
    /\ committed = {}
    /\ scalar = DefaultScalar
    /\ calls = [c \in Callers |-> Closed]

-----------------------------------------------------------------------------
At(c, pc) == calls[c].pc = pc
Others(c) == Callers \ {c}

(* What a statement of c's sees. *)
Sees(c) == (committed \ calls[c].deleted) \cup calls[c].inserted

(* No other open transaction has inserted or deleted any of these rows. *)
FreeToInsert(c, rows) ==
    \A d \in Others(c) : rows \cap (calls[d].inserted \cup calls[d].deleted) = {}
FreeToDelete(c, rows) == \A d \in Others(c) : rows \cap calls[d].deleted = {}

(* INSERT ... ON CONFLICT DO NOTHING. *)
InsertIgnore(c, rows, pc) ==
    /\ FreeToInsert(c, rows)
    /\ calls' = [calls EXCEPT ![c].inserted = @ \cup (rows \ Sees(c)), ![c].pc = pc]
    /\ UNCHANGED <<committed, scalar>>

(* The transaction's rows become visible.  The versions it deleted are dead for the DELETEs
   that wait for them: a row it has written again is another version, and came. *)
CommitAs(c, rows) ==
    /\ committed' = rows
    /\ scalar' = IF calls[c].updated = {} THEN scalar ELSE CHOOSE v \in calls[c].updated : TRUE
    /\ calls' = [d \in Callers |->
         IF d = c THEN Closed
         ELSE IF At(d, "closed") THEN calls[d]
         ELSE [calls[d] EXCEPT !.targets = @ \ calls[c].deleted,
                               !.came = @ \cup calls[c].inserted,
                               !.went = @ \cup (committed \ rows)]]

Commit(c) == At(c, "commit") /\ CommitAs(c, Sees(c))

(* A refused patch is rolled back (422); a lost connection, a deadlock or a dying process
   rolls any transaction back. *)
Rollback(c) == calls' = [calls EXCEPT ![c] = Closed] /\ UNCHANGED <<committed, scalar>>
Fail(c) == ~ At(c, "closed") /\ Rollback(c)

-----------------------------------------------------------------------------
(* complete_sign_in: ON CONFLICT DO UPDATE, so the users row is locked until commit,
   also when it is not new.  A locked row is kept as deleted and inserted again. *)
StartSignIn(c) ==
    /\ At(c, "closed")
    /\ FreeToInsert(c, {UserRow})
    /\ calls' = [calls EXCEPT ![c] =
         [Transaction("sign-in", NoPatch, "look") EXCEPT
            !.inserted = {UserRow}, !.deleted = committed \cap {UserRow}]]
    /\ UNCHANGED <<committed, scalar>>

(* PATCH /me/preferences, for a user whose session was found. *)
StartPatch(c) ==
    /\ At(c, "closed")
    /\ UserRow \in committed
    /\ \E p \in Patches : calls' = [calls EXCEPT ![c] = Transaction("patch", p, "look")]
    /\ UNCHANGED <<committed, scalar>>

FoundNever(c) == FALSE

(* The profile row gates the seeding. *)
Found(c) == ProfileRow \in Sees(c)

LookUp(c) ==
    /\ At(c, "look")
    /\ calls' = [calls EXCEPT
         ![c].pc = IF ~ Found(c) THEN "create"
                   ELSE IF calls[c].kind = "patch" THEN "scalars" ELSE "commit",
         ![c].loaded = scalar]
    /\ UNCHANGED <<committed, scalar>>

Create(c) == At(c, "create") /\ InsertIgnore(c, {ProfileRow}, "seed")

(* Every list with defaults is seeded in the transaction that made the profile. *)
Seeded(c) ==
    InsertIgnore(c, UNION {Rows(l, Defaults[l]) : l \in ListNames},
                 IF calls[c].kind = "patch" THEN "scalars" ELSE "commit")

Seed(c) == At(c, "seed") /\ Seeded(c)

(* The attributes of the profile that the patch changes, as the session loaded them,
   are sent as one UPDATE before the next query: it holds the row until commit. *)
SetScalars(c) ==
    LET changed == calls[c].patch.scalars \ {calls[c].loaded} IN
    /\ At(c, "scalars")
    /\ changed # {} => \A d \in Others(c) : calls[d].updated = {}
    /\ calls' = [calls EXCEPT ![c].updated = changed, ![c].pc = "lists"]
    /\ UNCHANGED <<committed, scalar>>

-----------------------------------------------------------------------------
Asked(c) == calls[c].patch.lists[Head(calls[c].todo)]

(* A list the patch does not name is left alone. *)
PassList(c) ==
    /\ At(c, "lists") /\ calls[c].todo # <<>>
    /\ Head(calls[c].todo) \notin DOMAIN calls[c].patch.lists
    /\ calls' = [calls EXCEPT ![c].todo = Tail(@)]
    /\ UNCHANGED <<committed, scalar>>

AsksUnusable(c) == Asked(c) \cap Unusable # {}

(* A term the list refuses undoes the whole patch, the lists before it included. *)
RefuseList(c) ==
    /\ At(c, "lists") /\ calls[c].todo # <<>>
    /\ Head(calls[c].todo) \in DOMAIN calls[c].patch.lists
    /\ AsksUnusable(c)
    /\ Rollback(c)

TargetsAll(c) == Sees(c) \ {UserRow, ProfileRow}

(* The DELETE of a list's rows: user_muted_terms holds three lists, told apart by kind. *)
Targets(c) == {row \in Sees(c) : row[1] = Head(calls[c].todo)}

StartDelete(c) ==
    /\ At(c, "lists") /\ calls[c].todo # <<>>
    /\ Head(calls[c].todo) \in DOMAIN calls[c].patch.lists
    /\ ~ AsksUnusable(c)
    /\ calls' = [calls EXCEPT ![c].targets = Targets(c), ![c].pc = "delete",
                              ![c].came = {row \in @ : row[1] # Head(calls[c].todo)}]
    /\ UNCHANGED <<committed, scalar>>

(* The DELETE waits for transactions that have deleted one of its rows, and passes over
   what they deleted.  Rows that were committed after it began are not seen, those written
   again in place of a deleted one included. *)
EndDelete(c) ==
    LET targets == calls[c].targets IN
    /\ At(c, "delete")
    /\ FreeToDelete(c, targets)
    /\ calls' = [calls EXCEPT
         ![c].deleted = @ \cup (targets \cap committed), ![c].inserted = @ \ targets,
         ![c].targets = {}, ![c].pc = "insert"]
    /\ UNCHANGED <<committed, scalar>>

Insert(c) ==
    LET rows == Rows(Head(calls[c].todo), Asked(c)) IN
    /\ At(c, "insert")
    /\ FreeToInsert(c, rows)
    /\ calls' = [calls EXCEPT ![c].inserted = @ \cup (rows \ Sees(c)),
                              ![c].todo = Tail(@), ![c].pc = "lists"]
    /\ UNCHANGED <<committed, scalar>>

EndPatch(c) ==
    /\ At(c, "lists") /\ calls[c].todo = <<>>
    /\ calls' = [calls EXCEPT ![c].pc = "commit"]
    /\ UNCHANGED <<committed, scalar>>

PrefNext ==
    \E c \in Callers :
        \/ StartSignIn(c) \/ StartPatch(c) \/ LookUp(c) \/ Create(c) \/ Seed(c)
        \/ SetScalars(c) \/ PassList(c) \/ RefuseList(c)
        \/ StartDelete(c) \/ EndDelete(c) \/ Insert(c) \/ EndPatch(c)
        \/ Commit(c) \/ Fail(c)

PrefSpec == PrefInit /\ [][PrefNext]_prefVars

-----------------------------------------------------------------------------
ListOf(list, rows) == {row \in rows : row[1] = list}

(* apply_patch replaces whole lists ("Absent fields are untouched"): after a patch, a list
   it named holds what it asked for, but for rows that others wrote, or wrote again, after
   its DELETE of that list began, and rows that others removed while it was open; a list it
   did not name is as it was. *)
PatchReplacesItsLists ==
    [][\A c \in Callers : Commit(c) /\ calls[c].kind = "patch" =>
        \A l \in ListNames :
            LET lists == calls[c].patch.lists IN
            IF l \in DOMAIN lists
            THEN LET asked == Rows(l, lists[l]) IN
                 /\ ListOf(l, committed') \ asked \subseteq calls[c].came
                 /\ asked \ committed' \subseteq calls[c].went
            ELSE ListOf(l, committed') = ListOf(l, committed)]_prefVars

(* _get_or_create_profile seeds once ("Seeding defaults a second time would resurrect
   selections the user deliberately cleared"): an account appears with its profile and
   exactly its defaults, and no later sign-in adds a row to a list. *)
SeededExactlyOnce ==
    [][\A c \in Callers : Commit(c) /\ calls[c].kind = "sign-in" =>
        committed' =
            IF UserRow \in committed THEN committed
            ELSE {UserRow, ProfileRow} \cup UNION {Rows(l, Defaults[l]) : l \in ListNames}]_prefVars
=============================================================================
