------------------------- MODULE Transactions_proofs -------------------------
(***************************************************************************)
(* The requests that change preferences and the commands that change the   *)
(* catalogue, for any lists, patches, callers, seeds, commands and         *)
(* operators: transactions under READ COMMITTED that hold row locks until  *)
(* they end.                                                               *)
(***************************************************************************)
EXTENDS Preferences, Catalogue, TLAPS, SequenceTheorems

(* What a transaction sees, if these rows are committed.                   *)
View(rs, t) == (rs \ t.deleted) \cup t.inserted

(* Row locks: no two open transactions have written the same row.          *)
Apart(t, u) ==
  /\ t.inserted \cap (u.inserted \cup u.deleted) = {}
  /\ t.deleted \cap (u.inserted \cup u.deleted) = {}

-----------------------------------------------------------------------------
(***************************************************************************)
(* Preferences.                                                            *)
(***************************************************************************)

(* What the tables may hold: the account, its defaults and what patches    *)
(* ask for.                                                                *)
SeedAll == UNION {Rows(l, Defaults[l]) : l \in ListNames}
AskedOf(p) == UNION {Rows(l, p.lists[l]) : l \in DOMAIN p.lists}
PrefRows == {UserRow, ProfileRow} \cup SeedAll \cup UNION {AskedOf(p) : p \in Patches}

PatchSteps == {"look", "scalars", "lists", "delete", "insert", "commit"}

Tx == [kind : {"none", "sign-in", "patch"}, patch : Patches \cup {NoPatch},
       pc : PatchSteps \cup {"closed", "create", "seed"}, todo : Seq(ListNames),
       loaded : Scalar, inserted : SUBSET PrefRows, deleted : SUBSET PrefRows,
       targets : SUBSET PrefRows, updated : SUBSET Scalar,
       came : SUBSET PrefRows, went : SUBSET PrefRows]

(* Nothing is there before the account is, and its profile is there with   *)
(* it.                                                                     *)
Account(rs) == rs = {} \/ {UserRow, ProfileRow} \subseteq rs

(* A sign-in of a known account only locks its row; that of a new one has  *)
(* written what its program counter says, and nobody else anything.        *)
SignInTx(rs, t) ==
  /\ t.targets = {}
  /\ UserRow \in rs => /\ t.deleted = {UserRow} /\ t.inserted = {UserRow}
                         /\ t.pc \in {"look", "commit"}
  /\ UserRow \notin rs =>
       /\ t.deleted = {}
       /\ \/ t.pc \in {"look", "create"} /\ t.inserted = {UserRow}
          \/ t.pc = "seed" /\ t.inserted = {UserRow, ProfileRow}
          \/ t.pc = "commit" /\ t.inserted = {UserRow, ProfileRow} \cup SeedAll

Replaced(rs, t, l) ==
  /\ ListOf(l, View(rs, t)) \ Rows(l, t.patch.lists[l]) \subseteq t.came
  /\ Rows(l, t.patch.lists[l]) \ View(rs, t) \subseteq t.went

Touched(t) == t.inserted \cup t.deleted \cup t.targets

(* A patch touches rows of the lists it names; those that are not on its   *)
(* list of things to do any more are replaced, but for what came and went. *)
PatchTx(rs, t) ==
  /\ UserRow \in rs /\ t.patch \in Patches /\ t.pc \in PatchSteps
  /\ \A row \in Touched(t) : row[1] \in DOMAIN t.patch.lists
  /\ t.pc = "commit" => t.todo = <<>>
  /\ t.pc \in {"delete", "insert"} =>
       t.todo # <<>> /\ Head(t.todo) \in DOMAIN t.patch.lists
  /\ t.pc = "delete" => /\ \A row \in t.targets : row[1] = Head(t.todo)
                        /\ ListOf(Head(t.todo), View(rs, t)) \ t.targets \subseteq t.came
  /\ t.pc # "delete" => t.targets = {}
  /\ t.pc = "insert" => ListOf(Head(t.todo), View(rs, t)) \subseteq t.came
  /\ \A l \in DOMAIN t.patch.lists :
       (\A i \in DOMAIN t.todo : t.todo[i] # l) => Replaced(rs, t, l)

(* An open transaction deletes rows that are there, and inserts rows that  *)
(* are not, or that it has deleted.                                        *)
TxInv(rs, t) ==
  /\ t.deleted \subseteq rs /\ t.inserted \cap rs \subseteq t.deleted
  /\ t.kind = "none" => t.inserted = {} /\ t.deleted = {} /\ t.pc = "closed"
  /\ t.kind = "sign-in" => SignInTx(rs, t)
  /\ t.kind = "patch" => PatchTx(rs, t)

PrefInv ==
  /\ committed \subseteq PrefRows /\ scalar \in Scalar
  /\ calls \in [Callers -> Tx]
  /\ Account(committed)
  /\ \A c \in Callers : TxInv(committed, calls[c])
  /\ \A c \in Callers : \A d \in Others(c) : Apart(calls[c], calls[d])

-----------------------------------------------------------------------------
LEMMA RowNames ==
  /\ UserRow[1] = "users" /\ ProfileRow[1] = "user_preferences"
  /\ "users" \notin ListNames /\ "user_preferences" \notin ListNames
  /\ UserRow # ProfileRow
  /\ UserRow \notin SeedAll /\ ProfileRow \notin SeedAll
<1>1. UserRow[1] = "users" /\ ProfileRow[1] = "user_preferences" /\ UserRow # ProfileRow
  BY DEF UserRow, ProfileRow
<1>2. "users" \notin ListNames /\ "user_preferences" \notin ListNames
  BY PreferencesAssumption
<1>3. \A row \in SeedAll : row[1] \in ListNames
  BY DEF SeedAll, Rows
<1> QED
  BY <1>1, <1>2, <1>3

LEMMA RowsOfList ==
  ASSUME NEW l, NEW terms, NEW row \in Rows(l, terms)
  PROVE  row[1] = l
BY DEF Rows

LEMMA PatchesTyped ==
  ASSUME NEW p \in Patches
  PROVE  /\ DOMAIN p.lists \subseteq ListNames /\ p.scalars \subseteq Scalar
         /\ \A l \in DOMAIN p.lists : Rows(l, p.lists[l]) \subseteq PrefRows
BY PreferencesAssumption DEF PrefRows, AskedOf

LEMMA ClosedTx == Closed \in Tx /\ \A rs : TxInv(rs, Closed) /\ \A t \in Tx : Apart(Closed, t)
BY PreferencesAssumption DEF Closed, Transaction, Tx, TxInv, Apart, NoPatch

LEMMA PrefStarts == PrefInit => PrefInv
<1> SUFFICES ASSUME PrefInit PROVE PrefInv
  OBVIOUS
<1>1. calls \in [Callers -> Tx] /\ \A c \in Callers : calls[c] = Closed
  BY ClosedTx DEF PrefInit
<1> QED
  BY <1>1, ClosedTx, PreferencesAssumption DEF PrefInit, PrefInv, Account, Others

(* Steps of one transaction that commit nothing.                           *)
LEMMA OneMoves ==
  ASSUME PrefInv, NEW c \in Callers, NEW t \in Tx,
         calls' = [calls EXCEPT ![c] = t], committed' = committed, scalar' = scalar,
         TxInv(committed, t), \A d \in Others(c) : Apart(t, calls[d])
  PROVE  PrefInv'
<1>1. calls' \in [Callers -> Tx]
  BY DEF PrefInv
<1>2. calls'[c] = t /\ \A d \in Callers : d # c => calls'[d] = calls[d]
  BY DEF PrefInv
<1>3. \A d \in Callers : TxInv(committed, calls'[d])
  BY <1>2 DEF PrefInv
<1>4. ASSUME NEW d \in Callers, NEW e \in Callers, d # e
      PROVE  Apart(calls'[d], calls'[e])
  BY <1>2, <1>4 DEF PrefInv, Others, Apart
<1> QED
  BY <1>1, <1>3, <1>4 DEF PrefInv, Others

-----------------------------------------------------------------------------
(* sign_in locks the row of the account, or the key of the new one.        *)
LEMMA StartSignInKeeps ==
  ASSUME PrefInv, NEW c \in Callers, StartSignIn(c)
  PROVE  PrefInv'
<1> DEFINE t == [Transaction("sign-in", NoPatch, "look") EXCEPT
                   !.inserted = {UserRow}, !.deleted = committed \cap {UserRow}]
<1>1. /\ calls' = [calls EXCEPT ![c] = t] /\ committed' = committed /\ scalar' = scalar
      /\ FreeToInsert(c, {UserRow})
  BY DEF StartSignIn
<1>2. t \in Tx
  BY PreferencesAssumption DEF Transaction, Tx, PrefRows, PatchSteps
<1>3. /\ t.kind = "sign-in" /\ t.pc = "look" /\ t.targets = {}
      /\ t.inserted = {UserRow} /\ t.deleted = committed \cap {UserRow}
  BY DEF Transaction
<1> HIDE DEF t
<1>4. TxInv(committed, t)
  BY <1>3 DEF TxInv, SignInTx
<1>5. ASSUME NEW d \in Others(c) PROVE Apart(t, calls[d])
  BY <1>1, <1>3 DEF FreeToInsert, Apart
<1> QED
  BY <1>1, <1>2, <1>4, <1>5, OneMoves

LEMMA StartPatchKeeps ==
  ASSUME PrefInv, NEW c \in Callers, StartPatch(c)
  PROVE  PrefInv'
<1>1. PICK p \in Patches : calls' = [calls EXCEPT ![c] = Transaction("patch", p, "look")]
  BY DEF StartPatch
<1> DEFINE t == Transaction("patch", p, "look")
<1>2. t \in Tx
  BY PreferencesAssumption DEF Transaction, Tx, PatchSteps
<1>3. /\ t.kind = "patch" /\ t.pc = "look" /\ t.patch = p /\ t.todo = Lists
      /\ t.targets = {} /\ t.inserted = {} /\ t.deleted = {}
  BY DEF Transaction
<1> HIDE DEF t
<1>4. \A l \in DOMAIN p.lists : \E i \in DOMAIN Lists : Lists[i] = l
  BY PatchesTyped DEF ListNames
<1>5. UserRow \in committed /\ committed' = committed /\ scalar' = scalar
  BY DEF StartPatch
<1>6. PatchTx(committed, t)
  BY <1>3, <1>4, <1>5 DEF PatchTx, PatchSteps, Touched
<1>7. TxInv(committed, t)
  BY <1>3, <1>6 DEF TxInv
<1>8. ASSUME NEW d \in Others(c) PROVE Apart(t, calls[d])
  BY <1>3 DEF Apart
<1> QED
  BY <1>1, <1>2, <1>5, <1>7, <1>8, OneMoves DEF t

(* Changes of the program counter and what goes with it, by a transaction  *)
(* that writes nothing.                                                    *)
SameRows(t, u) ==
  t.inserted = u.inserted /\ t.deleted = u.deleted /\ t.kind = u.kind

LEMMA NothingWritten ==
  ASSUME PrefInv, NEW c \in Callers, NEW t \in Tx, SameRows(t, calls[c]),
         calls' = [calls EXCEPT ![c] = t], committed' = committed, scalar' = scalar,
         TxInv(committed, t)
  PROVE  PrefInv'
<1>1. \A d \in Others(c) : Apart(t, calls[d])
  BY DEF PrefInv, SameRows, Apart
<1> QED
  BY <1>1, OneMoves

(* What is known of an open transaction.                                   *)
LEMMA OpenTx ==
  ASSUME PrefInv, NEW c \in Callers, calls[c].pc # "closed"
  PROVE  /\ calls[c] \in Tx /\ TxInv(committed, calls[c])
         /\ \/ calls[c].kind = "sign-in" /\ SignInTx(committed, calls[c])
            \/ calls[c].kind = "patch" /\ PatchTx(committed, calls[c])
BY DEF PrefInv, TxInv, Tx

LEMMA LookUpKeeps ==
  ASSUME PrefInv, NEW c \in Callers, LookUp(c)
  PROVE  PrefInv'
<1> DEFINE old == calls[c]
           to == IF ~ Found(c) THEN "create"
                 ELSE IF old.kind = "patch" THEN "scalars" ELSE "commit"
           t == [old EXCEPT !.pc = to, !.loaded = scalar]
<1>1. old.pc = "look" /\ committed' = committed /\ scalar' = scalar
  BY DEF LookUp, At
<1>2. old \in Tx /\ scalar \in Scalar /\ TxInv(committed, old)
  BY DEF PrefInv
<1>3. calls' = [calls EXCEPT ![c] = t]
  BY <1>2 DEF LookUp, PrefInv
<1>4. t \in Tx /\ SameRows(t, old)
  BY <1>2 DEF Tx, PatchSteps, SameRows
<1>5. /\ t.targets = old.targets /\ t.patch = old.patch /\ t.todo = old.todo
      /\ t.came = old.came /\ t.went = old.went /\ t.pc = to
      /\ t.inserted = old.inserted /\ t.deleted = old.deleted /\ t.kind = old.kind
  BY <1>2 DEF Tx
<1>6. UserRow \in committed => ProfileRow \in committed
  BY DEF PrefInv, Account
<1>7. Found(c) <=> ProfileRow \in View(committed, old)
  BY DEF Found, Sees, View
<1> HIDE DEF t, old, to
<1>8. CASE old.kind = "sign-in"
  <2>1. SignInTx(committed, old)
    BY <1>2, <1>8 DEF TxInv
  <2>2. UserRow \in committed => to = "commit"
    BY <2>1, <1>6, <1>7, <1>8, RowNames DEF SignInTx, View, to
  <2>3. UserRow \notin committed => to = "create"
    <3>1. ASSUME UserRow \notin committed PROVE committed = {}
      BY <3>1 DEF PrefInv, Account
    <3> QED
      BY <2>1, <3>1, <1>1, <1>7, RowNames DEF SignInTx, View, to
  <2>4. SignInTx(committed, t)
    BY <2>1, <2>2, <2>3, <1>1, <1>5 DEF SignInTx
  <2>5. TxInv(committed, t)
    BY <2>4, <1>2, <1>5, <1>8 DEF TxInv
  <2> QED
    BY <2>5, <1>1, <1>3, <1>4, NothingWritten DEF old
<1>9. CASE old.kind = "patch"
  <2>1. PatchTx(committed, old)
    BY <1>2, <1>9 DEF TxInv
  <2>2. ProfileRow \notin old.deleted
    BY <2>1, RowNames, PatchesTyped DEF PatchTx, Touched
  <2>3. to = "scalars"
    BY <2>1, <2>2, <1>6, <1>7, <1>9 DEF PatchTx, View, to
  <2>4. PatchTx(committed, t)
    BY <2>1, <2>3, <1>1, <1>5 DEF PatchTx, PatchSteps, Touched, Replaced, View
  <2>5. TxInv(committed, t)
    BY <2>4, <1>2, <1>5, <1>9 DEF TxInv
  <2> QED
    BY <2>5, <1>1, <1>3, <1>4, NothingWritten DEF old
<1> QED
  BY <1>1, <1>8, <1>9, OpenTx DEF old

LEMMA CreateKeeps ==
  ASSUME PrefInv, NEW c \in Callers, Create(c)
  PROVE  PrefInv'
<1> DEFINE old == calls[c]
           t == [old EXCEPT !.inserted = @ \cup ({ProfileRow} \ Sees(c)), !.pc = "seed"]
<1>1. /\ old.pc = "create" /\ committed' = committed /\ scalar' = scalar
      /\ FreeToInsert(c, {ProfileRow})
  BY DEF Create, At, InsertIgnore
<1>2. old \in Tx /\ TxInv(committed, old)
  BY DEF PrefInv
<1>3. calls' = [calls EXCEPT ![c] = t]
  BY <1>2 DEF Create, InsertIgnore, PrefInv
<1>4. old.kind = "sign-in" /\ SignInTx(committed, old)
  BY <1>1, OpenTx DEF PatchTx, PatchSteps
<1>5. committed = {} /\ old.deleted = {} /\ old.inserted = {UserRow}
  BY <1>1, <1>4 DEF SignInTx, PrefInv, Account
<1>6. t \in Tx
  BY <1>2 DEF Tx, PrefRows
<1>7. t = [old EXCEPT !.inserted = {UserRow, ProfileRow}, !.pc = "seed"]
  BY <1>2, <1>5, RowNames DEF Sees
<1>8. /\ t.kind = "sign-in" /\ t.pc = "seed" /\ t.targets = {} /\ t.deleted = {}
      /\ t.inserted = {UserRow, ProfileRow}
  BY <1>2, <1>4, <1>5, <1>7 DEF Tx, SignInTx
<1> HIDE DEF t, old
<1>9. TxInv(committed, t)
  BY <1>5, <1>8 DEF TxInv, SignInTx
<1>10. ASSUME NEW d \in Others(c) PROVE Apart(t, calls[d])
  <2>1. Apart(old, calls[d])
    BY DEF PrefInv, old
  <2> QED
    BY <2>1, <1>1, <1>5, <1>8 DEF Apart, FreeToInsert
<1> QED
  BY <1>1, <1>3, <1>6, <1>9, <1>10, OneMoves DEF old

LEMMA SeedKeeps ==
  ASSUME PrefInv, NEW c \in Callers, Seed(c)
  PROVE  PrefInv'
<1> DEFINE old == calls[c]
           to == IF old.kind = "patch" THEN "scalars" ELSE "commit"
           t == [old EXCEPT !.inserted = @ \cup (SeedAll \ Sees(c)), !.pc = to]
<1>1. /\ old.pc = "seed" /\ committed' = committed /\ scalar' = scalar
      /\ FreeToInsert(c, SeedAll)
  BY DEF Seed, Seeded, At, InsertIgnore, SeedAll
<1>2. old \in Tx /\ TxInv(committed, old)
  BY DEF PrefInv
<1>3. calls' = [calls EXCEPT ![c] = t]
  BY <1>2 DEF Seed, Seeded, InsertIgnore, PrefInv, SeedAll
<1>4. old.kind = "sign-in" /\ SignInTx(committed, old)
  BY <1>1, OpenTx DEF PatchTx, PatchSteps
<1>5. committed = {} /\ old.deleted = {} /\ old.inserted = {UserRow, ProfileRow}
  BY <1>1, <1>4 DEF SignInTx, PrefInv, Account
<1>6. Sees(c) = {UserRow, ProfileRow}
  BY <1>5 DEF Sees
<1>7. t = [old EXCEPT !.inserted = {UserRow, ProfileRow} \cup SeedAll, !.pc = "commit"]
  BY <1>2, <1>4, <1>5, <1>6, RowNames
<1>8. /\ t.kind = "sign-in" /\ t.pc = "commit" /\ t.targets = {} /\ t.deleted = {}
      /\ t.inserted = {UserRow, ProfileRow} \cup SeedAll
  BY <1>2, <1>4, <1>5, <1>7 DEF Tx, SignInTx
<1>9. t \in Tx
  <2>1. {UserRow, ProfileRow} \cup SeedAll \subseteq PrefRows
    BY DEF PrefRows
  <2> QED
    BY <1>2, <1>7, <2>1 DEF Tx, PatchSteps
<1> HIDE DEF t, old
<1>10. TxInv(committed, t)
  BY <1>5, <1>8 DEF TxInv, SignInTx
<1>11. ASSUME NEW d \in Others(c) PROVE Apart(t, calls[d])
  <2>1. Apart(old, calls[d])
    BY DEF PrefInv, old
  <2> QED
    BY <2>1, <1>1, <1>5, <1>8 DEF Apart, FreeToInsert
<1> QED
  BY <1>1, <1>3, <1>9, <1>10, <1>11, OneMoves DEF old

(* The steps of a patch that write no rows.                                *)
LEMMA SetScalarsKeeps ==
  ASSUME PrefInv, NEW c \in Callers, SetScalars(c)
  PROVE  PrefInv'
<1> DEFINE old == calls[c]
           changed == old.patch.scalars \ {old.loaded}
           t == [old EXCEPT !.updated = changed, !.pc = "lists"]
<1>1. old.pc = "scalars" /\ committed' = committed /\ scalar' = scalar
  BY DEF SetScalars, At
<1>2. old \in Tx /\ TxInv(committed, old)
  BY DEF PrefInv
<1>3. calls' = [calls EXCEPT ![c] = t]
  BY <1>2 DEF SetScalars, PrefInv
<1>4. old.kind = "patch" /\ PatchTx(committed, old)
  BY <1>1, OpenTx DEF SignInTx
<1>5. changed \subseteq Scalar
  BY <1>4, PatchesTyped DEF PatchTx
<1>6. t \in Tx /\ SameRows(t, old)
  BY <1>2, <1>5 DEF Tx, PatchSteps, SameRows
<1>7. /\ t.targets = old.targets /\ t.patch = old.patch /\ t.todo = old.todo
      /\ t.came = old.came /\ t.went = old.went /\ t.pc = "lists"
      /\ t.inserted = old.inserted /\ t.deleted = old.deleted /\ t.kind = old.kind
  BY <1>2 DEF Tx
<1> HIDE DEF t, old
<1>8. PatchTx(committed, t)
  BY <1>4, <1>1, <1>7 DEF PatchTx, PatchSteps, Touched, Replaced, View
<1>9. TxInv(committed, t)
  BY <1>2, <1>4, <1>7, <1>8 DEF TxInv
<1> QED
  BY <1>1, <1>3, <1>6, <1>9, NothingWritten DEF old

LEMMA PassListKeeps ==
  ASSUME PrefInv, NEW c \in Callers, PassList(c)
  PROVE  PrefInv'
<1> DEFINE old == calls[c]
           t == [old EXCEPT !.todo = Tail(@)]
<1>1. /\ old.pc = "lists" /\ committed' = committed /\ scalar' = scalar
      /\ old.todo # <<>> /\ Head(old.todo) \notin DOMAIN old.patch.lists
  BY DEF PassList, At
<1>2. old \in Tx /\ TxInv(committed, old)
  BY DEF PrefInv
<1>3. calls' = [calls EXCEPT ![c] = t]
  BY <1>2 DEF PassList, PrefInv
<1>4. old.kind = "patch" /\ PatchTx(committed, old)
  BY <1>1, OpenTx DEF SignInTx
<1>5. old.todo \in Seq(ListNames) /\ Tail(old.todo) \in Seq(ListNames)
  BY <1>1, <1>2 DEF Tx
<1>6. t \in Tx /\ SameRows(t, old)
  BY <1>2, <1>5 DEF Tx, SameRows
<1>7. /\ t.targets = old.targets /\ t.patch = old.patch /\ t.todo = Tail(old.todo)
      /\ t.came = old.came /\ t.went = old.went /\ t.pc = "lists"
      /\ t.inserted = old.inserted /\ t.deleted = old.deleted /\ t.kind = old.kind
  BY <1>1, <1>2 DEF Tx
<1> HIDE DEF t, old
<1>8. ASSUME NEW l \in DOMAIN t.patch.lists, \A i \in DOMAIN t.todo : t.todo[i] # l
      PROVE  \A i \in DOMAIN old.todo : old.todo[i] # l
  <2> SUFFICES ASSUME NEW i \in DOMAIN old.todo, old.todo[i] = l PROVE FALSE
    OBVIOUS
  <2>1. i # 1
    BY <1>1, <1>5, <1>7, <1>8
  <2>2. i - 1 \in DOMAIN Tail(old.todo) /\ Tail(old.todo)[i - 1] = old.todo[i]
    BY <2>1, <1>1, <1>5
  <2> QED
    BY <2>2, <1>7, <1>8
<1>9. PatchTx(committed, t)
  BY <1>4, <1>1, <1>7, <1>8 DEF PatchTx, PatchSteps, Touched, Replaced, View
<1>10. TxInv(committed, t)
  BY <1>2, <1>4, <1>7, <1>9 DEF TxInv
<1> QED
  BY <1>1, <1>3, <1>6, <1>10, NothingWritten DEF old

LEMMA StartDeleteKeeps ==
  ASSUME PrefInv, NEW c \in Callers, StartDelete(c)
  PROVE  PrefInv'
<1> DEFINE old == calls[c]
           other == {row \in old.came : row[1] # Head(old.todo)}
           t == [old EXCEPT !.targets = Targets(c), !.pc = "delete", !.came = other]
<1>1. /\ old.pc = "lists" /\ committed' = committed /\ scalar' = scalar
      /\ old.todo # <<>> /\ Head(old.todo) \in DOMAIN old.patch.lists
  BY DEF StartDelete, At
<1>2. old \in Tx /\ TxInv(committed, old)
  BY DEF PrefInv
<1>3. calls' = [calls EXCEPT ![c] = t]
  BY <1>2 DEF StartDelete, PrefInv
<1>4. old.kind = "patch" /\ PatchTx(committed, old)
  BY <1>1, OpenTx DEF SignInTx
<1>5. /\ Targets(c) = ListOf(Head(old.todo), View(committed, old))
      /\ Targets(c) \subseteq PrefRows
  BY <1>2 DEF Targets, Sees, ListOf, View, PrefInv, Tx
<1>6. t \in Tx /\ SameRows(t, old)
  BY <1>2, <1>5 DEF Tx, PatchSteps, SameRows
<1>7. /\ t.targets = Targets(c) /\ t.patch = old.patch /\ t.todo = old.todo
      /\ t.came = other /\ t.went = old.went /\ t.pc = "delete"
      /\ t.inserted = old.inserted /\ t.deleted = old.deleted /\ t.kind = old.kind
  BY <1>2 DEF Tx
<1> HIDE DEF t, old
<1>10. ASSUME NEW l \in DOMAIN t.patch.lists, \A i \in DOMAIN t.todo : t.todo[i] # l
       PROVE  Replaced(committed, t, l)
  <2>1. Replaced(committed, old, l)
    BY <1>4, <1>7, <1>10 DEF PatchTx
  <2>2. Head(old.todo) # l
    BY <1>1, <1>2, <1>7, <1>10 DEF Tx
  <2>3. View(committed, t) = View(committed, old)
    BY <1>7 DEF View
  <2> QED
    BY <2>1, <2>2, <2>3, <1>7 DEF Replaced, ListOf
<1>8. PatchTx(committed, t)
  BY <1>4, <1>1, <1>5, <1>7, <1>10 DEF PatchTx, PatchSteps, Touched, View, ListOf
<1>9. TxInv(committed, t)
  BY <1>2, <1>4, <1>7, <1>8 DEF TxInv
<1> QED
  BY <1>1, <1>3, <1>6, <1>9, NothingWritten DEF old

LEMMA EndPatchKeeps ==
  ASSUME PrefInv, NEW c \in Callers, EndPatch(c)
  PROVE  PrefInv'
<1> DEFINE old == calls[c]
           t == [old EXCEPT !.pc = "commit"]
<1>1. /\ old.pc = "lists" /\ committed' = committed /\ scalar' = scalar
      /\ old.todo = <<>>
  BY DEF EndPatch, At
<1>2. old \in Tx /\ TxInv(committed, old)
  BY DEF PrefInv
<1>3. calls' = [calls EXCEPT ![c] = t]
  BY <1>2 DEF EndPatch, PrefInv
<1>4. old.kind = "patch" /\ PatchTx(committed, old)
  BY <1>1, OpenTx DEF SignInTx
<1>6. t \in Tx /\ SameRows(t, old)
  BY <1>2 DEF Tx, PatchSteps, SameRows
<1>7. /\ t.targets = old.targets /\ t.patch = old.patch /\ t.todo = old.todo
      /\ t.came = old.came /\ t.went = old.went /\ t.pc = "commit"
      /\ t.inserted = old.inserted /\ t.deleted = old.deleted /\ t.kind = old.kind
  BY <1>2 DEF Tx
<1> HIDE DEF t, old
<1>8. PatchTx(committed, t)
  BY <1>4, <1>1, <1>7 DEF PatchTx, PatchSteps, Touched, Replaced, View
<1>9. TxInv(committed, t)
  BY <1>2, <1>4, <1>7, <1>8 DEF TxInv
<1> QED
  BY <1>1, <1>3, <1>6, <1>9, NothingWritten DEF old

LEMMA EndDeleteKeeps ==
  ASSUME PrefInv, NEW c \in Callers, EndDelete(c)
  PROVE  PrefInv'
<1> DEFINE old == calls[c]
           mine == old.targets \cap committed
           t == [old EXCEPT !.deleted = @ \cup mine, !.inserted = @ \ old.targets,
                            !.targets = {}, !.pc = "insert"]
<1>1. /\ old.pc = "delete" /\ committed' = committed /\ scalar' = scalar
      /\ FreeToDelete(c, old.targets)
  BY DEF EndDelete, At
<1>2. old \in Tx /\ TxInv(committed, old)
  BY DEF PrefInv
<1>3. calls' = [calls EXCEPT ![c] = t]
  BY <1>2 DEF EndDelete, PrefInv
<1>4. old.kind = "patch" /\ PatchTx(committed, old)
  BY <1>1, OpenTx DEF SignInTx
<1>5. t \in Tx
  BY <1>2 DEF Tx, PatchSteps
<1>6. /\ t.targets = {} /\ t.patch = old.patch /\ t.todo = old.todo
      /\ t.came = old.came /\ t.went = old.went /\ t.pc = "insert" /\ t.kind = old.kind
      /\ t.inserted = old.inserted \ old.targets /\ t.deleted = old.deleted \cup mine
  BY <1>2 DEF Tx
<1> HIDE DEF t, old
<1>7. /\ View(committed, t) \subseteq View(committed, old) \ old.targets
      /\ \A row \in View(committed, old) : row \in old.targets \/ row \in View(committed, t)
  BY <1>6 DEF View
<1>8. ListOf(Head(t.todo), View(committed, t)) \subseteq t.came
  BY <1>1, <1>4, <1>6, <1>7 DEF PatchTx, ListOf
<1>9. ASSUME NEW l \in DOMAIN t.patch.lists, \A i \in DOMAIN t.todo : t.todo[i] # l
      PROVE  Replaced(committed, t, l)
  <2>1. Replaced(committed, old, l)
    BY <1>4, <1>6, <1>9 DEF PatchTx
  <2>2. old.todo \in Seq(ListNames) /\ old.todo # <<>>
    BY <1>1, <1>2, <1>4 DEF Tx, PatchTx
  <2>3. Head(old.todo) # l
    BY <2>2, <1>6, <1>9
  <2>4. \A row \in old.targets : row[1] # l
    BY <2>3, <1>1, <1>4 DEF PatchTx
  <2>5. \A row \in Rows(l, t.patch.lists[l]) : row \notin old.targets
    BY <2>4, RowsOfList
  <2> QED
    BY <2>1, <2>4, <2>5, <1>6, <1>7 DEF Replaced, ListOf
<1>10. PatchTx(committed, t)
  BY <1>1, <1>4, <1>6, <1>8, <1>9 DEF PatchTx, PatchSteps, Touched
<1>11. TxInv(committed, t)
  BY <1>2, <1>4, <1>6, <1>10 DEF TxInv
<1>12. ASSUME NEW d \in Others(c) PROVE Apart(t, calls[d])
  <2>1. Apart(old, calls[d]) /\ TxInv(committed, calls[d])
    BY DEF PrefInv, Others, old
  <2> QED
    BY <2>1, <1>1, <1>6 DEF Apart, TxInv, FreeToDelete
<1> QED
  BY <1>1, <1>3, <1>5, <1>11, <1>12, OneMoves DEF old

LEMMA InsertKeeps ==
  ASSUME PrefInv, NEW c \in Callers, Insert(c)
  PROVE  PrefInv'
<1> DEFINE old == calls[c]
           list == Head(old.todo)
           asked == Rows(list, old.patch.lists[list])
           t == [old EXCEPT !.inserted = @ \cup (asked \ Sees(c)), !.todo = Tail(@),
                            !.pc = "lists"]
<1>1. /\ old.pc = "insert" /\ committed' = committed /\ scalar' = scalar
      /\ FreeToInsert(c, asked)
  BY DEF Insert, At, Asked
<1>2. old \in Tx /\ TxInv(committed, old)
  BY DEF PrefInv
<1>3. calls' = [calls EXCEPT ![c] = t]
  BY <1>2 DEF Insert, PrefInv, Asked
<1>4. old.kind = "patch" /\ PatchTx(committed, old)
  BY <1>1, OpenTx DEF SignInTx
<1>5. /\ old.todo \in Seq(ListNames) /\ old.todo # <<>> /\ Tail(old.todo) \in Seq(ListNames)
      /\ list \in DOMAIN old.patch.lists
  BY <1>1, <1>2, <1>4 DEF Tx, PatchTx
<1>6. asked \subseteq PrefRows
  BY <1>4, <1>5, PatchesTyped DEF PatchTx
<1>7. t \in Tx
  BY <1>2, <1>5, <1>6 DEF Tx, PatchSteps
<1>8. /\ t.targets = old.targets /\ t.patch = old.patch /\ t.todo = Tail(old.todo)
      /\ t.came = old.came /\ t.went = old.went /\ t.pc = "lists" /\ t.kind = old.kind
      /\ t.inserted = old.inserted \cup (asked \ View(committed, old))
      /\ t.deleted = old.deleted
  BY <1>2 DEF Tx, View, Sees
<1> HIDE DEF t, old
<1>9. View(committed, t) = View(committed, old) \cup asked
  BY <1>8 DEF View
<1>10. \A row \in asked : row[1] = list
  BY RowsOfList
<1>11. Replaced(committed, t, list)
  BY <1>1, <1>4, <1>8, <1>9 DEF Replaced, PatchTx, ListOf
<1>12. ASSUME NEW l \in DOMAIN t.patch.lists, \A i \in DOMAIN t.todo : t.todo[i] # l, l # list
       PROVE  Replaced(committed, t, l)
  <2>1. \A i \in DOMAIN old.todo : old.todo[i] # l
    <3> SUFFICES ASSUME NEW i \in DOMAIN old.todo, old.todo[i] = l PROVE FALSE
      OBVIOUS
    <3>1. i # 1
      BY <1>5, <1>12
    <3>2. i - 1 \in DOMAIN Tail(old.todo) /\ Tail(old.todo)[i - 1] = old.todo[i]
      BY <3>1, <1>5
    <3> QED
      BY <3>2, <1>8, <1>12
  <2>2. Replaced(committed, old, l)
    BY <2>1, <1>4, <1>8, <1>12 DEF PatchTx
  <2> QED
    BY <2>2, <1>8, <1>9, <1>10, <1>12 DEF Replaced, ListOf
<1> HIDE DEF asked, list
<1>13. \A row \in Touched(t) : row[1] \in DOMAIN t.patch.lists
  BY <1>4, <1>5, <1>8, <1>10 DEF PatchTx, Touched
<1>14. PatchTx(committed, t)
  BY <1>1, <1>4, <1>8, <1>11, <1>12, <1>13 DEF PatchTx, PatchSteps
<1>15. TxInv(committed, t)
  BY <1>2, <1>4, <1>8, <1>14 DEF TxInv, View
<1>16. ASSUME NEW d \in Others(c) PROVE Apart(t, calls[d])
  <2>1. Apart(old, calls[d])
    BY DEF PrefInv, old
  <2> QED
    BY <2>1, <1>1, <1>8 DEF Apart, FreeToInsert
<1> QED
  BY <1>1, <1>3, <1>7, <1>15, <1>16, OneMoves DEF old

LEMMA RollbackKeeps ==
  ASSUME PrefInv, NEW c \in Callers, Rollback(c)
  PROVE  PrefInv'
<1>1. /\ calls' = [calls EXCEPT ![c] = Closed] /\ committed' = committed /\ scalar' = scalar
  BY DEF Rollback
<1>2. \A d \in Others(c) : Apart(Closed, calls[d])
  BY ClosedTx DEF PrefInv, Others
<1> QED
  BY <1>1, <1>2, ClosedTx, OneMoves

(* A commit.                                                               *)
LEMMA CommitKeepsAccount ==
  ASSUME PrefInv, NEW c \in Callers, At(c, "commit")
  PROVE  /\ Account(Sees(c)) /\ Sees(c) \subseteq PrefRows
         /\ UserRow \in Sees(c)
         /\ UserRow \notin committed => calls[c].kind = "sign-in"
<1>1. calls[c].pc = "commit"
  BY DEF At
<1>2. /\ calls[c] \in Tx /\ Sees(c) = View(committed, calls[c])
      /\ committed \subseteq PrefRows /\ Account(committed)
  BY DEF PrefInv, Sees, View
<1>3. CASE calls[c].kind = "sign-in"
  BY <1>1, <1>2, <1>3, OpenTx, RowNames DEF SignInTx, Account, View, Tx
<1>4. CASE calls[c].kind = "patch"
  <2>1. PatchTx(committed, calls[c])
    BY <1>1, <1>4, OpenTx
  <2>2. UserRow \notin calls[c].deleted /\ ProfileRow \notin calls[c].deleted
    BY <2>1, RowNames, PatchesTyped DEF PatchTx, Touched
  <2> QED
    BY <1>2, <2>1, <2>2 DEF PatchTx, Account, View, Tx
<1> QED
  BY <1>1, <1>3, <1>4, OpenTx

(* What a commit leaves of another open transaction's invariant.           *)
LEMMA OthersKeep ==
  ASSUME PrefInv, NEW c \in Callers, At(c, "commit"), NEW d \in Others(c),
         ~ At(d, "closed"), NEW t \in Tx,
         t = [calls[d] EXCEPT !.targets = @ \ calls[c].deleted,
                              !.came = @ \cup calls[c].inserted,
                              !.went = @ \cup (committed \ Sees(c))]
  PROVE  TxInv(Sees(c), t) /\ Apart(t, calls[c])
<1> DEFINE old == calls[d]
           after == Sees(c)
<1>1. /\ old \in Tx /\ TxInv(committed, old) /\ calls[c] \in Tx /\ TxInv(committed, calls[c])
      /\ d \in Callers /\ d # c
      /\ Apart(old, calls[c]) /\ Apart(calls[c], old)
  BY DEF PrefInv, Others
<1>2. /\ t.kind = old.kind /\ t.pc = old.pc /\ t.todo = old.todo /\ t.patch = old.patch
      /\ t.inserted = old.inserted /\ t.deleted = old.deleted
      /\ t.targets = old.targets \ calls[c].deleted
      /\ t.came = old.came \cup calls[c].inserted
      /\ t.went = old.went \cup (committed \ after)
  BY <1>1 DEF Tx
<1>3. after = View(committed, calls[c])
  BY DEF Sees, View
<1>4. calls[c].pc = "commit" /\ old.pc # "closed"
  BY DEF At
<1>5. UserRow \in after /\ (UserRow \notin committed => calls[c].kind = "sign-in")
  BY CommitKeepsAccount
<1> HIDE DEF after
<1>6. Apart(t, calls[c])
  BY <1>1, <1>2 DEF Apart
<1>7. t.deleted \subseteq after /\ t.inserted \cap after \subseteq t.deleted
  BY <1>1, <1>2, <1>3 DEF Apart, TxInv, View
<1>8. UserRow \in committed
  <2> SUFFICES ASSUME UserRow \notin committed PROVE FALSE
    OBVIOUS
  <2>1. calls[c].kind = "sign-in" /\ SignInTx(committed, calls[c])
    BY <1>4, <1>5, OpenTx
  <2>2. old.kind = "sign-in" /\ SignInTx(committed, old)
    BY <1>1, <1>4, OpenTx DEF PatchTx
  <2> QED
    BY <2>1, <2>2, <1>1 DEF SignInTx, Apart
<1>9. CASE old.kind = "sign-in"
  <2>1. SignInTx(committed, old)
    BY <1>1, <1>9 DEF TxInv
  <2> QED
    BY <2>1, <1>2, <1>5, <1>6, <1>7, <1>8, <1>9 DEF SignInTx, TxInv, after
<1>10. CASE old.kind = "patch"
  <2>1. PatchTx(committed, old)
    BY <1>1, <1>10 DEF TxInv
  <2>2. /\ View(after, t) \ View(committed, old) \subseteq calls[c].inserted
        /\ View(committed, old) \ View(after, t) \subseteq committed \ after
    BY <1>2, <1>3 DEF View
  <2>5. View(after, t) \ t.targets \subseteq
          (View(committed, old) \ old.targets) \cup calls[c].inserted
    BY <2>2, <1>1, <1>2, <1>3 DEF View, Apart
  <2>3. \A l : Replaced(committed, old, l) => Replaced(after, t, l)
    BY <2>2, <1>2 DEF Replaced, ListOf
  <2>4. PatchTx(after, t)
    BY <2>1, <2>2, <2>3, <2>5, <1>2, <1>5 DEF PatchTx, Touched, ListOf
  <2> QED
    BY <2>4, <1>2, <1>6, <1>7, <1>10 DEF TxInv, after
<1> QED
  BY <1>4, <1>9, <1>10, OpenTx, <1>1

LEMMA CommitKeeps ==
  ASSUME PrefInv, NEW c \in Callers, Commit(c)
  PROVE  PrefInv'
<1> DEFINE after == Sees(c)
           told(d) == [calls[d] EXCEPT !.targets = @ \ calls[c].deleted,
                                       !.came = @ \cup calls[c].inserted,
                                       !.went = @ \cup (committed \ after)]
<1>1. /\ At(c, "commit") /\ committed' = after
      /\ scalar' = IF calls[c].updated = {} THEN scalar ELSE CHOOSE v \in calls[c].updated : TRUE
      /\ calls' = [d \in Callers |-> IF d = c THEN Closed
                                     ELSE IF At(d, "closed") THEN calls[d] ELSE told(d)]
  BY DEF Commit, CommitAs
<1>2. /\ \A d \in Callers : calls[d] \in Tx /\ TxInv(committed, calls[d])
      /\ committed \subseteq PrefRows /\ scalar \in Scalar
  BY DEF PrefInv
<1>3. Account(after) /\ after \subseteq PrefRows
  BY <1>1, CommitKeepsAccount
<1> HIDE DEF after
<1>4. scalar' \in Scalar
  BY <1>1, <1>2 DEF Tx
<1>5. \A d \in Callers : told(d) \in Tx
  BY <1>2, <1>3 DEF Tx
<1>6. calls' \in [Callers -> Tx]
  BY <1>1, <1>2, <1>5, ClosedTx
<1>7. \A d \in Callers : calls'[d] = IF d = c THEN Closed
                                     ELSE IF At(d, "closed") THEN calls[d] ELSE told(d)
  BY <1>1
<1>8. ASSUME NEW d \in Others(c), ~ At(d, "closed")
      PROVE  TxInv(after, told(d))
  BY <1>1, <1>5, <1>8, OthersKeep DEF Others, after
<1>9. ASSUME NEW d \in Callers, At(d, "closed")
      PROVE  TxInv(after, calls[d])
  <2>1. calls[d].pc = "closed" /\ calls[d] \in Tx /\ TxInv(committed, calls[d])
    BY <1>2, <1>9 DEF At
  <2>2. calls[d].kind = "none"
    BY <2>1 DEF TxInv, SignInTx, PatchTx, PatchSteps, Tx
  <2> QED
    BY <2>1, <2>2 DEF TxInv
<1>10. \A d \in Callers : TxInv(after, calls'[d])
  <2> HIDE DEF told
  <2> QED
    BY <1>7, <1>8, <1>9, ClosedTx DEF Others
<1>11. \A d \in Callers : /\ calls'[d].inserted \subseteq calls[d].inserted
                          /\ calls'[d].deleted \subseteq calls[d].deleted
  <2> TAKE d \in Callers
  <2>1. told(d).inserted = calls[d].inserted /\ told(d).deleted = calls[d].deleted
    BY <1>2 DEF Tx
  <2>2. Closed.inserted = {} /\ Closed.deleted = {}
    BY DEF Closed, Transaction
  <2> HIDE DEF told
  <2> QED
    BY <1>7, <2>1, <2>2
<1>12. \A d \in Callers : \A e \in Others(d) : Apart(calls'[d], calls'[e])
  BY <1>11 DEF PrefInv, Others, Apart
<1> QED
  BY <1>1, <1>3, <1>4, <1>6, <1>10, <1>12 DEF PrefInv, Others

LEMMA PrefStep == PrefInv /\ [PrefNext]_prefVars => PrefInv'
<1> SUFFICES ASSUME PrefInv, [PrefNext]_prefVars PROVE PrefInv'
  OBVIOUS
<1>1. CASE UNCHANGED prefVars
  BY <1>1 DEF PrefInv, prefVars, Others
<1>2. ASSUME NEW c \in Callers, RefuseList(c) \/ Fail(c) PROVE PrefInv'
  BY <1>2, RollbackKeeps DEF RefuseList, Fail
<1> QED
  BY <1>1, <1>2, StartSignInKeeps, StartPatchKeeps, LookUpKeeps, CreateKeeps, SeedKeeps,
     SetScalarsKeeps, PassListKeeps, StartDeleteKeeps, EndDeleteKeeps, InsertKeeps,
     EndPatchKeeps, CommitKeeps DEF PrefNext

LEMMA PrefAlways == PrefSpec => []PrefInv
BY PrefStarts, PrefStep, PTL DEF PrefSpec

(* update_preferences: each list that is asked for is replaced as a whole  *)
(* and no other is touched, whatever other requests commit meanwhile: what *)
(* is beyond what was asked was written, or written again, since the       *)
(* DELETE of its list began, and what is missing was removed meanwhile.    *)
THEOREM PatchesReplace == PrefSpec => PatchReplacesItsLists
<1>1. ASSUME PrefInv, NEW c \in Callers, Commit(c), calls[c].kind = "patch",
             NEW l \in ListNames
      PROVE  LET lists == calls[c].patch.lists IN
             IF l \in DOMAIN lists
             THEN LET asked == Rows(l, lists[l]) IN
                  /\ ListOf(l, committed') \ asked \subseteq calls[c].came
                  /\ asked \ committed' \subseteq calls[c].went
             ELSE ListOf(l, committed') = ListOf(l, committed)
  <2>1. calls[c].pc = "commit" /\ committed' = View(committed, calls[c])
    BY <1>1 DEF Commit, CommitAs, At, Sees, View
  <2>2. PatchTx(committed, calls[c]) /\ calls[c].todo = <<>>
    BY <1>1, <2>1 DEF PrefInv, TxInv, PatchTx
  <2>3. CASE l \in DOMAIN calls[c].patch.lists
    BY <2>1, <2>2, <2>3 DEF PatchTx, Replaced
  <2>4. CASE l \notin DOMAIN calls[c].patch.lists
    BY <2>1, <2>2, <2>4 DEF PatchTx, Touched, ListOf, View
  <2> QED
    BY <2>3, <2>4
<1>2. PrefInv /\ [PrefNext]_prefVars =>
        [\A c \in Callers : Commit(c) /\ calls[c].kind = "patch" =>
            \A l \in ListNames :
                LET lists == calls[c].patch.lists IN
                IF l \in DOMAIN lists
                THEN LET asked == Rows(l, lists[l]) IN
                     /\ ListOf(l, committed') \ asked \subseteq calls[c].came
                     /\ asked \ committed' \subseteq calls[c].went
                ELSE ListOf(l, committed') = ListOf(l, committed)]_prefVars
  BY <1>1
<1> QED
  BY <1>2, PrefAlways, PTL DEF PrefSpec, PatchReplacesItsLists

(* ensure_profile: however many sign-ins of a new account run at once, the *)
(* profile and the default lists are written once, by the one that creates *)
(* the account, and a sign-in of a known account writes nothing.           *)
THEOREM SeedingHappensOnce == PrefSpec => SeededExactlyOnce
<1>1. ASSUME PrefInv, NEW c \in Callers, Commit(c), calls[c].kind = "sign-in"
      PROVE  committed' =
               IF UserRow \in committed THEN committed
               ELSE {UserRow, ProfileRow} \cup UNION {Rows(l, Defaults[l]) : l \in ListNames}
  <2>1. calls[c].pc = "commit" /\ committed' = View(committed, calls[c])
    BY <1>1 DEF Commit, CommitAs, At, Sees, View
  <2>2. SignInTx(committed, calls[c]) /\ Account(committed)
    BY <1>1 DEF PrefInv, TxInv
  <2> QED
    BY <2>1, <2>2 DEF SignInTx, Account, View, SeedAll
<1>2. PrefInv /\ [PrefNext]_prefVars =>
        [\A c \in Callers : Commit(c) /\ calls[c].kind = "sign-in" =>
            committed' =
                IF UserRow \in committed THEN committed
                ELSE {UserRow, ProfileRow}
                     \cup UNION {Rows(l, Defaults[l]) : l \in ListNames}]_prefVars
  BY <1>1
<1> QED
  BY <1>2, PrefAlways, PTL DEF PrefSpec, SeededExactlyOnce

-----------------------------------------------------------------------------
(***************************************************************************)
(* The catalogue.                                                          *)
(***************************************************************************)
IsRun(t) ==
  DOMAIN t = {"pc", "typed", "todo", "inserted", "deleted", "pending", "then", "targets",
              "turned", "came", "went"}

(* Rows on their way: the INSERT of these has been decided.                *)
Coming(t) == IF t.pc = "insert" THEN t.pending ELSE {}

(* Where a command is, or will be after the INSERT it waits for.           *)
Stage(t) == IF t.pc = "insert" THEN t.then ELSE t.pc

(* A row that is there or on its way, or that somebody has removed.        *)
Had(rs, t) == View(rs, t) \cup Coming(t) \cup t.went

SeedEntries ==
  {[slug |-> SeedSources[i].slug, topics |-> SeedSources[i].topics, new |-> n] :
     i \in DOMAIN SeedSources, n \in BOOLEAN}

(* A source of the seed is done, or still among those to be done.          *)
SourceDone(rs, t, i) ==
  \/ /\ SourceRow(SeedSources[i].slug) \in Had(rs, t)
     /\ LinkRows(SeedSources[i].slug, SeedSources[i].topics) \subseteq Had(rs, t)
  \/ \E k \in DOMAIN t.todo : /\ t.todo[k].slug = SeedSources[i].slug
                              /\ t.todo[k].topics = SeedSources[i].topics

SeedRun(rs, t) ==
  /\ t.deleted = {} /\ t.targets = {} /\ t.turned = {}
  /\ t.inserted \cup Coming(t) \subseteq SeedRows
  /\ Stage(t) \in {"look", "sources", "source", "link", "commit"}
  /\ Stage(t) # "look" => TopicRows(SeedTopics) \subseteq Had(rs, t)
  /\ Stage(t) \in {"source", "link", "commit"} =>
       /\ t.todo \in Seq(SeedEntries)
       /\ \A i \in DOMAIN SeedSources : SourceDone(rs, t, i)
       /\ \A k \in DOMAIN t.todo : t.todo[k].new \/ SourceRow(t.todo[k].slug) \in Had(rs, t)
  /\ Stage(t) \in {"source", "link"} => t.todo # <<>>
  /\ Stage(t) = "link" => SourceRow(Head(t.todo).slug) \in Had(rs, t)
  /\ Stage(t) = "commit" => t.todo = <<>>

AskedLinks(t) == LinkRows(t.typed.slug, t.typed.topics)

(* Setting the topics of a source writes links of that source only.        *)
SetRun(rs, t) ==
  /\ t.turned = {}
  /\ \A row \in t.inserted \cup t.deleted \cup t.targets \cup Coming(t) :
       row[1] = "link" /\ row[2] = t.typed.slug
  /\ Stage(t) \in {"look", "clear", "link", "commit"}
  /\ Stage(t) \in {"look", "clear"} => t.inserted = {} /\ t.deleted = {} /\ Coming(t) = {}
  /\ Stage(t) = "clear" => LinksOf(t.typed.slug, View(rs, t)) \ t.targets \subseteq t.came
  /\ Stage(t) \in {"link", "commit"} =>
       LinksOf(t.typed.slug, View(rs, t)) \ AskedLinks(t) \subseteq t.came
  /\ Stage(t) = "link" =>
       t.pc = "link" /\ t.todo = <<[slug |-> t.typed.slug, topics |-> t.typed.topics]>>
  /\ Stage(t) = "commit" => AskedLinks(t) \subseteq Had(rs, t)
  /\ Coming(t) \subseteq AskedLinks(t)

RunInv(rs, t) ==
  /\ IsRun(t)
  /\ t.deleted \subseteq rs /\ t.inserted \cap rs \subseteq t.deleted
  /\ Stage(t) = "idle" => t.inserted = {} /\ t.deleted = {} /\ Coming(t) = {}
  /\ Stage(t) \in {"idle", "sources"} => t.typed.do \in {"nothing", "seed"}
  /\ Stage(t) = "clear" => t.typed.do = "set-topics"
  /\ t.typed.do = "seed" => SeedRun(rs, t)
  /\ t.typed.do = "set-topics" => SetRun(rs, t)

CatInv ==
  /\ DOMAIN command = Operators /\ command = [o \in Operators |-> command[o]]
  /\ \A o \in Operators : RunInv(rows, command[o])
  /\ \A o \in Operators : \A p \in Operators \ {o} : Apart(command[o], command[p])
-----------------------------------------------------------------------------
(* A command that has not begun, or has been abandoned.                    *)
LEMMA IdleRun == IsRun(Idle) /\ (\A rs : RunInv(rs, Idle)) /\ \A t : Apart(Idle, t) /\ Apart(t, Idle)
BY DEF Idle, Run, IsRun, RunInv, Stage, Coming, Apart

LEMMA CatStarts == CatInit => CatInv
<1> SUFFICES ASSUME CatInit PROVE CatInv
  OBVIOUS
<1>1. \A o \in Operators : command[o] = Idle
  BY DEF CatInit
<1>2. DOMAIN command = Operators /\ command = [o \in Operators |-> command[o]]
  BY DEF CatInit
<1> QED
  BY <1>1, <1>2, IdleRun DEF CatInv

(* Steps of one command that commit nothing.                               *)
LEMMA OneRunMoves ==
  ASSUME CatInv, NEW o \in Operators, NEW t,
         command' = [command EXCEPT ![o] = t], rows' = rows,
         RunInv(rows, t), \A p \in Operators \ {o} : Apart(t, command[p])
  PROVE  CatInv'
<1>1. DOMAIN command' = Operators /\ command' = [p \in Operators |-> command'[p]]
  BY DEF CatInv
<1>2. command'[o] = t /\ \A p \in Operators : p # o => command'[p] = command[p]
  BY DEF CatInv
<1>3. \A p \in Operators : RunInv(rows, command'[p])
  BY <1>2 DEF CatInv
<1>4. ASSUME NEW p \in Operators, NEW q \in Operators \ {p}
      PROVE  Apart(command'[p], command'[q])
  BY <1>2, <1>4 DEF CatInv, Apart
<1> QED
  BY <1>1, <1>3, <1>4 DEF CatInv

(* A step that writes no rows.                                             *)
LEMMA NoRowsWritten ==
  ASSUME CatInv, NEW o \in Operators, NEW t,
         t.inserted = command[o].inserted, t.deleted = command[o].deleted,
         command' = [command EXCEPT ![o] = t], rows' = rows, RunInv(rows, t)
  PROVE  CatInv'
<1>1. \A p \in Operators \ {o} : Apart(t, command[p])
  BY DEF CatInv, Apart
<1> QED
  BY <1>1, OneRunMoves

LEMMA AbandonKeeps ==
  ASSUME CatInv, NEW o \in Operators, Abandon(o)
  PROVE  CatInv'
BY IdleRun, OneRunMoves DEF Abandon, StaysCommitted

LEMMA TypeKeeps ==
  ASSUME CatInv, NEW o \in Operators, Type(o)
  PROVE  CatInv'
<1>1. PICK typed \in Commands : command' = [command EXCEPT ![o] = Run(typed, "look")]
  BY DEF Type
<1> DEFINE t == Run(typed, "look")
<1>2. /\ IsRun(t) /\ t.pc = "look" /\ t.typed = typed /\ t.todo = <<>> /\ t.inserted = {}
      /\ t.deleted = {} /\ t.targets = {} /\ t.turned = {}
  BY DEF Run, IsRun
<1> HIDE DEF t
<1>3. RunInv(rows, t)
  BY <1>2 DEF RunInv, SeedRun, SetRun, Stage, Coming
<1>4. \A p \in Operators \ {o} : Apart(t, command[p])
  BY <1>2 DEF Apart
<1> QED
  BY <1>1, <1>3, <1>4, OneRunMoves DEF t, Type, StaysCommitted

(* The step to an INSERT.                                                  *)
Inserting(old, new, then, todo) ==
  [old EXCEPT !.pc = "insert", !.pending = new, !.then = then, !.todo = todo]

LEMMA ToInsert ==
  ASSUME CatInv, NEW o \in Operators, NEW new, NEW then, NEW todo,
         InsertNext(o, new, then, todo),
         NEW t, t = Inserting(command[o], new, then, todo)
  PROVE  /\ command' = [command EXCEPT ![o] = t] /\ rows' = rows
         /\ IsRun(t) /\ t.pc = "insert" /\ t.pending = new /\ t.then = then /\ t.todo = todo
         /\ t.typed = command[o].typed /\ t.targets = command[o].targets
         /\ t.inserted = command[o].inserted /\ t.deleted = command[o].deleted
         /\ t.turned = command[o].turned /\ t.came = command[o].came
         /\ t.went = command[o].went
         /\ View(rows, t) = View(rows, command[o]) /\ Stage(t) = then /\ Coming(t) = new
<1>1. IsRun(command[o]) /\ command = [p \in Operators |-> command[p]]
  BY DEF CatInv, RunInv
<1>2. /\ IsRun(t) /\ t.pc = "insert" /\ t.pending = new /\ t.then = then /\ t.todo = todo
      /\ t.typed = command[o].typed /\ t.targets = command[o].targets
      /\ t.inserted = command[o].inserted /\ t.deleted = command[o].deleted
      /\ t.turned = command[o].turned /\ t.came = command[o].came
      /\ t.went = command[o].went
  BY <1>1 DEF IsRun, Inserting
<1>3. command' = [command EXCEPT ![o] = t] /\ rows' = rows
  BY <1>1 DEF InsertNext, Inserting, StaysCommitted
<1> QED
  BY <1>2, <1>3 DEF View, Stage, Coming

LEMMA SeedTopicsKeeps ==
  ASSUME CatInv, NEW o \in Operators, SeedTheTopics(o)
  PROVE  CatInv'
<1> DEFINE old == command[o]
           new == TopicRows(SeedTopics) \ Selected(o)
           t == Inserting(old, new, "sources", <<>>)
<1>1. old.pc = "look" /\ old.typed.do = "seed" /\ InsertNext(o, new, "sources", <<>>)
  BY DEF SeedTheTopics, Does, CommandAt, Typed
<1>2. RunInv(rows, old) /\ Selected(o) = View(rows, old)
  BY DEF CatInv, Selected, View
<1>3. /\ command' = [command EXCEPT ![o] = t] /\ rows' = rows
      /\ IsRun(t) /\ t.pc = "insert" /\ t.todo = <<>>
      /\ t.typed = old.typed /\ t.targets = old.targets
      /\ t.inserted = old.inserted /\ t.deleted = old.deleted
      /\ t.turned = old.turned
      /\ View(rows, t) = View(rows, old) /\ Stage(t) = "sources" /\ Coming(t) = new
  <2>1. t = Inserting(command[o], new, "sources", <<>>)
    OBVIOUS
  <2> HIDE DEF t, new
  <2> QED
    BY <2>1, <1>1, ToInsert
<1> HIDE DEF t, old
<1>4. new \subseteq SeedRows
  BY DEF SeedRows
<1>5. SeedRun(rows, t)
  BY <1>1, <1>2, <1>3, <1>4 DEF RunInv, SeedRun, Stage, Coming, Had
<1>6. RunInv(rows, t)
  BY <1>1, <1>2, <1>3, <1>5 DEF RunInv
<1> QED
  BY <1>3, <1>6, NoRowsWritten DEF old

LEMMA SeedSourcesKeeps ==
  ASSUME CatInv, NEW o \in Operators, SeedTheSources(o)
  PROVE  CatInv'
<1> DEFINE old == command[o]
           entry(seed) == [slug |-> seed.slug, topics |-> seed.topics,
                           new |-> SourceRow(seed.slug) \notin Selected(o)]
           list == [i \in DOMAIN SeedSources |-> entry(SeedSources[i])]
           t == [old EXCEPT !.pc = "source", !.todo = list]
<1>1. old.pc = "sources"
  BY DEF SeedTheSources, CommandAt
<1>2. /\ RunInv(rows, old) /\ IsRun(old) /\ Selected(o) = View(rows, old)
      /\ command = [p \in Operators |-> command[p]]
  BY DEF CatInv, Selected, View, RunInv
<1>3. command' = [command EXCEPT ![o] = t] /\ rows' = rows
  BY <1>2 DEF SeedTheSources, StaysCommitted
<1>4. /\ IsRun(t) /\ t.pc = "source" /\ t.todo = list
      /\ t.typed = old.typed /\ t.targets = old.targets
      /\ t.inserted = old.inserted /\ t.deleted = old.deleted
      /\ t.turned = old.turned /\ t.came = old.came /\ t.went = old.went
  BY <1>2 DEF IsRun
<1>5. old.typed.do \in {"nothing", "seed"}
  BY <1>1, <1>2 DEF RunInv, Stage
<1>6. list \in Seq(SeedEntries) /\ DOMAIN list = DOMAIN SeedSources /\ list # <<>>
  <2>1. Len(SeedSources) \in Nat /\ DOMAIN SeedSources = 1..Len(SeedSources)
    BY CatalogueAssumption
  <2>2. Len(SeedSources) # 0
    BY CatalogueAssumption
  <2>3. ASSUME NEW i \in DOMAIN SeedSources PROVE list[i] \in SeedEntries
    <3> DEFINE missing == SourceRow(SeedSources[i].slug) \notin Selected(o)
    <3>1. /\ list[i] = [slug |-> SeedSources[i].slug, topics |-> SeedSources[i].topics,
                        new |-> missing]
          /\ missing \in BOOLEAN
      OBVIOUS
    <3> HIDE DEF missing
    <3> QED
      BY <3>1 DEF SeedEntries
  <2>4. list \in [1..Len(SeedSources) -> SeedEntries]
    BY <2>1, <2>3
  <2> QED
    BY <2>1, <2>2, <2>4
<1>7. \A i \in DOMAIN list : /\ list[i].slug = SeedSources[i].slug
                             /\ list[i].topics = SeedSources[i].topics
                             /\ list[i].new \/ SourceRow(list[i].slug) \in View(rows, old)
  BY <1>2
<1> HIDE DEF t, old, list
<1>8. View(rows, t) = View(rows, old) /\ Stage(t) = "source" /\ Coming(t) = {}
  BY <1>4 DEF View, Stage, Coming
<1>9. Stage(old) = "sources" /\ Coming(old) = {}
  BY <1>1 DEF Stage, Coming
<1>10. ASSUME old.typed.do = "seed" PROVE SeedRun(rows, t)
  <2>1. SeedRun(rows, old)
    BY <1>2, <1>10 DEF RunInv
  <2>2. \A i \in DOMAIN SeedSources : SourceDone(rows, t, i)
    BY <1>4, <1>6, <1>7 DEF SourceDone
  <2>3. \A k \in DOMAIN t.todo : t.todo[k].new \/ SourceRow(t.todo[k].slug) \in Had(rows, t)
    BY <1>4, <1>7, <1>8 DEF Had
  <2> QED
    BY <2>1, <2>2, <2>3, <1>4, <1>6, <1>8, <1>9 DEF SeedRun, Had
<1>11. RunInv(rows, t)
  BY <1>2, <1>4, <1>5, <1>8, <1>10 DEF RunInv
<1> QED
  BY <1>3, <1>4, <1>11, NoRowsWritten DEF old

LEMMA AddTopicKeeps ==
  ASSUME CatInv, NEW o \in Operators, AddTopic(o)
  PROVE  CatInv'
<1> DEFINE old == command[o]
           new == TopicRows({Typed(o).slug})
           t == Inserting(old, new, "commit", <<>>)
<1>1. old.pc = "look" /\ old.typed.do = "add-topic"
  BY DEF AddTopic, Does, CommandAt, Typed
<1>2. CASE Abandon(o)
  BY <1>2, AbandonKeeps
<1>3. CASE InsertNext(o, new, "commit", <<>>)
  <2>1. /\ command' = [command EXCEPT ![o] = t] /\ rows' = rows
        /\ IsRun(t) /\ t.typed = old.typed /\ t.inserted = old.inserted
        /\ t.deleted = old.deleted /\ Stage(t) = "commit"
    BY <1>3, ToInsert
  <2> HIDE DEF t
  <2>2. RunInv(rows, t)
    BY <1>1, <2>1 DEF CatInv, RunInv
  <2> QED
    BY <2>1, <2>2, NoRowsWritten
<1> QED
  BY <1>2, <1>3 DEF AddTopic

LEMMA AddSourceKeeps ==
  ASSUME CatInv, NEW o \in Operators, AddSource(o)
  PROVE  CatInv'
<1> DEFINE old == command[o]
           typed == Typed(o)
           list == <<[slug |-> typed.slug, topics |-> typed.topics, new |-> TRUE]>>
           t == [old EXCEPT !.pc = "source", !.todo = list]
<1>1. old.pc = "look" /\ old.typed.do = "add-source"
  BY DEF AddSource, Does, CommandAt, Typed
<1>2. CASE Abandon(o)
  BY <1>2, AbandonKeeps
<1>3. CASE ~ Abandon(o)
  <2>1. IsRun(old) /\ RunInv(rows, old) /\ command = [p \in Operators |-> command[p]]
    BY DEF CatInv, RunInv
  <2>2. command' = [command EXCEPT ![o] = t] /\ rows' = rows
    BY <1>3, <2>1 DEF AddSource, StaysCommitted
  <2>3. /\ IsRun(t) /\ t.pc = "source" /\ t.typed = old.typed /\ t.inserted = old.inserted
        /\ t.deleted = old.deleted
    BY <2>1 DEF IsRun
  <2> HIDE DEF t, old
  <2>4. RunInv(rows, t)
    BY <1>1, <2>1, <2>3 DEF RunInv, Stage
  <2> QED
    BY <2>2, <2>3, <2>4, NoRowsWritten DEF old
<1> QED
  BY <1>2, <1>3

LEMMA SetEnabledKeeps ==
  ASSUME CatInv, NEW o \in Operators, SetEnabled(o)
  PROVE  CatInv'
<1> DEFINE old == command[o]
<1>1. old.pc = "look" /\ old.typed.do \in {"enable", "disable"}
  BY DEF SetEnabled, Does, CommandAt, Typed
<1>2. CASE Abandon(o)
  BY <1>2, AbandonKeeps
<1>3. CASE ~ Abandon(o)
  <2>1. IsRun(old) /\ RunInv(rows, old) /\ command = [p \in Operators |-> command[p]]
    BY DEF CatInv, RunInv
  <2>2. PICK rs : /\ command' = [command EXCEPT ![o].pc = "commit", ![o].turned = rs]
                  /\ rows' = rows
    BY <1>3 DEF SetEnabled, StaysCommitted
  <2> DEFINE t == [old EXCEPT !.pc = "commit", !.turned = rs]
  <2>3. command' = [command EXCEPT ![o] = t]
    BY <2>1, <2>2
  <2>4. /\ IsRun(t) /\ t.pc = "commit" /\ t.typed = old.typed /\ t.inserted = old.inserted
        /\ t.deleted = old.deleted
    BY <2>1 DEF IsRun
  <2> HIDE DEF t, old
  <2>5. RunInv(rows, t)
    BY <1>1, <2>1, <2>4 DEF RunInv, Stage
  <2> QED
    BY <2>2, <2>3, <2>4, <2>5, NoRowsWritten DEF old
<1> QED
  BY <1>2, <1>3

LEMMA StartClearingKeeps ==
  ASSUME CatInv, NEW o \in Operators, StartClearing(o)
  PROVE  CatInv'
<1> DEFINE old == command[o]
           t == [old EXCEPT !.pc = "clear", !.targets = OldLinks(o), !.came = {}]
<1>1. old.pc = "look" /\ old.typed.do = "set-topics"
  BY DEF StartClearing, Does, CommandAt, Typed
<1>2. CASE Abandon(o)
  BY <1>2, AbandonKeeps
<1>3. CASE ~ Abandon(o)
  <2>1. IsRun(old) /\ RunInv(rows, old) /\ command = [p \in Operators |-> command[p]]
    BY DEF CatInv, RunInv
  <2>2. command' = [command EXCEPT ![o] = t] /\ rows' = rows
    BY <1>3, <2>1 DEF StartClearing, StaysCommitted
  <2>3. /\ IsRun(t) /\ t.pc = "clear" /\ t.typed = old.typed /\ t.inserted = old.inserted
        /\ t.deleted = old.deleted /\ t.turned = old.turned
        /\ t.targets = LinksOf(old.typed.slug, View(rows, t))
    BY <2>1 DEF IsRun, OldLinks, LinksOf, View, Selected, Typed
  <2> HIDE DEF t, old
  <2>4. SetRun(rows, t)
    BY <1>1, <2>1, <2>3 DEF RunInv, SetRun, Stage, Coming, LinksOf
  <2>5. RunInv(rows, t)
    BY <1>1, <2>1, <2>3, <2>4 DEF RunInv, Stage
  <2> QED
    BY <2>2, <2>3, <2>5, NoRowsWritten DEF old
<1> QED
  BY <1>2, <1>3

LEMMA EndClearingKeeps ==
  ASSUME CatInv, NEW o \in Operators, EndClearing(o)
  PROVE  CatInv'
<1> DEFINE old == command[o]
           list == <<[slug |-> old.typed.slug, topics |-> old.typed.topics]>>
           t == [old EXCEPT !.pc = "link", !.deleted = old.targets \cap rows, !.targets = {},
                            !.todo = list]
<1>1. /\ old.pc = "clear" /\ rows' = rows
      /\ \A p \in Operators \ {o} : old.targets \cap command[p].deleted = {}
  BY DEF EndClearing, CommandAt, StaysCommitted
<1>2. IsRun(old) /\ RunInv(rows, old) /\ command = [p \in Operators |-> command[p]]
  BY DEF CatInv, RunInv
<1>3. command' = [command EXCEPT ![o] = t]
  BY <1>2 DEF EndClearing, Typed
<1>4. /\ IsRun(t) /\ t.pc = "link" /\ t.typed = old.typed /\ t.inserted = old.inserted
      /\ t.deleted = old.targets \cap rows /\ t.targets = {} /\ t.turned = old.turned
      /\ t.came = old.came /\ t.todo = list
  BY <1>2 DEF IsRun
<1> HIDE DEF t, old
<1>5. old.typed.do = "set-topics" /\ SetRun(rows, old) /\ Stage(old) = "clear"
  BY <1>1, <1>2 DEF RunInv, Stage
<1>6. old.inserted = {} /\ old.deleted = {}
  BY <1>5 DEF SetRun
<1>7. Stage(t) = "link" /\ Coming(t) = {}
  BY <1>4 DEF Stage, Coming
<1>8. SetRun(rows, t)
  BY <1>4, <1>5, <1>6, <1>7 DEF SetRun, LinksOf, View
<1>9. RunInv(rows, t)
  BY <1>2, <1>4, <1>5, <1>6, <1>7, <1>8 DEF RunInv
<1>10. ASSUME NEW p \in Operators \ {o} PROVE Apart(t, command[p])
  <2>1. RunInv(rows, command[p])
    BY DEF CatInv
  <2> QED
    BY <2>1, <1>1, <1>4, <1>6 DEF RunInv, Apart
<1> QED
  BY <1>1, <1>3, <1>9, <1>10, OneRunMoves

LEMMA InsertSourceKeeps ==
  ASSUME CatInv, NEW o \in Operators, InsertSource(o)
  PROVE  CatInv'
<1> DEFINE old == command[o]
           source == Head(old.todo)
           new == IF source.new THEN {SourceRow(source.slug)} ELSE {}
           t == Inserting(old, new, "link", old.todo)
<1>1. old.pc = "source" /\ InsertNext(o, new, "link", old.todo)
  BY DEF InsertSource, CommandAt
<1>2. RunInv(rows, old)
  BY DEF CatInv
<1>3. /\ command' = [command EXCEPT ![o] = t] /\ rows' = rows
      /\ IsRun(t) /\ t.pc = "insert" /\ t.todo = old.todo
      /\ t.typed = old.typed /\ t.targets = old.targets
      /\ t.inserted = old.inserted /\ t.deleted = old.deleted
      /\ t.turned = old.turned /\ t.came = old.came /\ t.went = old.went
      /\ View(rows, t) = View(rows, old) /\ Stage(t) = "link" /\ Coming(t) = new
  BY <1>1, ToInsert
<1>4. Stage(old) = "source" /\ Coming(old) = {}
  BY <1>1 DEF Stage, Coming
<1> HIDE DEF t, old, new, source
<1>5. old.typed.do # "set-topics"
  BY <1>2, <1>4 DEF RunInv, SetRun
<1>6. ASSUME old.typed.do = "seed" PROVE SeedRun(rows, t)
  <2>1. SeedRun(rows, old)
    BY <1>2, <1>6 DEF RunInv
  <2>2. Had(rows, old) \subseteq Had(rows, t)
    BY <1>3, <1>4 DEF Had
  <2>3. old.todo \in Seq(SeedEntries) /\ old.todo # <<>>
    BY <2>1, <1>4 DEF SeedRun
  <2>4. 1 \in DOMAIN old.todo /\ source = old.todo[1] /\ source \in SeedEntries
    BY <2>3 DEF source
  <2>5. new \subseteq SeedRows
    BY <2>4 DEF new, SeedRows, SeedEntries
  <2>6. SourceRow(source.slug) \in Had(rows, t)
    BY <2>1, <2>2, <2>4, <1>3, <1>4 DEF SeedRun, Had, new
  <2>7. \A i \in DOMAIN SeedSources : SourceDone(rows, t, i)
    BY <2>1, <2>2, <1>3, <1>4 DEF SeedRun, SourceDone
  <2>8. \A k \in DOMAIN t.todo : t.todo[k].new \/ SourceRow(t.todo[k].slug) \in Had(rows, t)
    BY <2>1, <2>2, <1>3, <1>4 DEF SeedRun
  <2>9. TopicRows(SeedTopics) \subseteq Had(rows, t)
    BY <2>1, <2>2, <1>4 DEF SeedRun
  <2>10. t.inserted \cup Coming(t) \subseteq SeedRows /\ t.deleted = {} /\ t.targets = {} /\ t.turned = {}
    BY <2>1, <2>5, <1>3 DEF SeedRun
  <2> QED
    BY <2>3, <2>6, <2>7, <2>8, <2>9, <2>10, <1>3 DEF SeedRun, source
<1>7. RunInv(rows, t)
  BY <1>2, <1>3, <1>5, <1>6 DEF RunInv
<1> QED
  BY <1>3, <1>7, NoRowsWritten DEF old

LEMMA LinkTopicsKeeps ==
  ASSUME CatInv, NEW o \in Operators, LinkTopics(o)
  PROVE  CatInv'
<1> DEFINE old == command[o]
           source == Head(old.todo)
           rest == Tail(old.todo)
           links == LinkRows(source.slug, source.topics)
           new == links \ Selected(o)
           then == IF rest = <<>> THEN "commit" ELSE "source"
           t == Inserting(old, new, then, rest)
<1>1. CASE Abandon(o)
  BY <1>1, AbandonKeeps
<1>2. CASE InsertNext(o, new, then, rest)
  <2>1. old.pc = "link"
    BY DEF LinkTopics, CommandAt
  <2>2. RunInv(rows, old) /\ Selected(o) = View(rows, old)
    BY DEF CatInv, Selected, View
  <2>3. /\ command' = [command EXCEPT ![o] = t] /\ rows' = rows
        /\ IsRun(t) /\ t.pc = "insert" /\ t.todo = rest
        /\ t.typed = old.typed /\ t.targets = old.targets
        /\ t.inserted = old.inserted /\ t.deleted = old.deleted
        /\ t.turned = old.turned /\ t.came = old.came /\ t.went = old.went
        /\ View(rows, t) = View(rows, old) /\ Stage(t) = then /\ Coming(t) = new
    <3>1. t = Inserting(command[o], new, then, rest)
      OBVIOUS
    <3> HIDE DEF t, new, then, rest
    <3> QED
      BY <3>1, <1>2, ToInsert
  <2>4. Stage(old) = "link" /\ Coming(old) = {}
    BY <2>1 DEF Stage, Coming
  <2>5. links \subseteq View(rows, t) \cup Coming(t) /\ new \subseteq links
    BY <2>2, <2>3
  <2>6. then \in {"commit", "source"} /\ (then = "commit" <=> rest = <<>>)
    OBVIOUS
  <2> HIDE DEF t, old, new, source, rest, links, then
  <2>7. Had(rows, old) \subseteq Had(rows, t) /\ links \subseteq Had(rows, t)
    BY <2>3, <2>4, <2>5 DEF Had
  <2>8. ASSUME old.typed.do = "seed" PROVE SeedRun(rows, t)
    <3>1. SeedRun(rows, old)
      BY <2>2, <2>8 DEF RunInv
    <3>2. old.todo \in Seq(SeedEntries) /\ old.todo # <<>>
      BY <3>1, <2>4 DEF SeedRun
    <3>3. 1 \in DOMAIN old.todo /\ source = old.todo[1] /\ source \in SeedEntries
      BY <3>2 DEF source
    <3>4. rest \in Seq(SeedEntries) /\ \A k \in DOMAIN rest : k + 1 \in DOMAIN old.todo /\ rest[k] = old.todo[k + 1]
      BY <3>2 DEF rest
    <3>5. \A k \in DOMAIN old.todo : k = 1 \/ (k - 1 \in DOMAIN rest /\ rest[k - 1] = old.todo[k])
      BY <3>2 DEF rest
    <3>6. links \subseteq SeedRows
      BY <3>3 DEF links, SeedRows, SeedEntries
    <3>7. SourceRow(source.slug) \in Had(rows, t)
      BY <3>1, <2>4, <2>7 DEF SeedRun, source
    <3>8. ASSUME NEW i \in DOMAIN SeedSources PROVE SourceDone(rows, t, i)
      <4>1. SourceDone(rows, old, i)
        BY <3>1, <2>4 DEF SeedRun
      <4>2. CASE /\ SourceRow(SeedSources[i].slug) \in Had(rows, old)
                 /\ LinkRows(SeedSources[i].slug, SeedSources[i].topics) \subseteq Had(rows, old)
        BY <4>2, <2>7 DEF SourceDone
      <4>3. ASSUME NEW k \in DOMAIN old.todo, old.todo[k].slug = SeedSources[i].slug,
                   old.todo[k].topics = SeedSources[i].topics
            PROVE  SourceDone(rows, t, i)
        BY <4>3, <3>3, <3>5, <3>7, <2>3, <2>7 DEF SourceDone, links
      <4> QED
        BY <4>1, <4>2, <4>3 DEF SourceDone
    <3>9. \A k \in DOMAIN t.todo : t.todo[k].new \/ SourceRow(t.todo[k].slug) \in Had(rows, t)
      BY <3>1, <3>4, <2>3, <2>4, <2>7 DEF SeedRun
    <3>10. TopicRows(SeedTopics) \subseteq Had(rows, t)
      BY <3>1, <2>4, <2>7 DEF SeedRun
    <3>11. /\ t.inserted \cup Coming(t) \subseteq SeedRows
           /\ t.deleted = {} /\ t.targets = {} /\ t.turned = {}
      BY <3>1, <3>6, <2>3, <2>5 DEF SeedRun
    <3> QED
      BY <3>4, <3>8, <3>9, <3>10, <3>11, <2>3, <2>6 DEF SeedRun
  <2>9. ASSUME old.typed.do = "set-topics" PROVE SetRun(rows, t)
    <3>1. SetRun(rows, old)
      BY <2>2, <2>9 DEF RunInv
    <3>2. old.todo = <<[slug |-> old.typed.slug, topics |-> old.typed.topics]>>
      BY <3>1, <2>4 DEF SetRun
    <3>3. rest = <<>> /\ source.slug = old.typed.slug /\ source.topics = old.typed.topics
      BY <3>2 DEF rest, source
    <3>4. links = AskedLinks(t) /\ AskedLinks(old) = AskedLinks(t)
      BY <3>3, <2>3 DEF links, AskedLinks
    <3>5. \A row \in links : row[1] = "link" /\ row[2] = t.typed.slug
      BY <3>3, <2>3 DEF links, LinkRows
    <3> QED
      BY <3>1, <3>3, <3>4, <3>5, <2>3, <2>4, <2>5, <2>6, <2>7 DEF SetRun
  <2>10. RunInv(rows, t)
    BY <2>2, <2>3, <2>6, <2>8, <2>9 DEF RunInv
  <2> QED
    BY <2>3, <2>10, NoRowsWritten DEF old
<1> QED
  BY <1>1, <1>2 DEF LinkTopics

LEMMA InsertRowsKeeps ==
  ASSUME CatInv, NEW o \in Operators, InsertRows(o)
  PROVE  CatInv'
<1> DEFINE old == command[o]
           new == old.pending
           t == [old EXCEPT !.pc = old.then, !.inserted = @ \cup new, !.pending = {}]
<1>1. CASE Abandon(o)
  BY <1>1, AbandonKeeps
<1>2. CASE ~ Abandon(o)
  <2>1. /\ old.pc = "insert" /\ rows' = rows /\ new \cap Selected(o) = {}
        /\ \A p \in Operators \ {o} :
             new \cap (command[p].inserted \cup command[p].deleted) = {}
    BY <1>2 DEF InsertRows, CommandAt, StaysCommitted
  <2>2. /\ IsRun(old) /\ RunInv(rows, old) /\ Selected(o) = View(rows, old)
        /\ command = [p \in Operators |-> command[p]]
    BY DEF CatInv, RunInv, Selected, View
  <2>3. command' = [command EXCEPT ![o] = t]
    BY <1>2, <2>2 DEF InsertRows
  <2>4. /\ IsRun(t) /\ t.pc = old.then /\ t.pending = {} /\ t.then = old.then
        /\ t.todo = old.todo /\ t.typed = old.typed /\ t.targets = old.targets
        /\ t.inserted = old.inserted \cup new /\ t.deleted = old.deleted
        /\ t.turned = old.turned /\ t.came = old.came /\ t.went = old.went
    BY <2>2 DEF IsRun
  <2> HIDE DEF t, old, new
  <2>5. Stage(t) = Stage(old) /\ Coming(t) = {} /\ Coming(old) = new
    BY <2>1, <2>4 DEF Stage, Coming, new
  <2>6. View(rows, t) = View(rows, old) \cup new /\ Had(rows, t) = Had(rows, old)
    BY <2>4, <2>5 DEF View, Had
  <2>7. \A i \in DOMAIN SeedSources : SourceDone(rows, old, i) => SourceDone(rows, t, i)
    BY <2>4, <2>6 DEF SourceDone
  <2>8. ASSUME old.typed.do = "seed" PROVE SeedRun(rows, t)
    <3>1. SeedRun(rows, old)
      BY <2>2, <2>8 DEF RunInv
    <3> QED
      BY <3>1, <2>4, <2>5, <2>6, <2>7 DEF SeedRun
  <2>9. ASSUME old.typed.do = "set-topics" PROVE SetRun(rows, t)
    <3>1. SetRun(rows, old)
      BY <2>2, <2>9 DEF RunInv
    <3>2. AskedLinks(old) = AskedLinks(t)
      BY <2>4 DEF AskedLinks
    <3>3. Stage(old) # "link"
      BY <3>1, <2>1 DEF SetRun
    <3>4. Stage(old) \in {"look", "clear"} => new = {}
      BY <3>1, <2>5 DEF SetRun
    <3>5. Stage(old) = "commit" => LinksOf(t.typed.slug, View(rows, t)) \ AskedLinks(t) \subseteq t.came
      BY <3>1, <3>2, <2>4, <2>5, <2>6 DEF SetRun, LinksOf
    <3>6. Stage(old) = "clear" => LinksOf(t.typed.slug, View(rows, t)) \ t.targets \subseteq t.came
      BY <3>1, <3>4, <2>4, <2>6 DEF SetRun, LinksOf
    <3>7. \A row \in t.inserted \cup t.deleted \cup t.targets \cup Coming(t) :
             row[1] = "link" /\ row[2] = t.typed.slug
      BY <3>1, <2>4, <2>5 DEF SetRun
    <3> QED
      BY <3>1, <3>2, <3>3, <3>4, <3>5, <3>6, <3>7, <2>4, <2>5, <2>6 DEF SetRun
  <2>10. RunInv(rows, t)
    BY <2>1, <2>2, <2>4, <2>5, <2>8, <2>9 DEF RunInv, View
  <2>11. ASSUME NEW p \in Operators \ {o} PROVE Apart(t, command[p])
    <3>1. Apart(old, command[p])
      BY DEF CatInv, old
    <3> QED
      BY <3>1, <2>1, <2>4 DEF Apart
  <2> QED
    BY <2>1, <2>3, <2>10, <2>11, OneRunMoves
<1> QED
  BY <1>1, <1>2

(* What a commit leaves of another command's invariant.                    *)
LEMMA OtherRunsKeep ==
  ASSUME CatInv, NEW o \in Operators, NEW p \in Operators \ {o}, NEW t,
         t = [command[p] EXCEPT !.targets = @ \ command[o].deleted,
                                !.came = @ \cup command[o].inserted,
                                !.went = @ \cup (rows \ Selected(o))]
  PROVE  /\ RunInv(Selected(o), t)
         /\ t.inserted = command[p].inserted /\ t.deleted = command[p].deleted
<1> DEFINE old == command[p]
           after == Selected(o)
<1>1. /\ IsRun(old) /\ RunInv(rows, old) /\ RunInv(rows, command[o]) /\ Apart(old, command[o])
      /\ after = View(rows, command[o])
  BY DEF CatInv, RunInv, Selected, View
<1>2. /\ IsRun(t) /\ t.pc = old.pc /\ t.pending = old.pending /\ t.then = old.then
      /\ t.todo = old.todo /\ t.typed = old.typed
      /\ t.targets = old.targets \ command[o].deleted
      /\ t.inserted = old.inserted /\ t.deleted = old.deleted
      /\ t.turned = old.turned /\ t.came = old.came \cup command[o].inserted
      /\ t.went = old.went \cup (rows \ after)
  BY <1>1 DEF IsRun
<1> HIDE DEF after, old
<1>3. Stage(t) = Stage(old) /\ Coming(t) = Coming(old) /\ AskedLinks(t) = AskedLinks(old)
  BY <1>2 DEF Stage, Coming, AskedLinks
<1>4. /\ View(after, t) \ View(rows, old) \subseteq command[o].inserted
      /\ View(rows, old) \ View(after, t) \subseteq rows \ after
  BY <1>1, <1>2 DEF View
<1>10. View(after, t) \ t.targets \subseteq (View(rows, old) \ old.targets) \cup command[o].inserted
  BY <1>1, <1>2, <1>4 DEF View, Apart
<1>5. Had(rows, old) \subseteq Had(after, t)
  BY <1>2, <1>3, <1>4 DEF Had
<1>6. t.deleted \subseteq after /\ t.inserted \cap after \subseteq t.deleted
  BY <1>1, <1>2 DEF Apart, RunInv, View
<1>7. ASSUME old.typed.do = "seed" PROVE SeedRun(after, t)
  <2>1. SeedRun(rows, old)
    BY <1>1, <1>7 DEF RunInv
  <2>2. \A i \in DOMAIN SeedSources : SourceDone(rows, old, i) => SourceDone(after, t, i)
    BY <1>2, <1>5 DEF SourceDone
  <2> QED
    BY <2>1, <2>2, <1>2, <1>3, <1>5 DEF SeedRun
<1>8. ASSUME old.typed.do = "set-topics" PROVE SetRun(after, t)
  <2>1. SetRun(rows, old)
    BY <1>1, <1>8 DEF RunInv
  <2>2. LinksOf(t.typed.slug, View(after, t)) \ LinksOf(t.typed.slug, View(rows, old)) \subseteq t.came
    BY <1>2, <1>4 DEF LinksOf
  <2>3. LinksOf(t.typed.slug, View(after, t)) \ t.targets \subseteq
          (LinksOf(t.typed.slug, View(rows, old)) \ old.targets) \cup t.came
    BY <1>2, <1>10 DEF LinksOf
  <2> QED
    BY <2>1, <2>2, <2>3, <1>2, <1>3, <1>5 DEF SetRun
<1>9. RunInv(after, t)
  BY <1>1, <1>2, <1>3, <1>6, <1>7, <1>8 DEF RunInv
<1> QED
  BY <1>2, <1>9 DEF after, old

LEMMA CommitCommandKeeps ==
  ASSUME CatInv, NEW o \in Operators, CommitCommand(o)
  PROVE  CatInv'
<1> DEFINE after == Selected(o)
           told(p) == [command[p] EXCEPT !.targets = @ \ command[o].deleted,
                                         !.came = @ \cup command[o].inserted,
                                         !.went = @ \cup (rows \ after)]
<1>1. /\ rows' = after
      /\ command' = [p \in Operators |-> IF p = o THEN Idle
                                         ELSE IF CommandAt(p, "idle") THEN command[p] ELSE told(p)]
  BY DEF CommitCommand
<1>2. DOMAIN command' = Operators /\ command' = [p \in Operators |-> command'[p]]
  BY <1>1
<1>3. \A p \in Operators : command'[p] = IF p = o THEN Idle
                                         ELSE IF CommandAt(p, "idle") THEN command[p] ELSE told(p)
  BY <1>1
<1>4. \A p \in Operators \ {o} : /\ RunInv(after, told(p))
                                 /\ told(p).inserted = command[p].inserted
                                 /\ told(p).deleted = command[p].deleted
  BY OtherRunsKeep
<1> HIDE DEF after, told
<1>5. ASSUME NEW p \in Operators, CommandAt(p, "idle") PROVE RunInv(after, command[p])
  <2>1. RunInv(rows, command[p]) /\ Stage(command[p]) = "idle"
    BY <1>5 DEF CatInv, CommandAt, Stage
  <2> QED
    BY <2>1 DEF RunInv, SeedRun, SetRun
<1>6. \A p \in Operators : RunInv(after, command'[p])
  BY <1>3, <1>4, <1>5, IdleRun
<1>7. \A p \in Operators : \A q \in Operators \ {p} : Apart(command'[p], command'[q])
  <2>1. \A p \in Operators : /\ command'[p].inserted \subseteq command[p].inserted
                             /\ command'[p].deleted \subseteq command[p].deleted
    <3>1. Idle.inserted = {} /\ Idle.deleted = {}
      BY DEF Idle, Run
    <3> QED
      BY <3>1, <1>3, <1>4
  <2> QED
    BY <2>1 DEF CatInv, Apart
<1> QED
  BY <1>1, <1>2, <1>6, <1>7 DEF CatInv

LEMMA CatStep == CatInv /\ [CatNext]_catVars => CatInv'
<1> SUFFICES ASSUME CatInv, [CatNext]_catVars PROVE CatInv'
  OBVIOUS
<1>1. CASE UNCHANGED catVars
  BY <1>1 DEF CatInv, catVars
<1>2. ASSUME NEW o \in Operators, CommandDies(o) PROVE CatInv'
  BY <1>2, AbandonKeeps DEF CommandDies
<1> QED
  BY <1>1, <1>2, TypeKeeps, SeedTopicsKeeps, SeedSourcesKeeps, AddTopicKeeps, AddSourceKeeps,
     SetEnabledKeeps, StartClearingKeeps, EndClearingKeeps, InsertSourceKeeps,
     LinkTopicsKeeps, InsertRowsKeeps, CommitCommandKeeps DEF CatNext

LEMMA CatAlways == CatSpec => []CatInv
BY CatStarts, CatStep, PTL DEF CatSpec

(* At its commit a seed has come by every row it stands for.               *)
LEMMA SeedIsWhole ==
  ASSUME NEW rs, NEW t, SeedRun(rs, t), t.pc = "commit"
  PROVE  SeedRows \subseteq View(rs, t) \cup t.went
<1>1. Stage(t) = "commit" /\ Had(rs, t) = View(rs, t) \cup t.went
  BY DEF Stage, Had, Coming
<1>2. t.todo = <<>> /\ TopicRows(SeedTopics) \subseteq Had(rs, t)
  BY <1>1 DEF SeedRun
<1>3. ASSUME NEW i \in DOMAIN SeedSources
      PROVE  /\ SourceRow(SeedSources[i].slug) \in Had(rs, t)
             /\ LinkRows(SeedSources[i].slug, SeedSources[i].topics) \subseteq Had(rs, t)
  BY <1>1, <1>2 DEF SeedRun, SourceDone
<1> QED
  BY <1>1, <1>2, <1>3 DEF SeedRows

(* seed_catalogue adds the rows of the seed that are missing and nothing   *)
(* else, and set_source_topics leaves the links asked for and touches no   *)
(* other row, but for links that other commands write, or write again,     *)
(* after its DELETE began, or remove meanwhile.                            *)
THEOREM CommandsKeepToTheirOwn == CatSpec => CommandsTouchOnlyTheirOwn
<1> DEFINE Kept(o) ==
      LET typed == command[o].typed IN
      /\ typed.do = "seed" =>
           /\ rows \subseteq rows' /\ rows' \ rows \subseteq SeedRows
           /\ SeedRows \ rows' \subseteq command[o].went
           /\ off' = off
      /\ typed.do = "set-topics" =>
           LET asked == LinkRows(typed.slug, typed.topics) IN
           /\ rows' \ LinksOf(typed.slug, rows') = rows \ LinksOf(typed.slug, rows)
           /\ LinksOf(typed.slug, rows') \ asked \subseteq command[o].came
           /\ asked \ rows' \subseteq command[o].went
<1>1. ASSUME CatInv, NEW o \in Operators, CommitCommand(o) PROVE Kept(o)
  <2> DEFINE t == command[o]
  <2>1. t.pc = "commit" /\ rows' = View(rows, t) /\ RunInv(rows, t)
    BY <1>1 DEF CommitCommand, CommandAt, Selected, View, CatInv
  <2>2. off' = IF t.typed.do = "disable" THEN off \cup t.turned ELSE off \ t.turned
    BY <1>1 DEF CommitCommand, Typed
  <2>3. Stage(t) = "commit" /\ Had(rows, t) = View(rows, t) \cup t.went
    BY <2>1 DEF Stage, Had, Coming
  <2> HIDE DEF t
  <2>4. ASSUME t.typed.do = "seed"
        PROVE  /\ rows \subseteq rows' /\ rows' \ rows \subseteq SeedRows
               /\ SeedRows \ rows' \subseteq t.went
               /\ off' = off
    <3>1. SeedRun(rows, t)
      BY <2>1, <2>4 DEF RunInv
    <3>2. t.deleted = {} /\ t.inserted \subseteq SeedRows /\ t.turned = {}
      BY <3>1 DEF SeedRun
    <3>3. SeedRows \subseteq View(rows, t) \cup t.went
      BY <3>1, <2>1, SeedIsWhole
    <3>4. off' = off
      BY <2>2, <2>4, <3>2
    <3> QED
      BY <2>1, <3>2, <3>3, <3>4 DEF View
  <2>5. ASSUME t.typed.do = "set-topics"
        PROVE  /\ rows' \ LinksOf(t.typed.slug, rows') = rows \ LinksOf(t.typed.slug, rows)
               /\ LinksOf(t.typed.slug, rows') \ AskedLinks(t) \subseteq t.came
               /\ AskedLinks(t) \ rows' \subseteq t.went
    <3>1. SetRun(rows, t)
      BY <2>1, <2>5 DEF RunInv
    <3>2. \A row \in t.inserted \cup t.deleted : row[1] = "link" /\ row[2] = t.typed.slug
      BY <3>1 DEF SetRun
    <3>3. rows' \ LinksOf(t.typed.slug, rows') = rows \ LinksOf(t.typed.slug, rows)
      BY <2>1, <3>2 DEF View, LinksOf
    <3> QED
      BY <3>1, <3>3, <2>1, <2>3 DEF SetRun
  <2> QED
    BY <2>4, <2>5 DEF t, AskedLinks
<1>2. CatInv /\ [CatNext]_catVars =>
        [\A o \in Operators : CommitCommand(o) => Kept(o)]_catVars
  BY <1>1
<1> QED
  BY <1>2, CatAlways, PTL DEF CatSpec, CommandsTouchOnlyTheirOwn
=============================================================================
