--------------------------- MODULE ItemTopics_proofs ---------------------------
(***************************************************************************)
(* Theorems about ItemTopics, for any items, topics, sources, rules and    *)
(* configurations.                                                         *)
(***************************************************************************)
EXTENDS ItemTopics, TLAPS

Ruled(p) == p[2] \in Rules[p[1]]

(* The items a writer may link: a refresh also links those it inserted.    *)
Lives(w) == IF w \in Sources THEN items \union fresh[w] ELSE items

(* Each writer goes through its own phases, and nothing is pending before  *)
(* its first write.                                                        *)
PhaseInv ==
  /\ \A s \in Sources :
       /\ phase[s] \in {"idle", "fetching", "storing", "linking", "ruling", "committing"}
       /\ phase[s] = "storing" => unseen[s] \subseteq batch[s]
       /\ phase[s] \in {"linking", "ruling", "committing"} => fresh[s] \subseteq batch[s]
       /\ phase[s] \in {"idle", "fetching", "storing"} => fresh[s] = {}
  /\ phase[Operator] \in {"idle", "scanning", "deleting", "inserting", "committing"}
  /\ \A w \in Writers :
       phase[w] \notin {"ruling", "inserting", "committing"} => DOMAIN pending[w] = {}

(* A row belongs to the one writer that has written it and not committed;  *)
(* what that writer has written agrees with the row that is committed: the *)
(* ruleset neither takes nor changes a row of the operator.                *)
Agrees(w, p, x) ==
  /\ x = "gone" => w = Operator /\ (Ruled(p) => p[1] \in old \ items)
  /\ x = "source" => w # Operator
  /\ x = "rule" => Ruled(p)
  /\ x # "gone" => p[1] \in Lives(w)
  /\ x # "source" /\ p \in DOMAIN links => links[p] = "rule"

Write(w, p) ==
  /\ \A v \in Writers \ {w} : p \notin DOMAIN pending[v]
  /\ Agrees(w, p, pending[w][p])

WriteInv == \A w \in Writers : \A p \in DOMAIN pending[w] : Write(w, p)

(* An item that is being stored is not old: what was pruned stays away.    *)
AgeInv ==
  \A s \in Sources : unseen[s] \intersect old = {} /\ fresh[s] \subseteq unseen[s]

(* What a refresh has linked by now.                                       *)
Refreshed(s) ==
  /\ phase[s] \in {"ruling", "committing"} =>
       \A p \in batch[s] \X asserted[s] :
         p \in DOMAIN pending[s] /\ pending[s][p] = "source"
  /\ phase[s] = "committing" =>
       \A p \in RuleLinks(batch[s]) :
         p[1] \in Lives(s) => p \in DOMAIN links \union DOMAIN pending[s]

RefreshInv == \A s \in Sources : Refreshed(s)

(* What a re-tag read is still there, for the items that are.              *)
SeenInv ==
  \A p \in DOMAIN seen :
    /\ p[1] \in items \union old
    /\ p[1] \in items => p \in DOMAIN links

(* A re-tag knows every link that is missing, or it is there.              *)
MissingInv ==
  /\ \A p \in wanted : Ruled(p)
  /\ phase[Operator] \in {"deleting", "inserting"} =>
       \A p \in RuleLinks(items) : p \in wanted \union DOMAIN links
  /\ phase[Operator] = "committing" =>
       \A p \in RuleLinks(items) : p \in DOMAIN links \union DOMAIN pending[Operator]

(* A re-tag knows every link that today's rules do not ask for.            *)
StaleInv ==
  /\ phase[Operator] = "deleting" =>
       \A p \in DOMAIN seen : Ruled(p) => p \in wanted \/ p[1] \in old \ items
  /\ phase[Operator] \in {"scanning", "deleting"} =>
       \A p \in DOMAIN links : links[p] = "rule" /\ ~Ruled(p) =>
         p \in DOMAIN seen /\ seen[p] = "rule"
  /\ phase[Operator] \in {"inserting", "committing"} =>
       \A p \in DOMAIN links : links[p] = "rule" /\ ~Ruled(p) =>
         p \in DOMAIN pending[Operator]

RetagInv == SeenInv /\ MissingInv /\ StaleInv

Inv ==
  /\ TypeOK /\ NoOrphanLinks /\ PhaseInv /\ WriteInv /\ AgeInv
  /\ RefreshInv /\ RetagInv

-----------------------------------------------------------------------------
LEMMA WritersDiffer ==
  Operator \in Writers /\ Operator \notin Sources /\ Sources \subseteq Writers
BY ItemTopicsAssumption DEF Writers

LEMMA RuleLinksAre ==
  ASSUME NEW some \in SUBSET Items, NEW p
  PROVE  /\ p \in RuleLinks(some) => p \in Pairs /\ p[1] \in some /\ Ruled(p)
         /\ p \in Pairs /\ p[1] \in some /\ Ruled(p) => p \in RuleLinks(some)
BY DEF RuleLinks, Pairs, Ruled

LEMMA AppliedIs ==
  ASSUME NEW table, NEW writes, NEW p
  PROVE  /\ p \in DOMAIN Applied(table, writes) <=>
              \/ p \in DOMAIN writes /\ writes[p] # "gone"
              \/ p \notin DOMAIN writes /\ p \in DOMAIN table
         /\ p \in DOMAIN Applied(table, writes) =>
              Applied(table, writes)[p] =
                IF p \in DOMAIN writes THEN writes[p] ELSE table[p]
BY DEF Applied

LEMMA AppliedTyped ==
  ASSUME NEW table, NEW writes
  PROVE  Applied(table, writes) =
           [p \in DOMAIN Applied(table, writes) |-> Applied(table, writes)[p]]
BY DEF Applied

(* What is left when the transaction of w has ended.                       *)
LEMMA EndedIs ==
  ASSUME TypeOK, NEW w \in Writers, Ended(w)
  PROVE  /\ phase'[w] = "idle" /\ DOMAIN pending'[w] = {}
         /\ \A v \in Writers \ {w} : phase'[v] = phase[v] /\ pending'[v] = pending[v]
         /\ \A s \in Sources \ {w} :
              /\ batch'[s] = batch[s] /\ asserted'[s] = asserted[s]
              /\ unseen'[s] = unseen[s] /\ fresh'[s] = fresh[s]
         /\ \A s \in Sources : s = w => unseen'[s] = {} /\ fresh'[s] = {}
         /\ w = Operator => DOMAIN seen' = {} /\ wanted' = {}
         /\ w # Operator => seen' = seen /\ wanted' = wanted
BY DEF TypeOK, Ended, Empty

LEMMA EndedTyped ==
  ASSUME TypeOK, NEW w \in Writers, Ended(w), old' = old, items' \subseteq Items,
         DOMAIN links' \subseteq Pairs, links' \in [DOMAIN links' -> {"source", "rule"}]
  PROVE  TypeOK'
<1>1. phase' \in [Writers -> Phases]
  BY DEF TypeOK, Ended, Phases
<1>2. /\ DOMAIN pending' = Writers
      /\ \A v \in Writers : /\ DOMAIN pending'[v] \subseteq Pairs
                            /\ pending'[v] \in [DOMAIN pending'[v] -> {"source", "rule", "gone"}]
  <2>1. DOMAIN pending' = Writers
    BY DEF TypeOK, Ended
  <2>2. ASSUME NEW v \in Writers
        PROVE  /\ DOMAIN pending'[v] \subseteq Pairs
               /\ pending'[v] \in [DOMAIN pending'[v] -> {"source", "rule", "gone"}]
    <3>1. CASE v = w
      BY <3>1 DEF TypeOK, Ended, Empty
    <3>2. CASE v # w
      BY <3>2 DEF TypeOK, Ended
    <3> QED
      BY <3>1, <3>2
  <2> QED
    BY <2>1, <2>2
<1>3. /\ batch' \in [Sources -> SUBSET Items] /\ unseen' \in [Sources -> SUBSET Items]
      /\ fresh' \in [Sources -> SUBSET Items]
      /\ asserted' \in [Sources -> Configs \union {{}}]
  BY DEF TypeOK, Ended
<1>4. /\ DOMAIN seen' \subseteq Pairs /\ seen' \in [DOMAIN seen' -> {"source", "rule"}]
      /\ wanted' \subseteq Pairs
  BY DEF TypeOK, Ended, Empty
<1> QED
  BY <1>1, <1>2, <1>3, <1>4 DEF TypeOK

(***************************************************************************)
(* A transaction that ends, committed or not, keeps the invariant, if it   *)
(* touches only the rows it has written, takes none of the ruleset's, and, *)
(* unless it is the re-tag, adds every link of the items it adds.          *)
(***************************************************************************)
LEMMA EndKeeps ==
  ASSUME Inv, NEW w \in Writers, Ended(w), old' = old,
         items \subseteq items', items' \subseteq Items,
         \A i \in items' \ items : i \notin old,
         DOMAIN links' \subseteq Pairs, links' \in [DOMAIN links' -> {"source", "rule"}],
         NoOrphanLinks',
         \A p : p \notin DOMAIN pending[w] =>
           /\ p \in DOMAIN links' <=> p \in DOMAIN links
           /\ p \in DOMAIN links => links'[p] = links[p],
         \A p \in DOMAIN links \ DOMAIN links' : Ruled(p) => p[1] \in old \ items,
         w = Operator => items' = items,
         w # Operator =>
           /\ DOMAIN links \subseteq DOMAIN links'
           /\ \A p \in RuleLinks(items') : p[1] \in items \/ p \in DOMAIN links'
           /\ \A p \in DOMAIN links' : links'[p] = "rule" /\ ~Ruled(p) =>
                p \in DOMAIN links /\ links[p] = "rule"
  PROVE  Inv'
<1> USE WritersDiffer
<1>1. TypeOK /\ TypeOK'
  BY EndedTyped DEF Inv
<1>2. PhaseInv'
  BY <1>1, EndedIs DEF Inv, PhaseInv
<1>3. AgeInv'
  BY <1>1, EndedIs DEF Inv, AgeInv
<1>4. \A v \in Writers \ {w} : \A i : i \in Lives(v) => i \in Lives(v)'
  BY <1>1, EndedIs DEF Lives
<1>5. WriteInv'
  <2> SUFFICES ASSUME NEW v \in Writers, NEW p \in DOMAIN pending'[v]
               PROVE  Write(v, p)'
    BY DEF WriteInv
  <2>1. v # w /\ pending'[v] = pending[v] /\ p \in DOMAIN pending[v]
    BY <1>1, EndedIs
  <2>2. Write(v, p) /\ p \notin DOMAIN pending[w]
    BY <2>1 DEF Inv, WriteInv, Write, Agrees
  <2>3. \A u \in Writers \ {v} : p \notin DOMAIN pending'[u]
    BY <1>1, <2>2, EndedIs DEF Write, Agrees
  <2> QED
    BY <1>4, <2>1, <2>2, <2>3 DEF Write, Agrees, Ruled
<1>6. RefreshInv'
  <2> SUFFICES ASSUME NEW s \in Sources
               PROVE  Refreshed(s)'
    BY DEF RefreshInv
  <2>1. CASE s = w
    BY <1>1, <2>1, EndedIs DEF Refreshed
  <2>2. CASE s # w
    <3>1. /\ phase'[s] = phase[s] /\ pending'[s] = pending[s] /\ fresh'[s] = fresh[s]
          /\ batch'[s] = batch[s] /\ asserted'[s] = asserted[s] /\ Refreshed(s)
          /\ batch[s] \subseteq Items
      BY <1>1, <2>2, EndedIs DEF Inv, RefreshInv, TypeOK
    <3>2. ASSUME phase[s] = "committing", NEW p \in RuleLinks(batch[s]), p[1] \in Lives(s)'
          PROVE  p \in DOMAIN links' \union DOMAIN pending[s]
      <4>1. Ruled(p) /\ p \in Pairs
        BY <3>1, RuleLinksAre
      <4>2. p[1] \in items' \union fresh[s]
        BY <3>1, <3>2 DEF Lives
      <4>3. CASE p[1] \in Lives(s)
        <5>1. p \in DOMAIN links \union DOMAIN pending[s]
          BY <3>1, <3>2, <4>3 DEF Refreshed
        <5>2. p[1] \notin old \ items
          BY <4>3 DEF Inv, AgeInv, Lives
        <5> QED
          BY <4>1, <5>1, <5>2
      <4>4. CASE p[1] \notin Lives(s)
        <5>1. p[1] \in items' \ items
          BY <4>2, <4>4 DEF Lives
        <5>2. w # Operator
          BY <5>1
        <5> QED
          BY <1>1, <4>1, <5>1, <5>2, RuleLinksAre DEF TypeOK
      <4> QED
        BY <4>3, <4>4
    <3>3. RuleLinks(batch[s])' = RuleLinks(batch[s])
      BY <3>1 DEF RuleLinks
    <3> QED
      BY <3>1, <3>2, <3>3 DEF Refreshed
  <2> QED
    BY <2>1, <2>2
<1>7. RetagInv'
  <2>1. CASE w = Operator
    BY <1>1, <2>1, EndedIs DEF RetagInv, SeenInv, MissingInv, StaleInv
  <2>2. CASE w # Operator
    <3>1. /\ phase'[Operator] = phase[Operator] /\ pending'[Operator] = pending[Operator]
          /\ seen' = seen /\ wanted' = wanted
      BY <1>1, <2>2, EndedIs
    <3>2. SeenInv'
      BY <2>2, <3>1 DEF Inv, RetagInv, SeenInv
    <3>3. \A p : Ruled(p)' <=> Ruled(p)
      BY DEF Ruled
    <3>4. ASSUME NEW p \in RuleLinks(items')
          PROVE  p \in RuleLinks(items) \/ p \in DOMAIN links'
      BY <1>1, <2>2, RuleLinksAre DEF TypeOK
    <3>5. RuleLinks(items)' = RuleLinks(items')
      BY DEF RuleLinks
    <3>6. MissingInv'
      BY <2>2, <3>1, <3>3, <3>4, <3>5 DEF Inv, RetagInv, MissingInv
    <3>7. StaleInv'
      BY <2>2, <3>1, <3>3 DEF Inv, RetagInv, StaleInv
    <3> QED
      BY <3>2, <3>6, <3>7 DEF RetagInv
  <2> QED
    BY <2>1, <2>2
<1> QED
  BY <1>1, <1>2, <1>3, <1>5, <1>6, <1>7 DEF Inv

LEMMA RollbackKeeps ==
  ASSUME Inv, NEW w \in Writers, Rollback(w)
  PROVE  Inv'
<1>1. Ended(w) /\ items' = items /\ old' = old /\ links' = links
  BY DEF Rollback
<1>2. /\ items \subseteq Items /\ DOMAIN links \subseteq Pairs
      /\ links \in [DOMAIN links -> {"source", "rule"}] /\ NoOrphanLinks
  BY DEF Inv, TypeOK
<1>3. NoOrphanLinks'
  BY <1>1, <1>2 DEF NoOrphanLinks
<1>4. \A p \in RuleLinks(items') : p[1] \in items
  BY <1>1, <1>2, RuleLinksAre
<1> QED
  BY <1>1, <1>2, <1>3, <1>4, EndKeeps

(* A refresh commits its items with all their links.                       *)
LEMMA CommitRefreshKeeps ==
  ASSUME Inv, NEW s \in Sources, CommitRefresh(s)
  PROVE  Inv'
<1> USE WritersDiffer
<1> DEFINE writes == pending[s]
<1>1. /\ Ended(s) /\ phase[s] = "committing" /\ old' = old
      /\ items' = items \union fresh[s] /\ links' = Applied(links, writes)
  BY DEF CommitRefresh
<1>2. /\ TypeOK /\ items \subseteq Items /\ fresh[s] \subseteq Items /\ batch[s] \subseteq Items
      /\ DOMAIN links \subseteq Pairs /\ links \in [DOMAIN links -> {"source", "rule"}]
      /\ DOMAIN writes \subseteq Pairs /\ NoOrphanLinks
      /\ writes \in [DOMAIN writes -> {"source", "rule", "gone"}]
  BY DEF Inv, TypeOK
<1>3. \A p \in DOMAIN writes :
        /\ writes[p] # "gone" /\ p[1] \in items'
        /\ writes[p] = "rule" => Ruled(p)
  BY <1>1 DEF Inv, WriteInv, Write, Agrees, Lives
<1>4. fresh[s] \intersect old = {} /\ fresh[s] \subseteq batch[s]
  BY <1>1 DEF Inv, AgeInv, PhaseInv
<1> HIDE DEF writes
<1>5. /\ DOMAIN links' = DOMAIN links \union DOMAIN writes
      /\ \A p \in DOMAIN links' :
           links'[p] = IF p \in DOMAIN writes THEN writes[p] ELSE links[p]
  BY <1>1, <1>3, AppliedIs
<1>6. links' = [p \in DOMAIN links' |-> links'[p]]
  BY <1>1, AppliedTyped
<1>7. links' \in [DOMAIN links' -> {"source", "rule"}]
  BY <1>2, <1>3, <1>5, <1>6
<1>8. NoOrphanLinks'
  BY <1>1, <1>2, <1>3, <1>5 DEF NoOrphanLinks
<1>9. ASSUME NEW p \in RuleLinks(items')
      PROVE  p[1] \in items \/ p \in DOMAIN links'
  <2>1. p \in Pairs /\ p[1] \in items' /\ Ruled(p)
    BY <1>1, <1>2, RuleLinksAre
  <2>2. CASE p[1] \in fresh[s]
    <3>1. p \in RuleLinks(batch[s])
      BY <1>2, <1>4, <2>1, <2>2, RuleLinksAre
    <3>2. p[1] \in Lives(s)
      BY <2>2 DEF Lives
    <3> QED
      BY <1>1, <1>5, <3>1, <3>2 DEF Inv, RefreshInv, Refreshed, writes
  <2> QED
    BY <1>1, <2>1, <2>2
<1>10. \A p \in DOMAIN links' : links'[p] = "rule" /\ ~Ruled(p) =>
         p \in DOMAIN links /\ links[p] = "rule"
  BY <1>3, <1>5
<1>11. \A p : p \notin DOMAIN pending[s] =>
         /\ p \in DOMAIN links' <=> p \in DOMAIN links
         /\ p \in DOMAIN links => links'[p] = links[p]
  BY <1>5 DEF writes
<1> QED
  BY <1>1, <1>2, <1>4, <1>5, <1>7, <1>8, <1>9, <1>10, <1>11, EndKeeps

(* A re-tag commits deletions of links that no rule asks for, or of items  *)
(* that are gone for good.                                                 *)
LEMMA CommitRetagKeeps ==
  ASSUME Inv, CommitRetag
  PROVE  Inv'
<1> USE WritersDiffer
<1> DEFINE writes == pending[Operator]
<1>1. /\ Ended(Operator) /\ phase[Operator] = "committing" /\ old' = old /\ items' = items
      /\ links' = Applied(links, writes)
  BY DEF CommitRetag
<1>2. /\ items \subseteq Items /\ NoOrphanLinks
      /\ DOMAIN links \subseteq Pairs /\ links \in [DOMAIN links -> {"source", "rule"}]
      /\ DOMAIN writes \subseteq Pairs
      /\ writes \in [DOMAIN writes -> {"source", "rule", "gone"}]
  BY DEF Inv, TypeOK
<1>3. \A p \in DOMAIN writes :
        /\ writes[p] = "gone" => (Ruled(p) => p[1] \in old \ items)
        /\ writes[p] # "gone" => writes[p] = "rule" /\ p[1] \in items
  <2> SUFFICES ASSUME NEW p \in DOMAIN writes
               PROVE  /\ writes[p] = "gone" => (Ruled(p) => p[1] \in old \ items)
                      /\ writes[p] # "gone" => writes[p] = "rule" /\ p[1] \in items
    OBVIOUS
  <2>1. Write(Operator, p)
    BY DEF Inv, WriteInv
  <2> QED
    BY <1>2, <2>1 DEF Write, Agrees, Lives
<1> HIDE DEF writes
<1>4. \A p :
        /\ p \in DOMAIN links' <=> \/ p \in DOMAIN writes /\ writes[p] # "gone"
                                   \/ p \notin DOMAIN writes /\ p \in DOMAIN links
        /\ p \in DOMAIN links' =>
             links'[p] = IF p \in DOMAIN writes THEN writes[p] ELSE links[p]
  BY <1>1, AppliedIs
<1>5. links' = [p \in DOMAIN links' |-> links'[p]]
  BY <1>1, AppliedTyped
<1>6. DOMAIN links' \subseteq Pairs /\ links' \in [DOMAIN links' -> {"source", "rule"}]
  BY <1>2, <1>3, <1>4, <1>5
<1>7. NoOrphanLinks'
  BY <1>1, <1>2, <1>3, <1>4 DEF NoOrphanLinks
<1>8. \A p \in DOMAIN links \ DOMAIN links' : Ruled(p) => p[1] \in old \ items
  BY <1>3, <1>4
<1>9. \A p : p \notin DOMAIN pending[Operator] =>
        /\ p \in DOMAIN links' <=> p \in DOMAIN links
        /\ p \in DOMAIN links => links'[p] = links[p]
  BY <1>4 DEF writes
<1> QED
  BY <1>1, <1>2, <1>6, <1>7, <1>8, <1>9, EndKeeps

-----------------------------------------------------------------------------
(***************************************************************************)
(* The steps of a refresh before its commit.                               *)
(***************************************************************************)
LEMMA StartRefreshKeeps ==
  ASSUME Inv, NEW s \in Sources, StartRefresh(s)
  PROVE  Inv'
<1> USE WritersDiffer
<1>1. /\ phase[s] = "idle" /\ phase' = [phase EXCEPT ![s] = "fetching"]
      /\ UNCHANGED <<items, old, links, pending, batch, unseen, fresh, seen, wanted>>
  BY DEF StartRefresh
<1>2. PICK topics \in Configs : asserted' = [asserted EXCEPT ![s] = topics]
  BY DEF StartRefresh
<1>3. TypeOK /\ phase \in [Writers -> Phases] /\ "fetching" \in Phases
  BY DEF Inv, TypeOK, Phases
<1>4. /\ phase'[s] = "fetching" /\ \A w \in Writers \ {s} : phase'[w] = phase[w]
      /\ phase' \in [Writers -> Phases]
  BY <1>1, <1>3
<1>5. /\ asserted' \in [Sources -> Configs \union {{}}]
      /\ \A q \in Sources \ {s} : asserted'[q] = asserted[q]
  BY <1>2 DEF Inv, TypeOK
<1>6. TypeOK'
  BY <1>1, <1>4, <1>5 DEF Inv, TypeOK
<1>7. NoOrphanLinks' /\ AgeInv' /\ WriteInv'
  BY <1>1 DEF Inv, NoOrphanLinks, AgeInv, WriteInv, Write, Agrees, Lives, Ruled
<1>8. PhaseInv'
  BY <1>1, <1>4 DEF Inv, PhaseInv
<1>9. RefreshInv'
  BY <1>1, <1>4, <1>5 DEF Inv, RefreshInv, Refreshed, RuleLinks, Lives
<1>10. RetagInv'
  BY <1>1, <1>4 DEF Inv, RetagInv, SeenInv, MissingInv, StaleInv, RuleLinks, Ruled
<1> QED
  BY <1>6, <1>7, <1>8, <1>9, <1>10 DEF Inv

LEMMA LookUpKeeps ==
  ASSUME Inv, NEW s \in Sources, LookUp(s)
  PROVE  Inv'
<1> USE WritersDiffer
<1>1. /\ phase[s] = "fetching" /\ phase' = [phase EXCEPT ![s] = "storing"]
      /\ UNCHANGED <<items, old, links, pending, asserted, fresh, seen, wanted>>
  BY DEF LookUp
<1>2. PICK entries \in SUBSET (Items \ old) :
        /\ batch' = [batch EXCEPT ![s] = entries]
        /\ unseen' = [unseen EXCEPT ![s] = entries \ items]
  BY DEF LookUp
<1>3. TypeOK /\ phase \in [Writers -> Phases] /\ "storing" \in Phases
  BY DEF Inv, TypeOK, Phases
<1>4. /\ phase'[s] = "storing" /\ \A w \in Writers \ {s} : phase'[w] = phase[w]
      /\ phase' \in [Writers -> Phases]
  BY <1>1, <1>3
<1>5. /\ batch' \in [Sources -> SUBSET Items] /\ unseen' \in [Sources -> SUBSET Items]
      /\ batch'[s] = entries /\ unseen'[s] = entries \ items
      /\ \A q \in Sources \ {s} : batch'[q] = batch[q] /\ unseen'[q] = unseen[q]
  BY <1>2 DEF Inv, TypeOK
<1>6. TypeOK'
  BY <1>1, <1>4, <1>5 DEF Inv, TypeOK
<1>7. NoOrphanLinks' /\ WriteInv'
  BY <1>1 DEF Inv, NoOrphanLinks, WriteInv, Write, Agrees, Lives, Ruled
<1>8. PhaseInv'
  BY <1>1, <1>4, <1>5 DEF Inv, PhaseInv
<1>9. AgeInv'
  <2>1. fresh[s] = {}
    BY <1>1 DEF Inv, PhaseInv
  <2> QED
    BY <1>1, <1>5, <2>1 DEF Inv, AgeInv
<1>10. RefreshInv'
  BY <1>1, <1>4, <1>5 DEF Inv, RefreshInv, Refreshed, RuleLinks, Lives
<1>11. RetagInv'
  BY <1>1, <1>4 DEF Inv, RetagInv, SeenInv, MissingInv, StaleInv, RuleLinks, Ruled
<1> QED
  BY <1>6, <1>7, <1>8, <1>9, <1>10, <1>11 DEF Inv

LEMMA StoreKeeps ==
  ASSUME Inv, NEW s \in Sources, StoreItems(s)
  PROVE  Inv'
<1> USE WritersDiffer
<1> DEFINE inserted == unseen[s] \ items
<1>1. /\ phase[s] = "storing" /\ phase' = [phase EXCEPT ![s] = "linking"]
      /\ fresh' = [fresh EXCEPT ![s] = inserted]
      /\ batch' = [batch EXCEPT ![s] = batch[s] \intersect (items \union inserted)]
      /\ UNCHANGED <<items, old, links, pending, asserted, unseen, seen, wanted>>
  BY DEF StoreItems, ReadBack
<1>3. TypeOK /\ phase \in [Writers -> Phases] /\ "linking" \in Phases
  BY DEF Inv, TypeOK, Phases
<1>4. /\ phase'[s] = "linking" /\ \A w \in Writers \ {s} : phase'[w] = phase[w]
      /\ phase' \in [Writers -> Phases]
  BY <1>1, <1>3
<1>5. /\ batch' \in [Sources -> SUBSET Items] /\ fresh' \in [Sources -> SUBSET Items]
      /\ batch'[s] = batch[s] \intersect (items \union inserted) /\ fresh'[s] = inserted
      /\ \A q \in Sources \ {s} : batch'[q] = batch[q] /\ fresh'[q] = fresh[q]
  BY <1>1 DEF Inv, TypeOK
<1>6. TypeOK'
  BY <1>1, <1>4, <1>5 DEF Inv, TypeOK
<1>7. NoOrphanLinks'
  BY <1>1 DEF Inv, NoOrphanLinks
<1>8. WriteInv'
  <2>1. DOMAIN pending[s] = {}
    BY <1>1 DEF Inv, PhaseInv
  <2>2. \A w \in Writers \ {s} : Lives(w)' = Lives(w)
    BY <1>1, <1>5 DEF Lives
  <2> QED
    BY <1>1, <2>1, <2>2 DEF Inv, WriteInv, Write, Agrees, Ruled
<1>9. PhaseInv'
  BY <1>1, <1>4, <1>5 DEF Inv, PhaseInv
<1>10. AgeInv'
  BY <1>1, <1>5 DEF Inv, AgeInv
<1>11. RefreshInv'
  BY <1>1, <1>4, <1>5 DEF Inv, RefreshInv, Refreshed, RuleLinks, Lives
<1>12. RetagInv'
  BY <1>1, <1>4 DEF Inv, RetagInv, SeenInv, MissingInv, StaleInv, RuleLinks, Ruled
<1> QED
  BY <1>6, <1>7, <1>8, <1>9, <1>10, <1>11, <1>12 DEF Inv


-----------------------------------------------------------------------------
(***************************************************************************)
(* Statements that write links.                                            *)
(***************************************************************************)
(* A statement writes rows that no other writer has pending.               *)
LEMMA StatementKeeps ==
  ASSUME Inv, NEW w \in Writers, NEW new, NEW next,
         UNCHANGED <<items, old, links, batch, asserted, unseen, fresh, seen, wanted>>,
         phase' = [phase EXCEPT ![w] = next], next \in {"ruling", "inserting", "committing"},
         pending' = [pending EXCEPT ![w] = new], DOMAIN new \subseteq Pairs,
         new \in [DOMAIN new -> {"source", "rule", "gone"}],
         \A p \in DOMAIN new :
           /\ \A v \in Writers \ {w} : p \notin DOMAIN pending[v]
           /\ Agrees(w, p, new[p])
  PROVE  /\ TypeOK' /\ NoOrphanLinks' /\ WriteInv' /\ AgeInv' /\ SeenInv'
         /\ phase'[w] = next /\ pending'[w] = new
         /\ \A v \in Writers \ {w} : phase'[v] = phase[v] /\ pending'[v] = pending[v]
<1>1. /\ DOMAIN pending = Writers /\ phase \in [Writers -> Phases]
      /\ next \in Phases
  BY DEF Inv, TypeOK, Phases
<1>2. /\ DOMAIN pending' = Writers /\ pending'[w] = new /\ phase'[w] = next
      /\ phase' \in [Writers -> Phases]
      /\ \A v \in Writers \ {w} : pending'[v] = pending[v] /\ phase'[v] = phase[v]
  BY <1>1
<1>3. \A v \in Writers : /\ DOMAIN pending'[v] \subseteq Pairs
                         /\ pending'[v] \in [DOMAIN pending'[v] -> {"source", "rule", "gone"}]
  BY <1>2 DEF Inv, TypeOK
<1>4. TypeOK'
  BY <1>2, <1>3 DEF Inv, TypeOK
<1>5. NoOrphanLinks' /\ AgeInv' /\ SeenInv'
  BY DEF Inv, NoOrphanLinks, AgeInv, RetagInv, SeenInv
<1>6. ASSUME NEW v \in Writers, NEW p, NEW x
      PROVE  Agrees(v, p, x)' <=> Agrees(v, p, x)
  BY DEF Agrees, Lives, Ruled
<1>7. WriteInv'
  <2> SUFFICES ASSUME NEW v \in Writers, NEW p \in DOMAIN pending'[v]
               PROVE  Write(v, p)'
    BY DEF WriteInv
  <2>1. CASE v = w
    <3>1. Agrees(v, p, new[p])' /\ p \in DOMAIN new
      BY <1>2, <2>1, <1>6
    <3>2. Agrees(v, p, pending[v][p])'
      BY <1>2, <2>1, <3>1
    <3>3. \A u \in Writers \ {v} : p \notin DOMAIN pending'[u]
      BY <1>2, <2>1, <3>1
    <3> QED
      BY <3>2, <3>3 DEF Write
  <2>2. CASE v # w
    <3>1. pending'[v] = pending[v] /\ Write(v, p)
      BY <1>2, <2>2 DEF Inv, WriteInv
    <3>2. Agrees(v, p, pending[v][p])'
      <4>1. Agrees(v, p, pending[v][p])
        BY <3>1 DEF Write
      <4> QED
        BY <1>6, <3>1, <4>1
    <3>3. \A u \in Writers \ {v} : p \notin DOMAIN pending'[u]
      BY <1>2, <2>2, <3>1 DEF Write
    <3> QED
      BY <3>2, <3>3 DEF Write
  <2> QED
    BY <2>1, <2>2
<1> QED
  BY <1>2, <1>4, <1>5, <1>7

(* What a statement names is not pending elsewhere once it is free.        *)
LEMMA FreeIs ==
  ASSUME NEW w \in Writers, Free(w), NEW p \in Named(w), NEW v \in Writers \ {w}
  PROVE  p \notin DOMAIN pending[v]
BY DEF Free, WaitsFor

LEMMA LinkSourceKeeps ==
  ASSUME Inv, NEW s \in Sources, LinkSource(s)
  PROVE  Inv'
<1> USE WritersDiffer
<1> DEFINE pairs == Named(s)
           new == [p \in pairs |-> "source"]
<1>1. /\ phase[s] = "linking" /\ Free(s) /\ ReferencesHold(s, pairs \ DOMAIN links)
      /\ phase' = [phase EXCEPT ![s] = "ruling"]
      /\ pending' = [pending EXCEPT ![s] = new]
      /\ UNCHANGED <<items, old, links, batch, asserted, unseen, fresh, seen, wanted>>
  BY DEF LinkSource, SourceOrigin
<1>2. pairs = batch[s] \X asserted[s]
  BY <1>1 DEF Named
<1>3. batch[s] \subseteq Items /\ asserted[s] \subseteq Topics
  BY ItemTopicsAssumption DEF Inv, TypeOK
<1>4. pairs \subseteq Pairs
  BY <1>2, <1>3 DEF Pairs
<1>5. DOMAIN new = pairs /\ \A p \in pairs : new[p] = "source"
  OBVIOUS
<1>6. ASSUME NEW p \in pairs
      PROVE  Agrees(s, p, "source")
  BY <1>1 DEF Agrees, Lives, ReferencesHold, Inv, NoOrphanLinks
<1>7. ASSUME NEW p \in pairs, NEW v \in Writers \ {s}
      PROVE  p \notin DOMAIN pending[v]
  BY <1>1, <1>7, FreeIs
<1>8. new \in [DOMAIN new -> {"source", "rule", "gone"}]
  OBVIOUS
<1>8a. \A p \in DOMAIN new : /\ \A v \in Writers \ {s} : p \notin DOMAIN pending[v]
                            /\ Agrees(s, p, new[p])
  BY <1>5, <1>6, <1>7
<1> HIDE DEF new, pairs
<1>9. /\ TypeOK' /\ NoOrphanLinks' /\ WriteInv' /\ AgeInv' /\ SeenInv'
      /\ phase'[s] = "ruling" /\ pending'[s] = new
      /\ \A v \in Writers \ {s} : phase'[v] = phase[v] /\ pending'[v] = pending[v]
  BY <1>1, <1>4, <1>5, <1>8, <1>8a, StatementKeeps
<1>10. PhaseInv'
  BY <1>1, <1>9 DEF Inv, PhaseInv
<1>11. RefreshInv'
  <2> SUFFICES ASSUME NEW q \in Sources
               PROVE  Refreshed(q)'
    BY DEF RefreshInv
  <2>1. CASE q = s
    BY <1>1, <1>2, <1>5, <1>9, <2>1 DEF Refreshed
  <2>2. CASE q # s
    BY <1>1, <1>9, <2>2 DEF Inv, RefreshInv, Refreshed, RuleLinks, Lives
  <2> QED
    BY <2>1, <2>2
<1>12. RetagInv'
  BY <1>1, <1>9 DEF Inv, RetagInv, MissingInv, StaleInv, RuleLinks, Ruled
<1> QED
  BY <1>9, <1>10, <1>11, <1>12 DEF Inv

(* ON CONFLICT DO NOTHING: a pair the ruleset asks for is there            *)
(* afterwards, as somebody's, and what the writer wrote before stays.      *)
LEMMA InsertIgnoredIs ==
  ASSUME Inv, NEW w \in Writers, NEW pairs, InsertIgnored(w, pairs), pairs \subseteq Pairs,
         \A p \in pairs : Ruled(p),
         \A p \in pairs : \A v \in Writers \ {w} : p \notin DOMAIN pending[v]
  PROVE  \E new :
           /\ pending' = [pending EXCEPT ![w] = new]
           /\ DOMAIN new \subseteq Pairs /\ new \in [DOMAIN new -> {"source", "rule", "gone"}]
           /\ \A p \in DOMAIN new :
                /\ \A v \in Writers \ {w} : p \notin DOMAIN pending[v]
                /\ Agrees(w, p, new[p])
           /\ DOMAIN pending[w] \subseteq DOMAIN new
           /\ \A p \in DOMAIN pending[w] : pending[w][p] = "source" => new[p] = "source"
           /\ pairs \subseteq DOMAIN links \union DOMAIN new
<1> DEFINE fill == pairs \ DOMAIN Applied(links, pending[w])
           over == Overlay(pending[w], [p \in fill |-> "rule"])
<1>1. /\ ReferencesHold(w, fill) /\ pending' = [pending EXCEPT ![w] = over]
  BY DEF InsertIgnored, Inv, TypeOK
<1>2. over = Overlay(pending[w], [p \in fill |-> "rule"])
  OBVIOUS
<1>3. \A p \in pairs :
        p \in fill <=> /\ p \in DOMAIN pending[w] => pending[w][p] = "gone"
                       /\ p \in DOMAIN pending[w] \/ p \notin DOMAIN links
  BY AppliedIs
<1>4. fill \subseteq pairs
  OBVIOUS
<1> HIDE DEF fill, over
<1>4a. /\ DOMAIN over = DOMAIN pending[w] \union fill /\ over = [p \in DOMAIN over |-> over[p]]
       /\ \A p \in fill : over[p] = "rule"
       /\ \A p \in DOMAIN pending[w] \ fill : over[p] = pending[w][p]
  BY <1>2 DEF Overlay
<1>5. /\ DOMAIN pending[w] \subseteq Pairs
      /\ pending[w] \in [DOMAIN pending[w] -> {"source", "rule", "gone"}]
  BY DEF Inv, TypeOK
<1>6. over \in [DOMAIN over -> {"source", "rule", "gone"}] /\ DOMAIN over \subseteq Pairs
  BY <1>4, <1>4a, <1>5
<1>7. ASSUME NEW p \in DOMAIN over
      PROVE  /\ \A v \in Writers \ {w} : p \notin DOMAIN pending[v]
             /\ Agrees(w, p, over[p])
  <2>1. CASE p \in fill
    <3>1. p[1] \in Lives(w) /\ Ruled(p)
      BY <1>1, <1>4, <2>1 DEF ReferencesHold, Lives
    <3>2. ASSUME p \in DOMAIN links
          PROVE  links[p] = "rule"
      <4>1. p \in DOMAIN pending[w] /\ pending[w][p] = "gone"
        BY <1>3, <1>4, <2>1, <3>2
      <4> QED
        BY <3>2, <4>1 DEF Inv, WriteInv, Write, Agrees
    <3> QED
      BY <1>4, <1>4a, <2>1, <3>1, <3>2 DEF Agrees
  <2>2. CASE p \notin fill
    <3>1. p \in DOMAIN pending[w] /\ over[p] = pending[w][p]
      BY <1>4a, <2>2
    <3>2. Write(w, p)
      BY <3>1 DEF Inv, WriteInv
    <3> QED
      BY <3>1, <3>2 DEF Write
  <2> QED
    BY <2>1, <2>2
<1>8. /\ DOMAIN pending[w] \subseteq DOMAIN over /\ pairs \subseteq DOMAIN links \union DOMAIN over
      /\ \A p \in DOMAIN pending[w] : pending[w][p] = "source" => over[p] = "source"
  BY <1>3, <1>4, <1>4a
<1> QED
  BY <1>1, <1>6, <1>7, <1>8

LEMMA LinkRulesKeeps ==
  ASSUME Inv, NEW s \in Sources, LinkRules(s)
  PROVE  Inv'
<1> USE WritersDiffer
<1> DEFINE pairs == Named(s)
<1>1. /\ phase[s] = "ruling" /\ Free(s) /\ InsertIgnored(s, pairs)
      /\ phase' = [phase EXCEPT ![s] = "committing"]
      /\ UNCHANGED <<items, old, links, batch, asserted, unseen, fresh, seen, wanted>>
  BY DEF LinkRules
<1>2. batch[s] \subseteq Items /\ pairs = RuleLinks(batch[s])
  BY <1>1 DEF Named, Inv, TypeOK
<1>3. pairs \subseteq Pairs /\ \A p \in pairs : Ruled(p)
  BY <1>2, RuleLinksAre
<1>4. \A p \in pairs : \A v \in Writers \ {s} : p \notin DOMAIN pending[v]
  BY <1>1, FreeIs
<1> HIDE DEF pairs
<1>5. PICK new :
        /\ pending' = [pending EXCEPT ![s] = new]
        /\ DOMAIN new \subseteq Pairs /\ new \in [DOMAIN new -> {"source", "rule", "gone"}]
        /\ \A p \in DOMAIN new :
             /\ \A v \in Writers \ {s} : p \notin DOMAIN pending[v]
             /\ Agrees(s, p, new[p])
        /\ DOMAIN pending[s] \subseteq DOMAIN new
        /\ \A p \in DOMAIN pending[s] : pending[s][p] = "source" => new[p] = "source"
        /\ pairs \subseteq DOMAIN links \union DOMAIN new
  BY <1>1, <1>3, <1>4, InsertIgnoredIs
<1>6. /\ TypeOK' /\ NoOrphanLinks' /\ WriteInv' /\ AgeInv' /\ SeenInv'
      /\ phase'[s] = "committing" /\ pending'[s] = new
      /\ \A v \in Writers \ {s} : phase'[v] = phase[v] /\ pending'[v] = pending[v]
  BY <1>1, <1>5, StatementKeeps
<1>7. PhaseInv'
  BY <1>1, <1>6 DEF Inv, PhaseInv
<1>8. RefreshInv'
  <2> SUFFICES ASSUME NEW q \in Sources
               PROVE  Refreshed(q)'
    BY DEF RefreshInv
  <2>1. CASE q = s
    <3>1. \A p \in batch[s] \X asserted[s] : p \in DOMAIN new /\ new[p] = "source"
      BY <1>1, <1>5 DEF Inv, RefreshInv, Refreshed
    <3>2. RuleLinks(batch[s])' = pairs
      BY <1>1, <1>2 DEF RuleLinks
    <3>3. \A p \in RuleLinks(batch[s])' : p \in DOMAIN links' \union DOMAIN pending'[s]
      BY <1>1, <1>5, <1>6, <3>2
    <3>4. \A p \in batch'[s] \X asserted'[s] : p \in DOMAIN pending'[s] /\ pending'[s][p] = "source"
      BY <1>1, <1>6, <3>1
    <3> QED
      BY <2>1, <3>3, <3>4 DEF Refreshed
  <2>2. CASE q # s
    BY <1>1, <1>6, <2>2 DEF Inv, RefreshInv, Refreshed, RuleLinks, Lives
  <2> QED
    BY <2>1, <2>2
<1>9. RetagInv'
  BY <1>1, <1>6 DEF Inv, RetagInv, MissingInv, StaleInv, RuleLinks, Ruled
<1> QED
  BY <1>6, <1>7, <1>8, <1>9 DEF Inv

-----------------------------------------------------------------------------
(***************************************************************************)
(* The steps of a re-tag before its commit.                                *)
(***************************************************************************)
LEMMA StartRetagKeeps ==
  ASSUME Inv, StartRetag
  PROVE  Inv'
<1> USE WritersDiffer
<1>1. /\ phase[Operator] = "idle" /\ phase' = [phase EXCEPT ![Operator] = "scanning"]
      /\ seen' = links
      /\ UNCHANGED <<items, old, links, pending, batch, asserted, unseen, fresh, wanted>>
  BY DEF StartRetag
<1>2. /\ phase'[Operator] = "scanning" /\ phase' \in [Writers -> Phases]
      /\ \A w \in Writers \ {Operator} : phase'[w] = phase[w]
  BY <1>1 DEF Inv, TypeOK, Phases
<1>3. TypeOK'
  BY <1>1, <1>2 DEF Inv, TypeOK
<1>4. NoOrphanLinks' /\ AgeInv' /\ WriteInv'
  BY <1>1 DEF Inv, NoOrphanLinks, AgeInv, WriteInv, Write, Agrees, Lives, Ruled
<1>5. PhaseInv'
  BY <1>1, <1>2 DEF Inv, PhaseInv
<1>6. RefreshInv'
  BY <1>1, <1>2 DEF Inv, RefreshInv, Refreshed, RuleLinks, Lives
<1>7. SeenInv'
  BY <1>1 DEF Inv, NoOrphanLinks, SeenInv
<1>8. MissingInv' /\ StaleInv'
  BY <1>1, <1>2 DEF Inv, RetagInv, MissingInv, StaleInv, Ruled
<1> QED
  BY <1>3, <1>4, <1>5, <1>6, <1>7, <1>8 DEF Inv, RetagInv

LEMMA ScanKeeps ==
  ASSUME Inv, Scan
  PROVE  Inv'
<1> USE WritersDiffer
<1>1. /\ phase[Operator] = "scanning" /\ phase' = [phase EXCEPT ![Operator] = "deleting"]
      /\ wanted' = RuleLinks(items)
      /\ UNCHANGED <<items, old, links, pending, batch, asserted, unseen, fresh, seen>>
  BY DEF Scan
<1>2. /\ phase'[Operator] = "deleting" /\ phase' \in [Writers -> Phases]
      /\ \A w \in Writers \ {Operator} : phase'[w] = phase[w]
  BY <1>1 DEF Inv, TypeOK, Phases
<1>3. items \subseteq Items /\ DOMAIN seen \subseteq Pairs
  BY DEF Inv, TypeOK
<1>4. wanted' \subseteq Pairs /\ \A p \in wanted' : Ruled(p)
  BY <1>1, <1>3, RuleLinksAre
<1>5. TypeOK'
  BY <1>1, <1>2, <1>4 DEF Inv, TypeOK
<1>6. NoOrphanLinks' /\ AgeInv' /\ WriteInv'
  BY <1>1 DEF Inv, NoOrphanLinks, AgeInv, WriteInv, Write, Agrees, Lives, Ruled
<1>7. PhaseInv'
  BY <1>1, <1>2 DEF Inv, PhaseInv
<1>8. RefreshInv'
  BY <1>1, <1>2 DEF Inv, RefreshInv, Refreshed, RuleLinks, Lives
<1>9. SeenInv'
  BY <1>1 DEF Inv, RetagInv, SeenInv
<1>10. MissingInv'
  <2>1. \A p \in RuleLinks(items') : p \in wanted'
    BY <1>1
  <2> QED
    BY <1>2, <1>4, <2>1 DEF MissingInv, Ruled, RuleLinks
<1>11. StaleInv'
  <2>1. ASSUME NEW p \in DOMAIN seen, Ruled(p)
        PROVE  p \in wanted' \/ p[1] \in old \ items
    BY <1>1, <1>3, <2>1, RuleLinksAre DEF Inv, RetagInv, SeenInv
  <2> QED
    BY <1>1, <1>2, <2>1 DEF Inv, RetagInv, StaleInv, Ruled
<1> QED
  BY <1>5, <1>6, <1>7, <1>8, <1>9, <1>10, <1>11 DEF Inv, RetagInv

LEMMA DeleteKeeps ==
  ASSUME Inv, DeleteLinks
  PROVE  Inv'
<1> USE WritersDiffer
<1> DEFINE cut == {p \in Named(Operator) : RulesOwn(p)}
           new == [p \in cut |-> "gone"]
<1>1. /\ phase[Operator] = "deleting" /\ Free(Operator)
      /\ phase' = [phase EXCEPT ![Operator] = "inserting"]
      /\ pending' = [pending EXCEPT ![Operator] = new]
      /\ UNCHANGED <<items, old, links, batch, asserted, unseen, fresh, seen, wanted>>
  BY DEF DeleteLinks
<1>2. Named(Operator) = ToRemove /\ DOMAIN seen \subseteq Pairs
  BY <1>1 DEF Named, Inv, TypeOK
<1>3. \A p : p \in cut <=> /\ p \in DOMAIN seen /\ seen[p] = "rule" /\ p \notin wanted
                           /\ p \in DOMAIN links /\ links[p] = "rule"
  BY <1>2 DEF ToRemove, Owned, RulesOwn
<1>4. ASSUME NEW p \in cut, NEW v \in Writers \ {Operator}
      PROVE  p \notin DOMAIN pending[v]
  BY <1>1, <1>4, FreeIs
<1>5. DOMAIN new = cut /\ \A p \in cut : new[p] = "gone"
  OBVIOUS
<1>6. new \in [DOMAIN new -> {"source", "rule", "gone"}]
  OBVIOUS
<1> HIDE DEF new, cut
<1>7. ASSUME NEW p \in cut
      PROVE  Agrees(Operator, p, "gone")
  BY <1>1, <1>3 DEF Agrees, Inv, RetagInv, StaleInv
<1>8. \A p \in DOMAIN new : /\ \A v \in Writers \ {Operator} : p \notin DOMAIN pending[v]
                            /\ Agrees(Operator, p, new[p])
  BY <1>4, <1>5, <1>7
<1>9. DOMAIN new \subseteq Pairs
  BY <1>2, <1>3, <1>5
<1>10. /\ TypeOK' /\ NoOrphanLinks' /\ WriteInv' /\ AgeInv' /\ SeenInv'
       /\ phase'[Operator] = "inserting" /\ pending'[Operator] = new
       /\ \A v \in Writers \ {Operator} : phase'[v] = phase[v] /\ pending'[v] = pending[v]
  BY <1>1, <1>6, <1>8, <1>9, StatementKeeps
<1>11. PhaseInv'
  BY <1>1, <1>10 DEF Inv, PhaseInv
<1>12. RefreshInv'
  BY <1>1, <1>10 DEF Inv, RefreshInv, Refreshed, RuleLinks, Lives
<1>13. MissingInv'
  BY <1>1, <1>10 DEF Inv, RetagInv, MissingInv, RuleLinks, Ruled
<1>14. StaleInv'
  BY <1>1, <1>3, <1>5, <1>10 DEF Inv, RetagInv, MissingInv, StaleInv, Ruled
<1> QED
  BY <1>10, <1>11, <1>12, <1>13, <1>14 DEF Inv, RetagInv

LEMMA InsertKeeps ==
  ASSUME Inv, InsertLinks
  PROVE  Inv'
<1> USE WritersDiffer
<1> DEFINE pairs == Named(Operator)
<1>1. /\ phase[Operator] = "inserting" /\ Free(Operator) /\ InsertIgnored(Operator, pairs)
      /\ phase' = [phase EXCEPT ![Operator] = "committing"]
      /\ UNCHANGED <<items, old, links, batch, asserted, unseen, fresh, seen, wanted>>
  BY DEF InsertLinks
<1>2. pairs = wanted \ DOMAIN seen
  BY <1>1 DEF Named, ToAdd
<1>3. pairs \subseteq Pairs /\ \A p \in pairs : Ruled(p)
  BY <1>2 DEF Inv, TypeOK, RetagInv, MissingInv
<1>4. \A p \in pairs : \A v \in Writers \ {Operator} : p \notin DOMAIN pending[v]
  BY <1>1, FreeIs
<1> HIDE DEF pairs
<1>5. PICK new :
        /\ pending' = [pending EXCEPT ![Operator] = new]
        /\ DOMAIN new \subseteq Pairs /\ new \in [DOMAIN new -> {"source", "rule", "gone"}]
        /\ \A p \in DOMAIN new :
             /\ \A v \in Writers \ {Operator} : p \notin DOMAIN pending[v]
             /\ Agrees(Operator, p, new[p])
        /\ DOMAIN pending[Operator] \subseteq DOMAIN new
        /\ pairs \subseteq DOMAIN links \union DOMAIN new
  BY <1>1, <1>3, <1>4, InsertIgnoredIs
<1>6. /\ TypeOK' /\ NoOrphanLinks' /\ WriteInv' /\ AgeInv' /\ SeenInv'
      /\ phase'[Operator] = "committing" /\ pending'[Operator] = new
      /\ \A v \in Writers \ {Operator} : phase'[v] = phase[v] /\ pending'[v] = pending[v]
  BY <1>1, <1>5, StatementKeeps
<1>7. PhaseInv'
  BY <1>1, <1>6 DEF Inv, PhaseInv
<1>8. RefreshInv'
  BY <1>1, <1>6 DEF Inv, RefreshInv, Refreshed, RuleLinks, Lives
<1>9. MissingInv'
  <2>1. ASSUME NEW p \in RuleLinks(items)
        PROVE  p \in DOMAIN links \union DOMAIN new
    <3>1. p[1] \in items /\ p \in wanted \union DOMAIN links
      BY <1>1, RuleLinksAre DEF Inv, TypeOK, RetagInv, MissingInv
    <3>2. p \in DOMAIN seen => p \in DOMAIN links
      BY <3>1 DEF Inv, RetagInv, SeenInv
    <3> QED
      BY <1>2, <1>5, <3>1, <3>2
  <2> QED
    BY <1>1, <1>6, <2>1 DEF Inv, RetagInv, MissingInv, RuleLinks, Ruled
<1>10. StaleInv'
  BY <1>1, <1>5, <1>6 DEF Inv, RetagInv, StaleInv, Ruled
<1> QED
  BY <1>6, <1>7, <1>8, <1>9, <1>10 DEF Inv, RetagInv

-----------------------------------------------------------------------------
(***************************************************************************)
(* Retention.                                                              *)
(***************************************************************************)
LEMMA AgeKeeps ==
  ASSUME Inv, NEW i \in Items, Age(i)
  PROVE  Inv'
<1> USE WritersDiffer
<1>1. /\ \A s \in Sources : i \notin unseen[s]
      /\ old' = old \union {i}
      /\ UNCHANGED <<items, links, phase, pending, batch, asserted, unseen, fresh, seen, wanted>>
  BY DEF Age
<1>2. TypeOK' /\ NoOrphanLinks' /\ PhaseInv' /\ AgeInv'
  BY <1>1 DEF Inv, TypeOK, NoOrphanLinks, PhaseInv, AgeInv
<1>3. WriteInv' /\ RefreshInv'
  BY <1>1 DEF Inv, WriteInv, Write, Agrees, RefreshInv, Refreshed, RuleLinks, Lives, Ruled
<1>4. RetagInv'
  BY <1>1 DEF Inv, RetagInv, SeenInv, MissingInv, StaleInv, RuleLinks, Ruled
<1> QED
  BY <1>2, <1>3, <1>4 DEF Inv

(* What is pruned is old, so that nobody is about to store it again.       *)
LEMMA PruneKeeps ==
  ASSUME Inv, Prune
  PROVE  Inv'
<1> USE WritersDiffer
<1>1. PICK expired \in SUBSET (items \intersect old) :
        /\ \A w \in Writers : \A p \in DOMAIN pending[w] : p[1] \notin expired
        /\ items' = items \ expired
        /\ links' = [p \in Cascade(expired) |-> links[p]]
        /\ UNCHANGED <<old, phase, pending, batch, asserted, unseen, fresh, seen, wanted>>
  BY DEF Prune
<1>2. \A p : p \in DOMAIN links' <=> p \in DOMAIN links /\ p[1] \notin expired
  BY <1>1 DEF Cascade
<1>3. \A p \in DOMAIN links' : links'[p] = links[p]
  BY <1>1
<1>4. links' \in [DOMAIN links' -> {"source", "rule"}] /\ DOMAIN links' \subseteq Pairs
  BY <1>1, <1>2, <1>3 DEF Inv, TypeOK
<1>5. TypeOK'
  BY <1>1, <1>4 DEF Inv, TypeOK
<1>6. NoOrphanLinks'
  BY <1>1, <1>2 DEF Inv, NoOrphanLinks
<1>7. PhaseInv' /\ AgeInv'
  BY <1>1 DEF Inv, PhaseInv, AgeInv
<1>8. WriteInv'
  <2> SUFFICES ASSUME NEW w \in Writers, NEW p \in DOMAIN pending[w]
               PROVE  Write(w, p)'
    BY <1>1 DEF WriteInv
  <2>1. Write(w, p) /\ p[1] \notin expired
    BY <1>1 DEF Inv, WriteInv
  <2> QED
    BY <1>1, <1>2, <1>3, <2>1 DEF Write, Agrees, Lives, Ruled
<1>9. RefreshInv'
  <2> SUFFICES ASSUME NEW s \in Sources
               PROVE  Refreshed(s)'
    BY DEF RefreshInv
  <2>1. Refreshed(s) /\ fresh[s] \intersect expired = {}
    BY DEF Inv, RefreshInv, AgeInv
  <2>2. ASSUME NEW p, p[1] \in Lives(s)'
        PROVE  p[1] \in Lives(s) /\ (p \in DOMAIN links => p \in DOMAIN links')
    BY <1>1, <1>2, <2>1, <2>2 DEF Lives
  <2>3. RuleLinks(batch[s])' = RuleLinks(batch[s])
    BY <1>1 DEF RuleLinks
  <2> QED
    BY <1>1, <2>1, <2>2, <2>3 DEF Refreshed
<1>10. SeenInv'
  BY <1>1, <1>2 DEF Inv, RetagInv, SeenInv
<1>11. ASSUME NEW p \in RuleLinks(items)'
       PROVE  p \in RuleLinks(items) /\ (p \in DOMAIN links => p \in DOMAIN links')
  <2>1. p \in RuleLinks(items')
    BY DEF RuleLinks
  <2>2. items' \subseteq items /\ items \subseteq Items /\ items' \in SUBSET Items
    BY <1>1 DEF Inv, TypeOK
  <2>3. p \in Pairs /\ p[1] \in items' /\ Ruled(p)
    BY <2>1, <2>2, RuleLinksAre
  <2>4. p[1] \in items /\ p[1] \notin expired
    BY <1>1, <2>3
  <2>5. p \in RuleLinks(items)
    BY <2>2, <2>3, <2>4, RuleLinksAre
  <2> QED
    BY <1>2, <2>4, <2>5
<1>12. MissingInv'
  BY <1>1, <1>11 DEF Inv, RetagInv, MissingInv, Ruled
<1>13. StaleInv'
  BY <1>1, <1>2, <1>3 DEF Inv, RetagInv, StaleInv, Ruled
<1> QED
  BY <1>5, <1>6, <1>7, <1>8, <1>9, <1>10, <1>12, <1>13 DEF Inv, RetagInv

-----------------------------------------------------------------------------
(***************************************************************************)
(* The theorems.                                                           *)
(***************************************************************************)
LEMMA InvInit == Init => Inv
<1> SUFFICES ASSUME Init
             PROVE  Inv
  OBVIOUS
<1> USE WritersDiffer
<1>1. /\ items \subseteq Items /\ old = {}
      /\ phase = [w \in Writers |-> "idle"] /\ pending = [w \in Writers |-> Empty]
      /\ batch = [s \in Sources |-> {}] /\ asserted = [s \in Sources |-> {}]
      /\ unseen = [s \in Sources |-> {}] /\ fresh = [s \in Sources |-> {}]
      /\ seen = Empty /\ wanted = {}
  BY DEF Init
<1>2. PICK linked \in SUBSET (items \X Topics) : links \in [linked -> {"source", "rule"}]
  BY DEF Init
<1>3. /\ DOMAIN links \subseteq Pairs /\ links \in [DOMAIN links -> {"source", "rule"}]
      /\ NoOrphanLinks
  BY <1>1, <1>2 DEF Pairs, NoOrphanLinks
<1>4. DOMAIN Empty = {} /\ \A S : Empty \in [{} -> S]
  BY DEF Empty
<1>5. TypeOK
  BY <1>1, <1>3, <1>4 DEF TypeOK, Phases
<1>6. PhaseInv /\ WriteInv /\ AgeInv
  BY <1>1, <1>4 DEF PhaseInv, WriteInv, AgeInv
<1>7. RefreshInv /\ RetagInv
  BY <1>1, <1>4 DEF RefreshInv, Refreshed, RetagInv, SeenInv, MissingInv, StaleInv
<1> QED
  BY <1>3, <1>5, <1>6, <1>7 DEF Inv

LEMMA InvNext == Inv /\ [Next]_vars => Inv'
<1> SUFFICES ASSUME Inv, [Next]_vars
             PROVE  Inv'
  OBVIOUS
<1>1. ASSUME NEW s \in Sources, Refresh(s)
      PROVE  Inv'
  BY <1>1, StartRefreshKeeps, LookUpKeeps, StoreKeeps, LinkSourceKeeps, LinkRulesKeeps,
     CommitRefreshKeeps DEF Refresh
<1>2. CASE Retag
  BY <1>2, StartRetagKeeps, ScanKeeps, DeleteKeeps, InsertKeeps, CommitRetagKeeps DEF Retag
<1>3. ASSUME NEW w \in Writers, Refused(w) \/ DeadlockVictim(w) \/ Crash(w)
      PROVE  Inv'
  BY <1>3, RollbackKeeps DEF Refused, DeadlockVictim, Crash
<1>4. CASE UNCHANGED vars
  <2>1. TypeOK' /\ NoOrphanLinks' /\ PhaseInv' /\ AgeInv'
    BY <1>4 DEF vars, Inv, TypeOK, NoOrphanLinks, PhaseInv, AgeInv
  <2>2. WriteInv' /\ RefreshInv'
    BY <1>4 DEF vars, Inv, WriteInv, Write, Agrees, RefreshInv, Refreshed, RuleLinks, Lives, Ruled
  <2>3. RetagInv'
    BY <1>4 DEF vars, Inv, RetagInv, SeenInv, MissingInv, StaleInv, RuleLinks, Ruled
  <2> QED
    BY <2>1, <2>2, <2>3 DEF Inv
<1> QED
  BY <1>1, <1>2, <1>3, <1>4, AgeKeeps, PruneKeeps DEF Next

LEMMA Reachable == Spec => []Inv
BY InvInit, InvNext, PTL DEF Spec

(* The variables of the refreshes, the re-tag and the three tables keep    *)
(* their types.                                                            *)
THEOREM TopicsTyped == Spec => []TypeOK
<1>1. Inv => TypeOK
  BY DEF Inv
<1> QED
  BY <1>1, Reachable, PTL

(* No link outlives its item, although links are written from ids that     *)
(* were read earlier (store.py, _insert_ignore; models.py, FeedItemTopic). *)
THEOREM LinksKeepItems == Spec => []NoOrphanLinks
<1>1. Inv => NoOrphanLinks
  BY DEF Inv
<1> QED
  BY <1>1, Reachable, PTL

(* What the two commits and the prune make of the links.                   *)
LEMMA CommitIs ==
  ASSUME Inv, NEW w \in Writers, links' = Applied(links, pending[w]), NEW p
  PROVE  /\ p \in DOMAIN pending[w] /\ pending[w][p] # "gone" =>
              p \in DOMAIN links' /\ links'[p] = pending[w][p]
         /\ p \notin DOMAIN pending[w] /\ p \in DOMAIN links =>
              p \in DOMAIN links' /\ links'[p] = links[p]
         /\ p \in DOMAIN links' =>
              \/ p \in DOMAIN pending[w] /\ pending[w][p] # "gone" /\ links'[p] = pending[w][p]
              \/ p \notin DOMAIN pending[w] /\ p \in DOMAIN links /\ links'[p] = links[p]
BY AppliedIs

LEMMA PruneIs ==
  ASSUME Prune
  PROVE  /\ items' \subseteq items
         /\ \A p : p \in DOMAIN links /\ p[1] \in items' => p \in DOMAIN links'
         /\ \A p \in DOMAIN links' : p \in DOMAIN links /\ links'[p] = links[p]
<1>1. PICK expired \in SUBSET (items \intersect old) :
        /\ items' = items \ expired
        /\ links' = [p \in Cascade(expired) |-> links[p]]
  BY DEF Prune
<1> QED
  BY <1>1 DEF Cascade

(* The steps that change the items or the links.                           *)
LEMMA TablesChange ==
  ASSUME [Next]_vars
  PROVE  \/ \E s \in Sources : CommitRefresh(s)
         \/ CommitRetag
         \/ Prune
         \/ UNCHANGED <<items, links>>
BY DEF vars, Next, Refresh, Retag, StartRefresh, LookUp, StoreItems, LinkSource, LinkRules,
       StartRetag, Scan, DeleteLinks, InsertLinks, Refused, DeadlockVictim, Crash, Rollback, Age

(* "Nothing ever rewrites a source row back to rule" (store.py:92), and no *)
(* re-tag deletes one, however the writers' statements interleave.         *)
THEOREM OperatorKeepsLinks == Spec => OperatorLinksStay
<1>1. Inv /\ [Next]_vars =>
        [\A p \in DOMAIN links :
           links[p] = "source" /\ p[1] \in items' =>
             p \in DOMAIN links' /\ links'[p] = "source"]_vars
  <2> SUFFICES ASSUME Inv, [Next]_vars, NEW p \in DOMAIN links, links[p] = "source",
                      p[1] \in items'
               PROVE  p \in DOMAIN links' /\ links'[p] = "source"
    OBVIOUS
  <2> USE WritersDiffer
  <2>1. ASSUME NEW w \in Writers, links' = Applied(links, pending[w])
        PROVE  p \in DOMAIN links' /\ links'[p] = "source"
    <3>1. p \in DOMAIN pending[w] => pending[w][p] = "source"
      BY DEF Inv, WriteInv, Write, Agrees
    <3> QED
      BY <2>1, <3>1, CommitIs
  <2>2. CASE \E s \in Sources : CommitRefresh(s)
    BY <2>1, <2>2 DEF CommitRefresh
  <2>3. CASE CommitRetag
    BY <2>1, <2>3 DEF CommitRetag
  <2>4. CASE Prune
    BY <2>4, PruneIs
  <2>5. CASE UNCHANGED <<items, links>>
    BY <2>5
  <2> QED
    BY <2>2, <2>3, <2>4, <2>5, TablesChange
<1> QED
  BY <1>1, Reachable, PTL DEF Spec, OperatorLinksStay

(* A refresh that commits leaves every item it read back linked to its     *)
(* source's topics, as the operator's, and to the ruleset's.               *)
THEOREM RefreshLinks == Spec => RefreshLinksItsItems
<1>1. Inv /\ [Next]_vars =>
        [\A s \in Sources : CommitRefresh(s) =>
           \A i \in batch[s] \intersect items' :
             /\ \A t \in asserted[s] : <<i, t>> \in DOMAIN links'
                                       /\ links'[<<i, t>>] = "source"
             /\ \A t \in Rules[i] : <<i, t>> \in DOMAIN links']_vars
  <2> SUFFICES ASSUME Inv, NEW s \in Sources, CommitRefresh(s),
                      NEW i \in batch[s] \intersect items'
               PROVE  /\ \A t \in asserted[s] : <<i, t>> \in DOMAIN links'
                                                /\ links'[<<i, t>>] = "source"
                      /\ \A t \in Rules[i] : <<i, t>> \in DOMAIN links'
    OBVIOUS
  <2> USE WritersDiffer
  <2>1. /\ phase[s] = "committing" /\ links' = Applied(links, pending[s])
        /\ i \in Lives(s) /\ Refreshed(s) /\ batch[s] \subseteq Items
    BY DEF CommitRefresh, Inv, RefreshInv, Lives, TypeOK
  <2>2. \A p \in DOMAIN pending[s] : pending[s][p] # "gone"
    BY DEF Inv, WriteInv, Write, Agrees
  <2>3. ASSUME NEW t \in asserted[s]
        PROVE  <<i, t>> \in DOMAIN links' /\ links'[<<i, t>>] = "source"
    <3>1. <<i, t>> \in DOMAIN pending[s] /\ pending[s][<<i, t>>] = "source"
      BY <2>1 DEF Refreshed
    <3> QED
      BY <2>1, <3>1, CommitIs
  <2>4. ASSUME NEW t \in Rules[i]
        PROVE  <<i, t>> \in DOMAIN links'
    <3>1. <<i, t>> \in RuleLinks(batch[s])
      <4>1. t \in Topics
        BY <2>1, ItemTopicsAssumption
      <4> QED
        BY <4>1 DEF RuleLinks
    <3>2. <<i, t>> \in DOMAIN links \union DOMAIN pending[s]
      BY <2>1, <3>1 DEF Refreshed
    <3> QED
      BY <2>1, <2>2, <3>2, CommitIs
  <2> QED
    BY <2>3, <2>4
<1> QED
  BY <1>1, Reachable, PTL DEF Spec, RefreshLinksItsItems

(* A re-tag that commits has brought the whole window into line            *)
(* (operations.py:415), whatever refreshes and retention did while it ran, *)
(* and nothing takes it out of line again.                                 *)
THEOREM RetagBrings == Spec => RetagBringsIntoLine
<1>1. Inv /\ [Next]_vars => [CommitRetag \/ InLine => InLine']_vars
  <2> SUFFICES ASSUME Inv, Inv', [Next]_vars, CommitRetag \/ InLine
               PROVE  InLine'
    BY InvNext
  <2> USE WritersDiffer
  <2>1. TypeOK /\ items \in SUBSET Items /\ items' \in SUBSET Items
    BY DEF Inv, TypeOK
  <2>2. ASSUME \A p \in RuleLinks(items') : p \in DOMAIN links',
               \A p \in DOMAIN links' : links'[p] = "rule" => Ruled(p)
        PROVE  InLine'
    BY <2>2 DEF InLine, RuleLinks, Ruled
  <2>3. ASSUME InLine
        PROVE  /\ \A p \in RuleLinks(items) : p \in DOMAIN links
               /\ \A p \in DOMAIN links : links[p] = "rule" => Ruled(p)
    BY <2>3 DEF InLine, Ruled
  <2>4. CASE CommitRetag
    <3>1. /\ phase[Operator] = "committing" /\ items' = items
          /\ links' = Applied(links, pending[Operator])
      BY <2>4 DEF CommitRetag
    <3>2. ASSUME NEW p \in RuleLinks(items')
          PROVE  p \in DOMAIN links'
      <4>1. p[1] \in items /\ Ruled(p)
        BY <2>1, <3>1, RuleLinksAre
      <4>2. p \in DOMAIN links \union DOMAIN pending[Operator]
        BY <3>1 DEF Inv, RetagInv, MissingInv
      <4>3. p \in DOMAIN pending[Operator] => pending[Operator][p] # "gone"
        BY <4>1 DEF Inv, WriteInv, Write, Agrees
      <4> QED
        BY <3>1, <4>2, <4>3, CommitIs
    <3>3. ASSUME NEW p \in DOMAIN links', links'[p] = "rule"
          PROVE  Ruled(p)
      <4>1. CASE p \in DOMAIN pending[Operator] /\ links'[p] = pending[Operator][p]
        BY <3>3, <4>1 DEF Inv, WriteInv, Write, Agrees
      <4>2. CASE p \notin DOMAIN pending[Operator] /\ p \in DOMAIN links /\ links'[p] = links[p]
        BY <3>1, <3>3, <4>2 DEF Inv, RetagInv, StaleInv
      <4> QED
        BY <3>1, <4>1, <4>2, CommitIs
    <3> QED
      BY <2>2, <3>2, <3>3
  <2>5. ASSUME InLine, NEW s \in Sources, CommitRefresh(s)
        PROVE  InLine'
    <3>1. /\ phase[s] = "committing" /\ items' = items \union fresh[s]
          /\ links' = Applied(links, pending[s])
          /\ fresh[s] \subseteq batch[s] /\ batch[s] \in SUBSET Items
      BY <2>5 DEF CommitRefresh, Inv, PhaseInv, TypeOK
    <3>2. \A p \in DOMAIN pending[s] :
            /\ pending[s][p] # "gone"
            /\ pending[s][p] = "rule" => Ruled(p)
      BY DEF Inv, WriteInv, Write, Agrees
    <3>3. ASSUME NEW p \in RuleLinks(items')
          PROVE  p \in DOMAIN links'
      <4>1. p \in Pairs /\ p[1] \in items' /\ Ruled(p)
        BY <2>1, RuleLinksAre
      <4>2. CASE p[1] \in items
        <5>1. p \in DOMAIN links
          BY <2>1, <2>3, <2>5, <4>1, <4>2, RuleLinksAre
        <5> QED
          BY <3>1, <3>2, <5>1, CommitIs
      <4>3. CASE p[1] \in fresh[s]
        <5>1. p \in RuleLinks(batch[s]) /\ p[1] \in Lives(s)
          BY <3>1, <4>1, <4>3, RuleLinksAre DEF Lives
        <5>2. p \in DOMAIN links \union DOMAIN pending[s]
          BY <3>1, <5>1 DEF Inv, RefreshInv, Refreshed
        <5> QED
          BY <3>1, <3>2, <5>2, CommitIs
      <4> QED
        BY <3>1, <4>1, <4>2, <4>3
    <3>4. \A p \in DOMAIN links' : links'[p] = "rule" => Ruled(p)
      BY <2>3, <2>5, <3>1, <3>2, CommitIs
    <3> QED
      BY <2>2, <3>3, <3>4
  <2>6. CASE InLine /\ Prune
    <3>1. ASSUME NEW p \in RuleLinks(items')
          PROVE  p \in DOMAIN links'
      <4>1. p \in Pairs /\ p[1] \in items' /\ Ruled(p)
        BY <2>1, RuleLinksAre
      <4>2. p[1] \in items
        BY <2>6, <4>1, PruneIs
      <4>3. p \in DOMAIN links
        BY <2>1, <2>3, <2>6, <4>1, <4>2, RuleLinksAre
      <4> QED
        BY <2>6, <4>1, <4>3, PruneIs
    <3>2. \A p \in DOMAIN links' : links'[p] = "rule" => Ruled(p)
      BY <2>3, <2>6, PruneIs
    <3> QED
      BY <2>2, <3>1, <3>2
  <2>7. CASE InLine /\ UNCHANGED <<items, links>>
    BY <2>2, <2>3, <2>7
  <2> QED
    BY <2>4, <2>5, <2>6, <2>7, TablesChange DEF CommitRetag
<1> QED
  BY <1>1, Reachable, PTL DEF Spec, RetagBringsIntoLine
================================================================================
