---------------------------- MODULE Reader_proofs ----------------------------
(***************************************************************************)
(* What a reader keeps: bookmarks, for any items, users, requests and      *)
(* bounds; and mutes, for any texts pasted and any lexemes.                *)
(***************************************************************************)
EXTENDS SavedItems, UrlMutes, Integers, FiniteSets, TLAPS, SequenceTheorems,
        WellFoundedInduction

(***************************************************************************)
(* Bookmarks.                                                              *)
(***************************************************************************)

(* What an uncommitted row is: new, of an item that is there, and of one   *)
(* request only, which has inserted it already.                            *)
PendingInv ==
  \A r \in Requests : \A p \in pending[r] :
    /\ p \notin DOMAIN savedRows
    /\ phase[r] \in {"reading", "committing"}
    /\ \A q \in Requests \ {r} : p \notin pending[q]

(* A request that is not idle has a row and a date.                        *)
RequestInv ==
  \A r \in Requests : phase[r] # "idle" =>
    /\ row[r] \in RowKeys
    /\ date[r] \in 1 .. MaxDate

(* What retention is about to delete carries only late bookmarks.          *)
DoomedInv ==
  /\ ~deleting => doomed = {}
  /\ \A p \in DOMAIN savedRows :
       IsBookmark(p) /\ ItemOf(p) \in doomed => p \in late

Inv == TypeOK /\ RequestInv /\ RowsNameItems /\ PendingInv /\ DoomedInv

(* The item of a row is an item: rows are triples.                         *)
LEMMA RowItem ==
  ASSUME NEW p \in RowKeys
  PROVE  ItemOf(p) \in Items
BY DEF RowKeys, ItemOf

(* The invariant holds when the process starts.                            *)
LEMMA InvInit == Init => Inv
<1> SUFFICES ASSUME Init
             PROVE  Inv
  OBVIOUS
<1>1. DOMAIN savedRows = {} /\ savedRows \in [DOMAIN savedRows -> 1 .. MaxDate]
  BY DEF Init
<1>2. TypeOK
  <2>1. feedItems \subseteq Items /\ DOMAIN savedRows \subseteq RowKeys
    BY <1>1 DEF Init
  <2>2. lastDate \in 0 .. MaxDate /\ date \in [Requests -> 0 .. MaxDate]
    BY SavedItemsAssumption DEF Init
  <2>3. /\ phase \in [Requests -> {"idle", "saving", "reading", "committing"}]
        /\ row \in [Requests -> RowKeys \union {NoRow}]
    BY DEF Init
  <2>4. /\ pending \in [Requests -> SUBSET RowKeys]
        /\ \A r \in Requests : pending[r] \subseteq {row[r]}
    BY DEF Init
  <2>5. deleting \in BOOLEAN /\ doomed \subseteq Items /\ late \subseteq RowKeys
    BY DEF Init
  <2> QED
    BY <1>1, <2>1, <2>2, <2>3, <2>4, <2>5 DEF TypeOK
<1>3. RequestInv /\ RowsNameItems /\ PendingInv /\ DoomedInv
  BY <1>1 DEF Init, RequestInv, RowsNameItems, PendingInv, DoomedInv
<1> QED
  BY <1>2, <1>3 DEF Inv

(* A session that ends leaves no row, date or insert behind.               *)
LEMMA EndedKeeps ==
  ASSUME Inv, NEW r \in Requests, Ended(r),
         UNCHANGED <<feedItems, savedRows, lastDate, deleting, doomed, late>>
  PROVE  Inv'
<1>1. TypeOK'
  <2>1. date' \in [Requests -> 0 .. MaxDate]
    BY SavedItemsAssumption DEF Inv, TypeOK, Ended
  <2>2. /\ pending' \in [Requests -> SUBSET RowKeys]
        /\ \A q \in Requests : pending'[q] \subseteq {row'[q]}
    BY DEF Inv, TypeOK, Ended
  <2> QED
    BY <2>1, <2>2 DEF Inv, TypeOK, Ended
<1>2. RequestInv'
  BY DEF Inv, TypeOK, RequestInv, Ended
<1>3. /\ \A q \in Requests : pending'[q] \subseteq pending[q]
      /\ \A q \in Requests : pending'[q] # {} => phase'[q] = phase[q]
  BY DEF Inv, TypeOK, Ended
<1>4. RowsNameItems'
  BY <1>3 DEF Inv, RowsNameItems
<1>5. PendingInv'
  BY <1>3 DEF Inv, PendingInv
<1>6. DoomedInv'
  BY DEF Inv, DoomedInv
<1> QED
  BY <1>1, <1>2, <1>4, <1>5, <1>6 DEF Inv

(* Every step of a save keeps the invariant.                               *)
LEMMA SaveKeeps ==
  ASSUME Inv, NEW r \in Requests, Save(r)
  PROVE  Inv'
<1>1. CASE StartSave(r)
  <2>1. TypeOK'
    <3>1. /\ lastDate' \in 0 .. MaxDate
          /\ date' \in [Requests -> 0 .. MaxDate]
      BY <1>1, SavedItemsAssumption DEF Inv, TypeOK, StartSave
    <3>2. pending[r] = {}
      BY <1>1 DEF Inv, PendingInv, StartSave
    <3>3. /\ row' \in [Requests -> RowKeys \union {NoRow}]
          /\ \A q \in Requests : pending'[q] \subseteq {row'[q]}
      BY <1>1, <3>2 DEF Inv, TypeOK, StartSave
    <3> QED
      BY <1>1, <3>1, <3>3 DEF Inv, TypeOK, StartSave
  <2>2. RequestInv'
    BY <1>1, SavedItemsAssumption DEF Inv, TypeOK, RequestInv, StartSave
  <2>3. RowsNameItems' /\ DoomedInv'
    BY <1>1 DEF Inv, RowsNameItems, DoomedInv, StartSave
  <2>4. PendingInv'
    BY <1>1 DEF Inv, TypeOK, PendingInv, StartSave
  <2> QED
    BY <2>1, <2>2, <2>3, <2>4 DEF Inv
<1>2. CASE InsertSave(r)
  <2>1. /\ row[r] \in RowKeys
        /\ pending[r] = {}
        /\ pending'[r] = {row[r]} \ DOMAIN savedRows
        /\ \A q \in Requests \ {r} : pending'[q] = pending[q]
    BY <1>2 DEF Inv, TypeOK, RequestInv, PendingInv, InsertSave
  <2>2. TypeOK'
    BY <1>2, <2>1 DEF Inv, TypeOK, InsertSave
  <2>3. RequestInv'
    BY <1>2 DEF Inv, TypeOK, RequestInv, InsertSave
  <2>4. RowsNameItems'
    BY <1>2, <2>1 DEF Inv, RowsNameItems, InsertSave, ItemIsThere
  <2>5. PendingInv'
    BY <1>2, <2>1 DEF Inv, TypeOK, PendingInv, InsertSave, Waits
  <2>6. DoomedInv'
    BY <1>2 DEF Inv, DoomedInv, InsertSave
  <2> QED
    BY <2>2, <2>3, <2>4, <2>5, <2>6 DEF Inv
<1>3. CASE ReadBack(r)
  <2>1. TypeOK' /\ RequestInv'
    BY <1>3 DEF Inv, TypeOK, RequestInv, ReadBack
  <2>2. RowsNameItems' /\ DoomedInv'
    BY <1>3 DEF Inv, RowsNameItems, DoomedInv, ReadBack
  <2>3. PendingInv'
    BY <1>3 DEF Inv, TypeOK, PendingInv, ReadBack
  <2> QED
    BY <2>1, <2>2, <2>3 DEF Inv
<1>4. CASE CommitSave(r)
  <2>1. /\ DOMAIN savedRows' = DOMAIN savedRows \union pending[r]
        /\ pending'[r] = {}
        /\ \A q \in Requests \ {r} : /\ pending'[q] = pending[q]
                                     /\ phase'[q] = phase[q]
    BY <1>4 DEF Inv, TypeOK, CommitSave, Ended
  <2>2. TypeOK'
    <3>1. date[r] \in 1 .. MaxDate
      BY <1>4 DEF Inv, RequestInv, CommitSave
    <3>2. DOMAIN savedRows' \subseteq RowKeys
      BY <2>1 DEF Inv, TypeOK
    <3>3. savedRows' \in [DOMAIN savedRows' -> 1 .. MaxDate]
      BY <1>4, <3>1 DEF Inv, TypeOK, CommitSave
    <3>4. late' \subseteq RowKeys
      BY <1>4 DEF Inv, TypeOK, CommitSave
    <3>5. date' \in [Requests -> 0 .. MaxDate]
      BY <1>4, SavedItemsAssumption DEF Inv, TypeOK, CommitSave, Ended
    <3>6. /\ pending' \in [Requests -> SUBSET RowKeys]
          /\ \A q \in Requests : pending'[q] \subseteq {row'[q]}
      BY <1>4 DEF Inv, TypeOK, CommitSave, Ended
    <3> QED
      BY <1>4, <3>2, <3>3, <3>4, <3>5, <3>6
         DEF Inv, TypeOK, CommitSave, Ended
  <2>3. RequestInv'
    BY <1>4 DEF Inv, TypeOK, RequestInv, CommitSave, Ended
  <2>4. RowsNameItems'
    BY <1>4, <2>1 DEF Inv, RowsNameItems, CommitSave
  <2>5. PendingInv'
    BY <2>1 DEF Inv, PendingInv
  <2>6. DoomedInv'
    BY <1>4, <2>1 DEF Inv, DoomedInv, CommitSave
  <2> QED
    BY <2>2, <2>3, <2>4, <2>5, <2>6 DEF Inv
<1>5. CASE SaveRefused(r) \/ ReadBackFails(r) \/ Crash(r)
  BY <1>5, EndedKeeps DEF SaveRefused, ReadBackFails, Crash
<1> QED
  BY <1>1, <1>2, <1>3, <1>4, <1>5 DEF Save

(* Removing a row keeps the invariant.                                     *)
LEMMA RemoveKeeps ==
  ASSUME Inv, RemoveSave
  PROVE  Inv'
<1>1. PICK p \in DOMAIN savedRows :
        /\ savedRows' = [q \in DOMAIN savedRows \ {p} |-> savedRows[q]]
        /\ late' = late \ {p}
  BY DEF RemoveSave
<1>2. DOMAIN savedRows' = DOMAIN savedRows \ {p}
  BY <1>1
<1>3. UNCHANGED <<feedItems, lastDate, phase, row, date, pending, deleting, doomed>>
  BY DEF RemoveSave
<1>4. savedRows' \in [DOMAIN savedRows' -> 1 .. MaxDate]
  BY <1>1 DEF Inv, TypeOK
<1>5. TypeOK'
  BY <1>1, <1>2, <1>3, <1>4 DEF Inv, TypeOK
<1>6. RequestInv'
  BY <1>3 DEF Inv, RequestInv
<1>7. RowsNameItems' /\ PendingInv'
  BY <1>2, <1>3 DEF Inv, RowsNameItems, PendingInv
<1>8. DoomedInv'
  BY <1>1, <1>2, <1>3 DEF Inv, DoomedInv
<1> QED
  BY <1>5, <1>6, <1>7, <1>8 DEF Inv

(* The snapshot of retention spares what is bookmarked in it.              *)
LEMMA StartPruneKeeps ==
  ASSUME Inv, StartPrune
  PROVE  Inv'
<1>1. \A i \in doomed' : ~Exempt(i)
  BY DEF StartPrune
<1>2. TypeOK'
  BY DEF Inv, TypeOK, StartPrune
<1>3. RequestInv' /\ RowsNameItems' /\ PendingInv'
  BY DEF Inv, RequestInv, RowsNameItems, PendingInv, StartPrune
<1>4. DoomedInv'
  BY <1>1 DEF Inv, DoomedInv, StartPrune, Exempt
<1> QED
  BY <1>2, <1>3, <1>4 DEF Inv

(* The items that go are named by no row, committed or not.                *)
LEMMA EndPruneKeeps ==
  ASSUME Inv, EndPrune
  PROVE  Inv'
<1>1. /\ DOMAIN savedRows' = {q \in DOMAIN savedRows : ItemOf(q) \notin doomed}
      /\ feedItems' = feedItems \ doomed
  BY DEF EndPrune
<1>2. savedRows' \in [DOMAIN savedRows' -> 1 .. MaxDate]
  BY <1>1 DEF Inv, TypeOK, EndPrune
<1>3. TypeOK'
  BY <1>1, <1>2 DEF Inv, TypeOK, EndPrune
<1>4. RequestInv'
  BY DEF Inv, RequestInv, EndPrune
<1>5. RowsNameItems'
  BY <1>1 DEF Inv, RowsNameItems, EndPrune, Locked
<1>6. PendingInv'
  BY <1>1 DEF Inv, PendingInv, EndPrune
<1>7. DoomedInv'
  BY DEF Inv, DoomedInv, EndPrune
<1> QED
  BY <1>3, <1>4, <1>5, <1>6, <1>7 DEF Inv

(* The invariant is kept by every step.                                    *)
LEMMA InvNext == Inv /\ [Next]_vars => Inv'
<1> SUFFICES ASSUME Inv, [Next]_vars
             PROVE  Inv'
  OBVIOUS
<1>1. CASE \E r \in Requests : Save(r)
  BY <1>1, SaveKeeps
<1>2. CASE UNCHANGED vars
  BY <1>2 DEF vars, Inv, TypeOK, RequestInv, RowsNameItems, PendingInv,
              DoomedInv
<1> QED
  BY <1>1, <1>2, RemoveKeeps, StartPruneKeeps, EndPruneKeeps DEF Next

(* Every reachable state satisfies the invariant.                          *)
THEOREM Reachable == Spec => []Inv
BY InvInit, InvNext, PTL DEF Spec

(* The tables, the requests and the running DELETE keep their types; a     *)
(* request has nothing uncommitted but the row it saves.                   *)
THEOREM SavedItemsTyped == Spec => []TypeOK
<1>1. Inv => TypeOK
  BY DEF Inv
<1> QED
  BY <1>1, Reachable, PTL

(* No row, committed or not, loses its item (the existence query of        *)
(* create_bookmark and set_read_state, the foreign key, the cascade).      *)
THEOREM RowsKeepItems == Spec => []RowsNameItems
<1>1. Inv => RowsNameItems
  BY DEF Inv
<1> QED
  BY <1>1, Reachable, PTL

(* A second click is not a new save, however many requests there are.      *)
THEOREM DatesAreKept == Spec => DatesStay
<1>1. Inv /\ [Next]_vars =>
        [\A p \in DOMAIN savedRows \intersect DOMAIN savedRows' :
           savedRows'[p] = savedRows[p]]_vars
  <2> SUFFICES ASSUME Inv, Next,
                      NEW p \in DOMAIN savedRows \intersect DOMAIN savedRows'
               PROVE  savedRows'[p] = savedRows[p]
    BY DEF vars
  <2>1. ASSUME NEW r \in Requests, CommitSave(r)
        PROVE  savedRows'[p] = savedRows[p]
    BY <2>1 DEF Inv, PendingInv, CommitSave
  <2>2. CASE RemoveSave
    BY <2>2 DEF RemoveSave
  <2>3. CASE EndPrune
    BY <2>3 DEF EndPrune
  <2>4. CASE UNCHANGED savedRows
    BY <2>4
  <2> QED
    BY <2>1, <2>2, <2>3, <2>4
       DEF Next, Save, StartSave, InsertSave, SaveRefused, ReadBack, ReadBackFails,
           Crash, StartPrune
<1> QED
  BY <1>1, Reachable, PTL DEF Spec, DatesStay

(* Retention takes no bookmark that was committed before its DELETE began. *)
THEOREM TimelyBookmarksAreKept == Spec => TimelyBookmarksStay
<1>1. Inv /\ [Next]_vars =>
        [\A p \in DOMAIN savedRows :
           IsBookmark(p) /\ ItemOf(p) \notin feedItems' => p \in late]_vars
  <2> SUFFICES ASSUME Inv, Next, NEW p \in DOMAIN savedRows, IsBookmark(p),
                      ItemOf(p) \notin feedItems'
               PROVE  p \in late
    BY DEF vars
  <2>1. ItemOf(p) \in feedItems
    BY DEF Inv, RowsNameItems
  <2>2. CASE EndPrune
    BY <2>1, <2>2 DEF Inv, DoomedInv, EndPrune
  <2>3. CASE UNCHANGED feedItems
    BY <2>1, <2>3
  <2> QED
    BY <2>2, <2>3
       DEF Next, Save, StartSave, InsertSave, SaveRefused, ReadBack, ReadBackFails,
           CommitSave, Crash, RemoveSave, StartPrune
<1> QED
  BY <1>1, Reachable, PTL DEF Spec, TimelyBookmarksStay

-----------------------------------------------------------------------------
(***************************************************************************)
(* Mutes.  A set of numbers that is not empty has a least one: where a     *)
(* text is cut.                                                            *)
(***************************************************************************)
LEMMA Least ==
  ASSUME NEW S \in SUBSET Nat, S # {}
  PROVE  \E o \in S : \A p \in S : o <= p
<1>1. \E o \in S : \A p \in S : ~ (<<p, o>> \in OpToRel(<, Nat))
  BY NatLessThanWellFounded, WFMin, Zenon
<1>2. PICK o \in S : \A p \in S : ~ (<<p, o>> \in OpToRel(<, Nat))
  BY <1>1, Zenon
<1>3. ASSUME NEW p \in S
      PROVE  o <= p
  <2>1. ~ (p < o)
    BY <1>2, <1>3, Zenon DEF OpToRel
  <2> QED
    BY <2>1
<1> QED
  BY <1>3

(***************************************************************************)
(* Texts: cutting and joining them.                                        *)
(***************************************************************************)
Texts == Seq(Lexeme)

FreeOf(text, D) == \A i \in DOMAIN text : text[i] \notin D
Opens(text, D) == text = <<>> \/ text[1] \in D

(* The text that two texts make.                                           *)
Joined(t, a, b) ==
  /\ t \in Texts /\ Len(t) = Len(a) + Len(b) /\ DOMAIN t = 1 .. (Len(a) + Len(b))
  /\ \A i \in 1 .. (Len(a) + Len(b)) : t[i] = IF i <= Len(a) THEN a[i] ELSE b[i - Len(a)]
  /\ DOMAIN a = 1 .. Len(a) /\ DOMAIN b = 1 .. Len(b)
  /\ Len(a) \in Nat /\ Len(b) \in Nat

LEMMA JoinIs ==
  ASSUME NEW a \in Texts, NEW b \in Texts
  PROVE  Joined(a \o b, a, b)
<1>1. a \o b \in Texts /\ Len(a \o b) = Len(a) + Len(b)
  BY ConcatProperties DEF Texts
<1>2. \A i \in 1 .. (Len(a) + Len(b)) :
        (a \o b)[i] = IF i <= Len(a) THEN a[i] ELSE b[i - Len(a)]
  BY ConcatProperties DEF Texts
<1>3. DOMAIN a = 1 .. Len(a) /\ DOMAIN b = 1 .. Len(b) /\ Len(a) \in Nat /\ Len(b) \in Nat
  BY LenProperties DEF Texts
<1>4. DOMAIN (a \o b) = 1 .. (Len(a) + Len(b))
  BY <1>1, LenProperties DEF Texts
<1> QED
  BY <1>1, <1>2, <1>3, <1>4 DEF Joined

Joins(a, b) == a \o b \in Texts
Regroups(a, b, c) == (a \o b) \o c = a \o (b \o c)

LEMMA Join == \A a, b \in Texts : Joins(a, b)
BY ConcatProperties DEF Texts, Joins

LEMMA Regroup == \A a, b, c \in Texts : Regroups(a, b, c)
BY ConcatAssociative DEF Texts, Regroups

LEMMA JoinNothing ==
  ASSUME NEW a \in Texts
  PROVE  a \o <<>> = a /\ <<>> \o a = a /\ <<>> \in Texts
BY ConcatEmptySeq, EmptySeq DEF Texts

(* A lexeme in front of a text.                                            *)
LEMMA InFront ==
  ASSUME NEW x \in Lexeme, NEW a \in Texts
  PROVE  /\ <<x>> \in Texts /\ <<x>> \o a \in Texts /\ <<x>> \o a # <<>>
         /\ (<<x>> \o a)[1] = x /\ Head(<<x>> \o a) = x /\ Tail(<<x>> \o a) = a
<1> DEFINE t == <<x>> \o a
<1>1. <<x>> \in Texts /\ Len(<<x>>) = 1 /\ <<x>>[1] = x
  <2>1. <<x>> \in Seq(Lexeme)
    OBVIOUS
  <2> QED
    BY <2>1 DEF Texts
<1>0. Joined(t, <<x>>, a)
  BY <1>1, JoinIs
<1>2. /\ t \in Texts /\ Len(t) = 1 + Len(a) /\ Len(a) \in Nat
      /\ \A i \in 1 .. (1 + Len(a)) : t[i] = IF i <= 1 THEN <<x>>[i] ELSE a[i - 1]
  BY <1>0, <1>1 DEF Joined
<1>3. t # <<>> /\ t[1] = x
  <2>1. 1 \in 1 .. (1 + Len(a))
    BY <1>2
  <2>2. t[1] = x
    BY <1>1, <1>2, <2>1
  <2>3. Len(t) # 0
    BY <1>2
  <2> QED
    BY <2>2, <2>3, EmptySeq
<1> HIDE DEF t
<1>4. Head(t) = x
  BY <1>2, <1>3, EmptySeq DEF Texts
<1>5. Tail(t) \in Texts /\ Len(Tail(t)) = Len(a) /\ \A i \in 1 .. Len(Tail(t)) : Tail(t)[i] = t[i + 1]
  BY <1>2, <1>3, HeadTailProperties DEF Texts
<1>6. \A i \in 1 .. Len(Tail(t)) : Tail(t)[i] = a[i]
  BY <1>2, <1>5
<1>7. Tail(t) = a
  BY <1>5, <1>6, SeqEqual DEF Texts
<1> QED
  BY <1>1, <1>2, <1>3, <1>4, <1>7 DEF t

(* A text that is not empty, by its first lexeme.                          *)
LEMMA ByItsFirst ==
  ASSUME NEW t \in Texts, t # <<>>
  PROVE  /\ t[1] \in Lexeme /\ Head(t) = t[1] /\ Tail(t) \in Texts /\ t = <<t[1]>> \o Tail(t)
         /\ Len(t) \in Nat \ {0}
         /\ \A i \in DOMAIN Tail(t) : i + 1 \in 2 .. Len(t) /\ Tail(t)[i] = t[i + 1]
<1>1. Len(t) \in Nat \ {0} /\ t[1] \in Lexeme /\ Head(t) = t[1]
  BY EmptySeq, ElementOfSeq DEF Texts
<1>2. Tail(t) \in Texts /\ Len(Tail(t)) = Len(t) - 1
      /\ \A i \in 1 .. Len(Tail(t)) : Tail(t)[i] = t[i + 1]
  BY HeadTailProperties DEF Texts
<1>3. DOMAIN Tail(t) = 1 .. Len(Tail(t))
  BY <1>2, LenProperties DEF Texts
<1>4. <<t[1]>> \in Texts /\ Len(<<t[1]>>) = 1 /\ <<t[1]>>[1] = t[1]
  BY <1>1 DEF Texts
<1> DEFINE u == <<t[1]>> \o Tail(t)
<1>5. u \in Texts /\ Len(u) = Len(t)
      /\ \A i \in 1 .. Len(t) : u[i] = IF i <= 1 THEN <<t[1]>>[i] ELSE Tail(t)[i - 1]
  <2>1. Joined(u, <<t[1]>>, Tail(t))
    BY <1>2, <1>4, JoinIs
  <2> QED
    BY <1>1, <1>2, <1>4, <2>1 DEF Joined
<1>6. \A i \in 1 .. Len(t) : t[i] = u[i]
  <2> TAKE i \in 1 .. Len(t)
  <2>1. CASE i = 1
    BY <1>4, <1>5, <2>1
  <2>2. CASE i # 1
    <3>1. i - 1 \in 1 .. Len(Tail(t)) /\ (i - 1) + 1 = i
      BY <1>1, <1>2, <2>2
    <3> QED
      BY <1>2, <1>5, <2>2, <3>1
  <2> QED
    BY <2>1, <2>2
<1> HIDE DEF u
<1>7. t = u
  BY <1>5, <1>6, SeqEqual DEF Texts
<1> QED
  BY <1>1, <1>2, <1>3, <1>7 DEF u

LEMMA OpensJoin ==
  ASSUME NEW a \in Texts, NEW b \in Texts, NEW D, Opens(a, D), Opens(b, D)
  PROVE  Opens(a \o b, D)
<1>0. Joined(a \o b, a, b)
  BY JoinIs
<1>1. CASE a = <<>>
  BY <1>1, JoinNothing
<1>2. CASE a # <<>>
  <2>1. 1 \in 1 .. Len(a) /\ 1 \in 1 .. (Len(a) + Len(b))
    BY <1>0, <1>2, EmptySeq DEF Texts, Joined
  <2> QED
    BY <1>0, <1>2, <2>1 DEF Opens, Joined
<1> QED
  BY <1>1, <1>2

LEMMA FreeJoin ==
  ASSUME NEW a \in Texts, NEW b \in Texts, NEW D
  PROVE  FreeOf(a \o b, D) <=> FreeOf(a, D) /\ FreeOf(b, D)
<1>0. Joined(a \o b, a, b)
  BY JoinIs
<1>1. ASSUME FreeOf(a \o b, D)
      PROVE  FreeOf(a, D) /\ FreeOf(b, D)
  <2>1. ASSUME NEW i \in DOMAIN a
        PROVE  a[i] \notin D
    <3>1. i \in 1 .. (Len(a) + Len(b)) /\ i <= Len(a)
      BY <1>0, <2>1 DEF Joined
    <3> QED
      BY <1>0, <1>1, <3>1 DEF FreeOf, Joined
  <2>2. ASSUME NEW i \in DOMAIN b
        PROVE  b[i] \notin D
    <3>1. /\ i + Len(a) \in 1 .. (Len(a) + Len(b)) /\ ~ (i + Len(a) <= Len(a))
          /\ (i + Len(a)) - Len(a) = i
      BY <1>0, <2>2 DEF Joined
    <3>2. (a \o b)[i + Len(a)] = b[i]
      BY <1>0, <3>1 DEF Joined
    <3> QED
      BY <1>0, <1>1, <3>1, <3>2 DEF FreeOf, Joined
  <2> QED
    BY <2>1, <2>2 DEF FreeOf
<1>2. ASSUME FreeOf(a, D), FreeOf(b, D), NEW i \in DOMAIN (a \o b)
      PROVE  (a \o b)[i] \notin D
  <2>1. i \in 1 .. (Len(a) + Len(b)) /\ Len(a) \in Nat /\ Len(b) \in Nat
    BY <1>0, <1>2 DEF Joined
  <2>2. CASE i <= Len(a)
    BY <1>0, <1>2, <2>1, <2>2 DEF FreeOf, Joined
  <2>3. CASE ~ (i <= Len(a))
    <3>1. i - Len(a) \in 1 .. Len(b)
      BY <2>1, <2>3
    <3> QED
      BY <1>0, <1>2, <2>1, <2>3, <3>1 DEF FreeOf, Joined
  <2> QED
    BY <2>2, <2>3
<1> QED
  BY <1>1, <1>2 DEF FreeOf

(* There is one way to cut a text where one of these lexemes is first.     *)
LEMMA OneCut ==
  ASSUME NEW D, NEW a \in Texts, NEW b \in Texts, NEW c \in Texts, NEW d \in Texts,
         a \o b = c \o d, FreeOf(a, D), FreeOf(c, D), Opens(b, D), Opens(d, D)
  PROVE  a = c /\ b = d
<1>1. ASSUME NEW s \in Texts, NEW t \in Texts, NEW u \in Texts, NEW v \in Texts,
             s \o t = u \o v, FreeOf(u, D), Opens(t, D)
      PROVE  ~ (Len(s) < Len(u))
  <2> SUFFICES ASSUME Len(s) < Len(u)
               PROVE  FALSE
    OBVIOUS
  <2>0. Joined(s \o t, s, t) /\ Joined(u \o v, u, v)
    BY <1>1, JoinIs
  <2>1. /\ Len(s) \in Nat /\ Len(t) \in Nat /\ Len(u) \in Nat /\ Len(v) \in Nat
        /\ Len(s) + Len(t) = Len(u) + Len(v)
    BY <1>1, <2>0 DEF Joined
  <2>2. t # <<>> /\ Len(s) + 1 \in 1 .. (Len(s) + Len(t)) /\ Len(s) + 1 \in 1 .. (Len(u) + Len(v))
        /\ Len(s) + 1 \in 1 .. Len(u)
    <3>1. Len(t) # 0
      BY <2>1
    <3> QED
      BY <2>1, <3>1, EmptySeq
  <2>3. (s \o t)[Len(s) + 1] = t[1]
    <3>1. ~ (Len(s) + 1 <= Len(s)) /\ (Len(s) + 1) - Len(s) = 1
      BY <2>1
    <3> QED
      BY <2>0, <2>2, <3>1 DEF Joined
  <2>4. (u \o v)[Len(s) + 1] = u[Len(s) + 1]
    <3>1. Len(s) + 1 <= Len(u)
      BY <2>2
    <3> QED
      BY <2>0, <2>2, <3>1 DEF Joined
  <2>5. u[Len(s) + 1] \notin D
    BY <1>1, <2>0, <2>2 DEF FreeOf, Joined
  <2> QED
    BY <1>1, <2>2, <2>3, <2>4, <2>5 DEF Opens
<1>0. Joined(a \o b, a, b) /\ Joined(c \o d, c, d)
  BY JoinIs
<1>2. ~ (Len(a) < Len(c)) /\ ~ (Len(c) < Len(a))
  BY <1>1
<1>3. Len(a) = Len(c) /\ Len(b) = Len(d) /\ Len(a) \in Nat /\ Len(b) \in Nat
  <2>1. Len(a) \in Nat /\ Len(b) \in Nat /\ Len(c) \in Nat /\ Len(d) \in Nat
        /\ Len(a) + Len(b) = Len(c) + Len(d)
    BY <1>0 DEF Joined
  <2> QED
    BY <1>2, <2>1
<1>4. \A i \in 1 .. Len(a) : a[i] = c[i]
  <2> TAKE i \in 1 .. Len(a)
  <2>1. i \in 1 .. (Len(a) + Len(b)) /\ i <= Len(a)
    BY <1>3
  <2>2. (a \o b)[i] = a[i] /\ (c \o d)[i] = c[i]
    BY <1>0, <1>3, <2>1 DEF Joined
  <2> QED
    BY <2>2
<1>5. \A i \in 1 .. Len(b) : b[i] = d[i]
  <2> TAKE i \in 1 .. Len(b)
  <2>1. /\ i + Len(a) \in 1 .. (Len(a) + Len(b)) /\ ~ (i + Len(a) <= Len(a))
        /\ (i + Len(a)) - Len(a) = i
    BY <1>3
  <2>2. (a \o b)[i + Len(a)] = b[i] /\ (c \o d)[i + Len(a)] = d[i]
    BY <1>0, <1>3, <2>1 DEF Joined
  <2> QED
    BY <2>2
<1> QED
  BY <1>3, <1>4, <1>5, SeqEqual DEF Texts

LEMMA CutIs ==
  ASSUME NEW text \in Texts, NEW D
  PROVE  LET parts == Cut(text, D) IN
         /\ parts.before \in Texts /\ parts.after \in Texts
         /\ text = parts.before \o parts.after
         /\ FreeOf(parts.before, D) /\ Opens(parts.after, D)
<1> DEFINE stops == {i \in DOMAIN text : text[i] \in D}
           n == IF stops = {} THEN Len(text)
                ELSE (CHOOSE i \in stops : \A j \in stops : i <= j) - 1
           before == SubSeq(text, 1, n)
           after == SubSeq(text, n + 1, Len(text))
<1>1. Cut(text, D) = [before |-> before, after |-> after]
  BY Zenon DEF Cut
<1>2. Len(text) \in Nat /\ DOMAIN text = 1 .. Len(text) /\ \A i \in 1 .. Len(text) : text[i] \in Lexeme
  BY LenProperties, ElementOfSeq DEF Texts
<1>3. /\ n \in 0 .. Len(text)
      /\ \A i \in 1 .. n : text[i] \notin D
      /\ n < Len(text) => text[n + 1] \in D
  <2>1. CASE stops = {}
    BY <1>2, <2>1
  <2>2. CASE stops # {}
    <3> DEFINE least == CHOOSE i \in stops : \A j \in stops : i <= j
    <3>1. stops \in SUBSET Nat
      BY <1>2
    <3>2. least \in stops /\ \A j \in stops : least <= j
      <4> HIDE DEF stops
      <4>1. \E i \in stops : \A j \in stops : i <= j
        BY <2>2, <3>1, Least
      <4> QED
        BY <4>1
    <3> HIDE DEF least
    <3>3. n = least - 1
      BY <2>2 DEF least
    <3> HIDE DEF n
    <3>4. least \in 1 .. Len(text) /\ text[least] \in D
      BY <1>2, <3>2
    <3>5. ASSUME NEW i \in 1 .. n
          PROVE  text[i] \notin D
      <4>1. i \in 1 .. Len(text) /\ ~ (least <= i)
        BY <1>2, <3>3, <3>4
      <4> QED
        BY <1>2, <3>2, <4>1
    <3> QED
      BY <1>2, <3>3, <3>4, <3>5
  <2> QED
    BY <2>1, <2>2
<1> HIDE DEF n, stops
<1>4. /\ before \in Texts /\ Len(before) = n
      /\ \A i \in 1 .. n : before[i] = text[i]
  BY <1>2, <1>3, SubSeqProperties DEF Texts
<1>5. /\ after \in Texts /\ Len(after) = Len(text) - n
      /\ \A i \in 1 .. (Len(text) - n) : after[i] = text[n + i]
  <2>1. n + 1 \in Int /\ Len(text) \in Int /\ \A i \in (n + 1) .. Len(text) : text[i] \in Lexeme
    BY <1>2, <1>3
  <2>2. /\ after \in Seq(Lexeme)
        /\ Len(after) = IF n + 1 <= Len(text) THEN Len(text) - (n + 1) + 1 ELSE 0
        /\ \A i \in 1 .. (Len(text) - (n + 1) + 1) : after[i] = text[(n + 1) + i - 1]
    BY <2>1, SubSeqProperties
  <2> HIDE DEF after
  <2>3. Len(text) - (n + 1) + 1 = Len(text) - n /\ \A i \in Nat : (n + 1) + i - 1 = n + i
    BY <1>2, <1>3
  <2>4. \A i \in 1 .. (Len(text) - n) : after[i] = text[n + i]
    BY <2>2, <2>3
  <2>5. Len(after) = Len(text) - n
    <3>1. n \in 0 .. Len(text) /\ Len(text) \in Nat
      BY <1>2, <1>3, Zenon
    <3>2. Len(after) = IF n + 1 <= Len(text) THEN Len(text) - (n + 1) + 1 ELSE 0
      BY <2>2
    <3> QED
      BY <3>1, <3>2
  <2> QED
    BY <2>2, <2>4, <2>5 DEF Texts
<1> HIDE DEF before, after
<1>0. Joined(before \o after, before, after)
  BY <1>4, <1>5, JoinIs
<1>6. text = before \o after
  <2>1. before \o after \in Texts /\ Len(before \o after) = Len(text)
    BY <1>0, <1>2, <1>3, <1>4, <1>5 DEF Joined
  <2>2. \A i \in 1 .. Len(text) : text[i] = (before \o after)[i]
    <3> TAKE i \in 1 .. Len(text)
    <3>1. i \in 1 .. (Len(before) + Len(after))
      BY <1>2, <1>3, <1>4, <1>5
    <3>2. CASE i <= n
      BY <1>0, <1>2, <1>3, <1>4, <1>5, <3>1, <3>2 DEF Joined
    <3>3. CASE ~ (i <= n)
      <4>1. i - n \in 1 .. (Len(text) - n) /\ n + (i - n) = i
        BY <1>2, <1>3, <3>3
      <4>2. (before \o after)[i] = after[i - n]
        BY <1>0, <1>4, <1>5, <3>1, <3>3 DEF Joined
      <4> QED
        BY <1>5, <4>1, <4>2
    <3> QED
      BY <3>2, <3>3
  <2> QED
    BY <2>1, <2>2, SeqEqual DEF Texts
<1>7. FreeOf(before, D)
  BY <1>3, <1>4, LenProperties DEF FreeOf, Texts
<1>8. Opens(after, D)
  <2>1. CASE n < Len(text)
    <3>1. 1 \in 1 .. (Len(text) - n)
      BY <1>2, <1>3, <2>1
    <3> QED
      BY <1>3, <1>5, <2>1, <3>1 DEF Opens
  <2>2. CASE ~ (n < Len(text))
    <3>0. n \in 0 .. Len(text) /\ Len(text) \in Nat
      BY <1>2, <1>3, Zenon
    <3>1. n = Len(text)
      BY <2>2, <3>0
    <3>2. Len(after) = 0
      BY <1>2, <1>5, <3>1
    <3> QED
      BY <1>5, <3>2, EmptySeq DEF Opens, Texts
  <2> QED
    BY <2>1, <2>2
<1> QED
  BY <1>1, <1>4, <1>5, <1>6, <1>7, <1>8

(* So a text put together of such parts is cut into them.                  *)
LEMMA CutJoin ==
  ASSUME NEW D, NEW a \in Texts, NEW b \in Texts, FreeOf(a, D), Opens(b, D)
  PROVE  Cut(a \o b, D).before = a /\ Cut(a \o b, D).after = b
<1> DEFINE parts == Cut(a \o b, D)
<1>1. a \o b \in Texts
  BY JoinIs DEF Joined
<1>2. /\ parts.before \in Texts /\ parts.after \in Texts
      /\ a \o b = parts.before \o parts.after
      /\ FreeOf(parts.before, D) /\ Opens(parts.after, D)
  BY <1>1, CutIs
<1> HIDE DEF parts
<1>3. parts.before = a /\ parts.after = b
  BY <1>2, OneCut
<1> QED
  BY <1>3 DEF parts

-----------------------------------------------------------------------------
(* Small letters.                                                          *)
LEMMA LowerIs ==
  ASSUME NEW a \in Texts
  PROVE  /\ Lower(a) \in Texts /\ Len(Lower(a)) = Len(a) /\ DOMAIN Lower(a) = 1 .. Len(a)
         /\ Lower(Lower(a)) = Lower(a)
         /\ \A D \in SUBSET Marks : FreeOf(a, D) => FreeOf(Lower(a), D)
         /\ \A D \in SUBSET Marks : Opens(a, D) => Opens(Lower(a), D)
         /\ a = <<>> <=> Lower(a) = <<>>
<1>0. /\ Len(a) \in Nat /\ DOMAIN a = 1 .. Len(a) /\ \A i \in 1 .. Len(a) : a[i] \in Lexeme
      /\ \A c \in DOMAIN Capital : /\ Capital[c] \in Lexeme /\ Capital[c] \notin Marks
                                   /\ Capital[c] \notin DOMAIN Capital /\ c \notin Marks
  <2>1. \A c \in DOMAIN Capital : Capital[c] \in Lexeme
    BY MutesAssumption, Zenon
  <2>2. \A c \in DOMAIN Capital :
          Capital[c] \notin Marks /\ Capital[c] \notin DOMAIN Capital /\ c \notin Marks
    BY MutesAssumption, Zenon
  <2>3. Len(a) \in Nat /\ DOMAIN a = 1 .. Len(a) /\ \A i \in 1 .. Len(a) : a[i] \in Lexeme
    BY LenProperties, ElementOfSeq DEF Texts
  <2> QED
    BY <2>1, <2>2, <2>3
<1>1. /\ DOMAIN Lower(a) = 1 .. Len(a)
      /\ \A i \in 1 .. Len(a) :
           Lower(a)[i] = IF a[i] \in DOMAIN Capital THEN Capital[a[i]] ELSE a[i]
  BY <1>0 DEF Lower
<1>2. \A i \in 1 .. Len(a) : Lower(a)[i] \in Lexeme /\ Lower(a)[i] \notin DOMAIN Capital
  BY <1>0, <1>1
<1>3. Lower(a) \in Texts /\ Len(Lower(a)) = Len(a)
  <2>1. Lower(a) \in [1 .. Len(a) -> Lexeme]
    BY <1>0, <1>2 DEF Lower
  <2>2. Lower(a) \in Texts
    BY <1>0, <2>1, SeqDef DEF Texts
  <2> QED
    BY <1>0, <1>1, <2>2, LenProperties DEF Texts
<1>4. Lower(Lower(a)) = Lower(a)
  <2> DEFINE b == Lower(a)
  <2>1. b = [i \in DOMAIN b |-> b[i]]
    BY DEF Lower
  <2>2. \A i \in DOMAIN b : b[i] \notin DOMAIN Capital
    BY <1>1, <1>2
  <2> HIDE DEF b
  <2>3. Lower(b) = b
    BY <2>1, <2>2 DEF Lower
  <2> QED
    BY <2>3 DEF b
<1>5. \A D \in SUBSET Marks : \A i \in 1 .. Len(a) : Lower(a)[i] \in D <=> a[i] \in D
  BY <1>0, <1>1
<1>6. a = <<>> <=> Lower(a) = <<>>
  BY <1>0, <1>3, EmptySeq DEF Texts
<1>7. \A D \in SUBSET Marks : FreeOf(a, D) => FreeOf(Lower(a), D)
  BY <1>0, <1>1, <1>5 DEF FreeOf
<1>8. \A D \in SUBSET Marks : Opens(a, D) => Opens(Lower(a), D)
  <2> SUFFICES ASSUME NEW D \in SUBSET Marks, Opens(a, D), Lower(a) # <<>>
               PROVE  Lower(a)[1] \in D
    BY DEF Opens
  <2>1. 1 \in 1 .. Len(a) /\ a # <<>>
    BY <1>0, <1>6, EmptySeq DEF Texts
  <2> QED
    BY <1>5, <2>1 DEF Opens
<1> QED
  BY <1>1, <1>3, <1>4, <1>6, <1>7, <1>8

LowersApart(a, b) == Lower(a \o b) = Lower(a) \o Lower(b)

LEMMA LowerJoin ==
  ASSUME NEW a \in Texts, NEW b \in Texts
  PROVE  LowersApart(a, b)
<1>0. Joined(a \o b, a, b)
  BY JoinIs
<1>1. /\ Lower(a \o b) \in Texts /\ Len(Lower(a \o b)) = Len(a) + Len(b)
      /\ Lower(a) \in Texts /\ Lower(b) \in Texts
      /\ Len(Lower(a)) = Len(a) /\ Len(Lower(b)) = Len(b) /\ Len(a) \in Nat /\ Len(b) \in Nat
  BY <1>0, LowerIs DEF Joined
<1>4. Joined(Lower(a) \o Lower(b), Lower(a), Lower(b))
  BY <1>1, JoinIs
<1>2. Lower(a) \o Lower(b) \in Texts /\ Len(Lower(a) \o Lower(b)) = Len(a) + Len(b)
  BY <1>1, <1>4 DEF Joined
<1>3. \A i \in 1 .. (Len(a) + Len(b)) : Lower(a \o b)[i] = (Lower(a) \o Lower(b))[i]
  <2> TAKE i \in 1 .. (Len(a) + Len(b))
  <2> DEFINE small(x) == IF x \in DOMAIN Capital THEN Capital[x] ELSE x
  <2>1. Lower(a \o b)[i] = small((a \o b)[i])
    BY <1>0 DEF Lower, Joined
  <2>2. CASE i <= Len(a)
    <3>1. i \in DOMAIN a
      BY <1>0, <2>2 DEF Joined
    <3>2. Lower(a)[i] = small(a[i])
      BY <3>1 DEF Lower
    <3>3. (a \o b)[i] = a[i]
      BY <1>0, <2>2 DEF Joined
    <3>4. (Lower(a) \o Lower(b))[i] = Lower(a)[i]
      BY <1>1, <1>4, <2>2 DEF Joined
    <3> HIDE DEF small
    <3> QED
      BY <2>1, <3>2, <3>3, <3>4
  <2>3. CASE ~ (i <= Len(a))
    <3>1. i - Len(a) \in DOMAIN b
      BY <1>0, <2>3 DEF Joined
    <3>2. Lower(b)[i - Len(a)] = small(b[i - Len(a)])
      BY <3>1 DEF Lower
    <3>3. (a \o b)[i] = b[i - Len(a)]
      BY <1>0, <2>3 DEF Joined
    <3>4. (Lower(a) \o Lower(b))[i] = Lower(b)[i - Len(a)]
      BY <1>1, <1>4, <2>3 DEF Joined
    <3> HIDE DEF small
    <3> QED
      BY <2>1, <3>2, <3>3, <3>4
  <2> QED
    BY <2>2, <2>3
<1> QED
  BY <1>1, <1>2, <1>3, SeqEqual DEF Texts, LowersApart

-----------------------------------------------------------------------------
(***************************************************************************)
(* Links in parts.                                                         *)
(***************************************************************************)

(* What comes after a scheme: a host, a port, a path and a query.          *)
Parts(h, p, pa, q) ==
  /\ h \in Texts /\ p \in Texts /\ pa \in Texts /\ q \in Texts
  /\ FreeOf(h, {"/", "?", ":"})
  /\ FreeOf(p, {"/", "?"}) /\ Opens(p, {":"})
  /\ FreeOf(pa, {"?"}) /\ Opens(pa, {"/"})
  /\ Opens(q, {"?"})

Link(text, s, h, p, pa, q) ==
  /\ s \in Lexeme /\ Parts(h, p, pa, q)
  /\ text = <<s>> \o (h \o (p \o (pa \o q)))

Portless(s, p) == s \in DOMAIN DefaultPort /\ p = <<":", DefaultPort[s]>>

Taken(url, s, h, p, pa, q) ==
  /\ url.scheme = s /\ url.host = Lower(h) /\ url.path = pa /\ url.query = q
  /\ url.port = IF Portless(s, p) THEN <<>> ELSE p

LEMMA FreeOfFewer ==
  ASSUME NEW text, NEW C, NEW D \in SUBSET C, FreeOf(text, C)
  PROVE  FreeOf(text, D)
BY DEF FreeOf

LEMMA OpensMore ==
  ASSUME NEW text, NEW C, NEW D \in SUBSET C, Opens(text, D)
  PROVE  Opens(text, C)
BY DEF Opens

(* A link is taken apart into its parts.                                   *)
LEMMA ParsedIs ==
  ASSUME NEW text, NEW s, NEW h, NEW p, NEW pa, NEW q, Link(text, s, h, p, pa, q)
  PROVE  Taken(Parsed(text), s, h, p, pa, q)
<1> DEFINE rest == pa \o q
           D == {"/", "?"}
<1>1. /\ s \in Lexeme /\ h \in Texts /\ p \in Texts /\ pa \in Texts /\ q \in Texts
      /\ FreeOf(h, {"/", "?", ":"}) /\ FreeOf(p, D) /\ Opens(p, {":"})
      /\ FreeOf(pa, {"?"}) /\ Opens(pa, {"/"}) /\ Opens(q, {"?"})
      /\ text = <<s>> \o (h \o (p \o rest))
  BY DEF Link, Parts
<1>2. rest \in Texts /\ h \o p \in Texts /\ h \o (p \o rest) \in Texts
  BY <1>1, JoinIs DEF Joined
<1>3. Head(text) = s /\ Tail(text) = h \o (p \o rest)
  BY <1>1, <1>2, InFront
<1>4. Tail(text) = (h \o p) \o rest
  <2> HIDE DEF rest
  <2>1. Regroups(h, p, rest)
    BY <1>1, <1>2, Regroup, Zenon
  <2> QED
    BY <1>3, <2>1 DEF Regroups
<1>5. FreeOf(h, D) /\ FreeOf(h, {":"})
  BY <1>1 DEF FreeOf
<1>6. FreeOf(h \o p, D)
  BY <1>1, <1>5, FreeJoin
<1>7. Opens(rest, D)
  <2>1. Opens(pa, D) /\ Opens(q, D)
    BY <1>1 DEF Opens
  <2> QED
    BY <1>1, <2>1, OpensJoin
<1>8. Cut(Tail(text), D).before = h \o p /\ Cut(Tail(text), D).after = rest
  <2> HIDE DEF rest, D
  <2> QED
    BY <1>2, <1>4, <1>6, <1>7, CutJoin
<1>9. Cut(rest, {"?"}).before = pa /\ Cut(rest, {"?"}).after = q
  BY <1>1, CutJoin
<1>10. Cut(h \o p, {":"}).before = h /\ Cut(h \o p, {":"}).after = p
  BY <1>1, <1>5, CutJoin
<1> DEFINE port == IF Portless(s, p) THEN <<>> ELSE p
<1>11. Parsed(text) = [scheme |-> s, host |-> Lower(h), path |-> pa, query |-> q, port |-> port]
  <2> DEFINE authority == Cut(Tail(text), D)
             path == Cut(authority.after, {"?"})
             host == Cut(authority.before, {":"})
  <2>1. Parsed(text) =
          [scheme |-> Head(text), host |-> Lower(host.before), path |-> path.before,
           query |-> path.after,
           port |-> IF Head(text) \in DOMAIN DefaultPort
                       /\ host.after = <<":", DefaultPort[Head(text)]>>
                    THEN <<>> ELSE host.after]
    BY Zenon DEF Parsed
  <2>2. /\ host.before = h /\ host.after = p /\ path.before = pa /\ path.after = q
        /\ Head(text) = s
    BY <1>3, <1>8, <1>9, <1>10
  <2> HIDE DEF host, path
  <2> QED
    BY <2>1, <2>2 DEF Portless
<1> HIDE DEF port
<1> QED
  BY <1>11 DEF Taken, port

(* Every text that is not empty is a link, of some parts.                  *)
LEMMA EveryTextIsALink ==
  ASSUME NEW text \in Texts, text # <<>>
  PROVE  \E h, p, pa, q : Link(text, text[1], h, p, pa, q)
<1> DEFINE authority == Cut(Tail(text), {"/", "?"})
           path == Cut(authority.after, {"?"})
           host == Cut(authority.before, {":"})
           h == host.before
           p == host.after
           pa == path.before
           q == path.after
<1>1. text[1] \in Lexeme /\ Tail(text) \in Texts /\ text = <<text[1]>> \o Tail(text)
  BY ByItsFirst
<1>2. /\ authority.before \in Texts /\ authority.after \in Texts
      /\ Tail(text) = authority.before \o authority.after
      /\ FreeOf(authority.before, {"/", "?"}) /\ Opens(authority.after, {"/", "?"})
  BY <1>1, CutIs
<1> HIDE DEF authority
<1>3. /\ pa \in Texts /\ q \in Texts /\ authority.after = pa \o q
      /\ FreeOf(pa, {"?"}) /\ Opens(q, {"?"})
  BY <1>2, CutIs
<1>4. /\ h \in Texts /\ p \in Texts /\ authority.before = h \o p
      /\ FreeOf(h, {":"}) /\ Opens(p, {":"})
  BY <1>2, CutIs
<1> HIDE DEF h, p, pa, q
<1>5. FreeOf(h, {"/", "?"}) /\ FreeOf(p, {"/", "?"})
  BY <1>2, <1>4, FreeJoin
<1>6. FreeOf(h, {"/", "?", ":"})
  BY <1>4, <1>5 DEF FreeOf
<1>7. Opens(pa, {"/"})
  <2> SUFFICES ASSUME pa # <<>>
               PROVE  pa[1] \in {"/"}
    BY DEF Opens
  <2>1. 1 \in DOMAIN pa /\ 1 \in 1 .. (Len(pa) + Len(q)) /\ 1 <= Len(pa)
    <3>1. Joined(pa \o q, pa, q)
      BY <1>3, JoinIs
    <3>2. Len(pa) \in Nat \ {0}
      BY <1>3, EmptySeq DEF Texts
    <3>3. DOMAIN pa = 1 .. Len(pa) /\ Len(q) \in Nat
      BY <3>1, Zenon DEF Joined
    <3> QED
      BY <3>2, <3>3
  <2>2. authority.after[1] = pa[1] /\ authority.after # <<>>
    <3>1. Joined(pa \o q, pa, q)
      BY <1>3, JoinIs
    <3>2. (pa \o q)[1] = pa[1]
      BY <2>1, <3>1 DEF Joined
    <3>3. 1 \in DOMAIN (pa \o q)
      BY <2>1, <3>1 DEF Joined
    <3> QED
      BY <1>3, <3>2, <3>3
  <2>3. pa[1] \in {"/", "?"}
    BY <1>2, <2>2 DEF Opens
  <2> QED
    BY <1>3, <2>1, <2>3 DEF FreeOf
<1>8. Parts(h, p, pa, q)
  BY <1>3, <1>4, <1>5, <1>6, <1>7 DEF Parts
<1>9. text = <<text[1]>> \o (h \o (p \o (pa \o q)))
  <2>1. pa \o q \in Texts
    BY <1>2, <1>3
  <2>2. (h \o p) \o (pa \o q) = h \o (p \o (pa \o q))
    <3>1. Regroups(h, p, pa \o q)
      BY <1>4, <2>1, Regroup, Zenon
    <3> QED
      BY <3>1 DEF Regroups
  <2> QED
    BY <1>1, <1>2, <1>3, <1>4, <2>2
<1>10. Link(text, text[1], h, p, pa, q)
  BY <1>1, <1>8, <1>9 DEF Link
<1> QED
  BY <1>10

(* A link as it is stored.                                                 *)
Canonical(c, s, h, p, pa, q) ==
  /\ Link(c, s, h, p, pa, q) /\ ~ Portless(s, p)
  /\ Lower(h) = h /\ h # <<>> /\ FreeOf(h, Starts)
  /\ pa # <<>>

LEMMA SlashIs == "/" \in Lexeme /\ <<"/">> \in Texts /\ Lower(<<"/">>) = <<"/">>
<1>1. "/" \in Lexeme
  BY MutesAssumption DEF Marks
<1>2. <<"/">> \in Texts
  <2>1. \A x \in Lexeme : <<x>> \in Texts
    BY EmptySeq, InFront DEF Texts
  <2> QED
    BY <1>1, <2>1, Zenon
<1>3. "/" \notin DOMAIN Capital
  <2>1. "/" \in Marks
    BY DEF Marks
  <2> QED
    BY <2>1, MutesAssumption, Zenon
<1>4. DOMAIN <<"/">> = {1} /\ <<"/">>[1] = "/"
  OBVIOUS
<1>5. Lower(<<"/">>) = [i \in {1} |-> "/"]
  BY <1>3, <1>4 DEF Lower
<1>6. <<"/">> = [i \in {1} |-> "/"]
  <2>1. 1 .. 1 = {1}
    OBVIOUS
  <2> QED
    BY <2>1
<1> QED
  BY <1>1, <1>2, <1>5, <1>6

InOneRow(a, h, p, pa, q) ==
  (((a \o h) \o p) \o pa) \o q = a \o (h \o (p \o (pa \o q)))

LEMMA FiveParts ==
  ASSUME NEW a \in Texts, NEW h \in Texts, NEW p \in Texts, NEW pa \in Texts, NEW q \in Texts
  PROVE  InOneRow(a, h, p, pa, q)
<1>1. a \o h \in Texts /\ pa \o q \in Texts
  BY Join, Zenon DEF Joins
<1>2. (a \o h) \o p \in Texts /\ p \o (pa \o q) \in Texts
  BY <1>1, Join, Zenon DEF Joins
<1>3. /\ Regroups((a \o h) \o p, pa, q) /\ Regroups(a \o h, p, pa \o q)
      /\ Regroups(a, h, p \o (pa \o q))
  BY <1>1, <1>2, Regroup, Zenon
<1> QED
  BY <1>3, Zenon DEF Regroups, InOneRow

(* normalise_url: a refusal, or the link in its stored form.               *)
LEMMA NormalisedIs ==
  ASSUME NEW text, NEW s, NEW h, NEW p, NEW pa, NEW q, Link(text, s, h, p, pa, q),
         FreeOf(h, Starts), Normalised(text) # Invalid
  PROVE  Canonical(Normalised(text), s, Lower(h), IF Portless(s, p) THEN <<>> ELSE p,
                   IF pa = <<>> THEN <<"/">> ELSE pa, q)
<1> DEFINE url == Parsed(text)
           g == Lower(h)
           port == IF Portless(s, p) THEN <<>> ELSE p
           path == IF pa = <<>> THEN <<"/">> ELSE pa
           c == Normalised(text)
<1>1. /\ url.scheme = s /\ url.host = g /\ url.path = pa /\ url.query = q /\ url.port = port
      /\ s \in Lexeme /\ Parts(h, p, pa, q)
  BY ParsedIs DEF Taken, Link
<1>2. /\ \E i \in DOMAIN url.host : url.host[i] \in {".", "www."}
      /\ c = <<url.scheme>> \o url.host \o url.port
             \o (IF url.path = <<>> THEN <<"/">> ELSE url.path) \o url.query
  BY Zenon DEF Normalised
<1>3. /\ h \in Texts /\ p \in Texts /\ pa \in Texts /\ q \in Texts
      /\ FreeOf(h, {"/", "?", ":"}) /\ FreeOf(p, {"/", "?"}) /\ Opens(p, {":"})
      /\ FreeOf(pa, {"?"}) /\ Opens(pa, {"/"}) /\ Opens(q, {"?"})
  BY <1>1 DEF Parts
<1> HIDE DEF url
<1>4. g \in Texts /\ Lower(g) = g /\ FreeOf(g, {"/", "?", ":"}) /\ FreeOf(g, Starts)
  <2>1. {"/", "?", ":"} \in SUBSET Marks /\ Starts \in SUBSET Marks
    BY DEF Marks
  <2> QED
    BY <1>3, <2>1, LowerIs
<1>5. g # <<>>
  BY <1>1, <1>2
<1>6. port \in Texts /\ FreeOf(port, {"/", "?"}) /\ Opens(port, {":"}) /\ ~ Portless(s, port)
  <2>1. <<>> \in Texts /\ FreeOf(<<>>, {"/", "?"}) /\ Opens(<<>>, {":"})
    <3>1. <<>> \in Texts
      BY <1>3, JoinNothing
    <3>2. DOMAIN <<>> = {}
      BY EmptySeq
    <3> QED
      BY <3>1, <3>2 DEF FreeOf, Opens
  <2>2. ~ Portless(s, <<>>)
    BY DEF Portless
  <2> QED
    BY <1>3, <2>1, <2>2
<1>7. path \in Texts /\ FreeOf(path, {"?"}) /\ Opens(path, {"/"}) /\ path # <<>>
  <2>1. <<"/">> \in Texts /\ FreeOf(<<"/">>, {"?"}) /\ Opens(<<"/">>, {"/"}) /\ <<"/">> # <<>>
    BY SlashIs DEF FreeOf, Opens
  <2> QED
    BY <1>3, <2>1
<1>8. <<s>> \in Texts
  BY <1>1, <1>3, InFront
<1>9. c = <<s>> \o g \o port \o path \o q
  BY <1>1, <1>2
<1> HIDE DEF g, port, path, c
<1>10. c = <<s>> \o (g \o (port \o (path \o q)))
  <2>1. InOneRow(<<s>>, g, port, path, q)
    BY <1>3, <1>4, <1>6, <1>7, <1>8, FiveParts
  <2> QED
    BY <1>9, <2>1, Zenon DEF InOneRow
<1>11. Link(c, s, g, port, path, q)
  BY <1>1, <1>3, <1>4, <1>6, <1>7, <1>10 DEF Link, Parts
<1>12. Canonical(c, s, g, port, path, q)
  BY <1>4, <1>5, <1>6, <1>7, <1>11 DEF Canonical
<1> QED
  BY <1>12 DEF g, port, path, c

LEMMA CanonicalTaken ==
  ASSUME NEW c, NEW s, NEW h, NEW p, NEW pa, NEW q, Canonical(c, s, h, p, pa, q)
  PROVE  /\ Parsed(c).scheme = s /\ Parsed(c).host = h /\ Parsed(c).port = p
         /\ Parsed(c).path = pa /\ Parsed(c).query = q
<1>1. Taken(Parsed(c), s, h, p, pa, q)
  BY ParsedIs DEF Canonical
<1> QED
  BY <1>1 DEF Taken, Canonical

-----------------------------------------------------------------------------
(* Taking off one "www.".                                                  *)
LEMMA LinkHostIs ==
  ASSUME NEW h \in Texts
  PROVE  /\ LinkHost(h) \in Texts
         /\ \A D : FreeOf(h, D) => FreeOf(LinkHost(h), D)
         /\ Lower(h) = h => Lower(LinkHost(h)) = LinkHost(h)
         /\ \A b \in Texts : h # <<>> => LinkHost(h \o b) = LinkHost(h) \o b
<1>1. CASE ~ StartsWithWww(h)
  <2>1. LinkHost(h) = h
    BY <1>1 DEF LinkHost
  <2>2. ASSUME NEW b \in Texts, h # <<>>
        PROVE  LinkHost(h \o b) = LinkHost(h) \o b
    <3>1. /\ h[1] \in Lexeme /\ Tail(h) \in Texts /\ h = <<h[1]>> \o Tail(h)
          /\ Head(h) = h[1]
      BY <2>2, ByItsFirst
    <3>2. <<h[1]>> \in Texts /\ Tail(h) \o b \in Texts
      BY <3>1, InFront, JoinIs DEF Joined
    <3>3. h \o b = <<h[1]>> \o (Tail(h) \o b)
      <4>1. Regroups(<<h[1]>>, Tail(h), b)
        BY <3>1, <3>2, Regroup, Zenon
      <4> QED
        BY <3>1, <4>1, Zenon DEF Regroups
    <3>4. Head(h \o b) = h[1]
      BY <3>1, <3>2, <3>3, InFront
    <3>5. ~ StartsWithWww(h \o b)
      BY <1>1, <2>2, <3>1, <3>4 DEF StartsWithWww
    <3> QED
      BY <2>1, <3>5 DEF LinkHost
  <2> QED
    BY <2>1, <2>2
<1>2. CASE StartsWithWww(h)
  <2>1. LinkHost(h) = Tail(h) /\ h # <<>> /\ Head(h) = "www."
    BY <1>2 DEF LinkHost, StartsWithWww
  <2>2. /\ h[1] \in Lexeme /\ Tail(h) \in Texts /\ h = <<h[1]>> \o Tail(h) /\ Head(h) = h[1]
        /\ <<h[1]>> \in Texts
    BY <2>1, ByItsFirst, InFront
  <2>3. \A D : FreeOf(h, D) => FreeOf(Tail(h), D)
    <3> TAKE D
    <3>1. FreeOf(<<h[1]>> \o Tail(h), D) => FreeOf(Tail(h), D)
      BY <2>2, FreeJoin
    <3> QED
      BY <2>2, <3>1
  <2>4. ASSUME Lower(h) = h
        PROVE  Lower(Tail(h)) = Tail(h)
    <3> DEFINE y == IF h[1] \in DOMAIN Capital THEN Capital[h[1]] ELSE h[1]
               one == <<h[1]>>
    <3>1. Lower(h) = Lower(one) \o Lower(Tail(h))
      <4>1. LowersApart(one, Tail(h))
        BY <2>2, LowerJoin
      <4> QED
        BY <2>2, <4>1 DEF LowersApart
    <3>2. Lower(one) \in Texts /\ Len(Lower(one)) = Len(one) /\ Lower(Tail(h)) \in Texts
          /\ Len(Lower(Tail(h))) = Len(Tail(h))
      BY <2>2, LowerIs
    <3>3. h = one \o Tail(h)
      BY <2>2
    <3>4. Len(one) = 1
      OBVIOUS
    <3> HIDE DEF one
    <3>5. Joined(one \o Tail(h), one, Tail(h)) /\ Joined(Lower(one) \o Lower(Tail(h)), Lower(one), Lower(Tail(h)))
      BY <2>2, <3>2, JoinIs DEF one
    <3>6. \A i \in 1 .. Len(Tail(h)) : Lower(Tail(h))[i] = Tail(h)[i]
      <4> TAKE i \in 1 .. Len(Tail(h))
      <4>1. i + 1 \in 1 .. (1 + Len(Tail(h))) /\ ~ (i + 1 <= 1) /\ (i + 1) - 1 = i
        BY <3>5 DEF Joined
      <4>2. (one \o Tail(h))[i + 1] = Tail(h)[i]
        BY <3>4, <3>5, <4>1 DEF Joined
      <4>3. (Lower(one) \o Lower(Tail(h)))[i + 1] = Lower(Tail(h))[i]
        BY <3>2, <3>4, <3>5, <4>1 DEF Joined
      <4> QED
        BY <2>4, <3>1, <3>3, <4>2, <4>3
    <3> QED
      BY <2>2, <3>2, <3>6, SeqEqual DEF Texts
  <2>5. ASSUME NEW b \in Texts
        PROVE  LinkHost(h \o b) = Tail(h) \o b
    <3>1. Tail(h) \o b \in Texts
      BY <2>2, JoinIs DEF Joined
    <3>2. h \o b = <<h[1]>> \o (Tail(h) \o b)
      <4>1. Regroups(<<h[1]>>, Tail(h), b)
        BY <2>2, Regroup, Zenon
      <4> QED
        BY <2>2, <4>1, Zenon DEF Regroups
    <3>3. Head(h \o b) = h[1] /\ Tail(h \o b) = Tail(h) \o b /\ h \o b # <<>>
      BY <2>2, <3>1, <3>2, InFront
    <3> QED
      BY <2>1, <2>2, <3>3 DEF LinkHost, StartsWithWww
  <2> QED
    BY <2>1, <2>2, <2>3, <2>4, <2>5
<1> QED
  BY <1>1, <1>2

(* What a stored link is compared by.                                      *)
LEMMA KeyIs ==
  ASSUME NEW c, NEW s, NEW h, NEW p, NEW pa, NEW q, Canonical(c, s, h, p, pa, q)
  PROVE  LinkHost(Tail(Lower(c))) = LinkHost(h) \o (Lower(p) \o (Lower(pa) \o Lower(q)))
<1> DEFINE rest == p \o (pa \o q)
           low == Lower(p) \o (Lower(pa) \o Lower(q))
<1>1. /\ s \in Lexeme /\ h \in Texts /\ p \in Texts /\ pa \in Texts /\ q \in Texts
      /\ c = <<s>> \o (h \o rest) /\ Lower(h) = h /\ h # <<>>
  BY DEF Canonical, Link, Parts
<1>2. pa \o q \in Texts /\ <<s>> \in Texts
  BY <1>1, JoinIs, InFront DEF Joined
<1>3. rest \in Texts
  BY <1>1, <1>2, JoinIs DEF Joined
<1>4. h \o rest \in Texts
  BY <1>1, <1>3, JoinIs DEF Joined
<1>5. Lower(rest) = low /\ Lower(rest) \in Texts
  <2>1. LowersApart(p, pa \o q) /\ LowersApart(pa, q)
    BY <1>1, <1>2, LowerJoin, Zenon
  <2>2. Lower(rest) \in Texts
    BY <1>3, LowerIs
  <2> QED
    BY <2>1, <2>2, Zenon DEF LowersApart
<1>6. Lower(c) = Lower(<<s>>) \o Lower(h \o rest)
  <2>1. LowersApart(<<s>>, h \o rest)
    BY <1>2, <1>4, LowerJoin
  <2> QED
    BY <1>1, <2>1, Zenon DEF LowersApart
<1>7. Lower(h \o rest) = h \o low
  <2> HIDE DEF rest, low
  <2>1. LowersApart(h, rest)
    BY <1>1, <1>3, LowerJoin, Zenon
  <2> QED
    BY <1>1, <1>5, <2>1, Zenon DEF LowersApart
<1>8. Tail(Lower(<<s>>) \o Lower(h \o rest)) = Lower(h \o rest)
  <2> DEFINE y == Lower(<<s>>)
  <2>1. y \in Texts /\ y # <<>> /\ Len(y) = 1
    <3>1. Len(<<s>>) = 1 /\ <<s>> # <<>>
      OBVIOUS
    <3> QED
      BY <1>2, <3>1, LowerIs
  <2> HIDE DEF y
  <2>2. y[1] \in Lexeme /\ Tail(y) \in Texts /\ y = <<y[1]>> \o Tail(y)
    BY <2>1, ByItsFirst
  <2>3. Tail(y) = <<>>
    <3>1. Len(Tail(y)) = 0
      BY <2>1, HeadTailProperties DEF Texts
    <3> QED
      BY <2>2, <3>1, EmptySeq DEF Texts
  <2>4. y = <<y[1]>>
    <3>1. <<y[1]>> \in Texts
      BY <2>2, InFront
    <3> QED
      BY <2>2, <2>3, <3>1, JoinNothing
  <2>5. Lower(h \o rest) \in Texts
    BY <1>4, LowerIs
  <2> DEFINE z == Lower(h \o rest)
  <2> HIDE DEF z
  <2>6. Tail(<<y[1]>> \o z) = z
    BY <2>2, <2>5, InFront DEF z
  <2> QED
    BY <2>4, <2>6 DEF y, z
<1>9. low \in Texts
  BY <1>5
<1> HIDE DEF low, rest
<1>10. LinkHost(h \o low) = LinkHost(h) \o low
  BY <1>1, <1>9, LinkHostIs
<1> QED
  BY <1>6, <1>7, <1>8, <1>10 DEF low

-----------------------------------------------------------------------------
(***************************************************************************)
(* Terms.                                                                  *)
(***************************************************************************)

(* A text readers may paste: a scheme stands first or not at all.          *)
Fresh(raw) ==
  /\ raw \in Texts /\ raw # <<>>
  /\ \A i \in 2 .. Len(raw) : raw[i] \notin Starts

LEMMA StartsAreMarks ==
  /\ Starts \in SUBSET Marks /\ "https://" \in Lexeme /\ "https://" \in Schemes
  /\ Schemes \in SUBSET Starts /\ "//" \in Starts /\ "/" \notin Starts
  /\ {"/"} \in SUBSET Marks /\ {"/", "?"} \in SUBSET Marks /\ {":"} \in SUBSET Marks
  /\ {"?"} \in SUBSET Marks /\ {"/", "?", ":"} \in SUBSET Marks
<1>1. "https://" \in Marks
  BY DEF Marks, Starts, Schemes
<1>2. "https://" \in Lexeme
  BY <1>1, MutesAssumption, Zenon
<1> QED
  BY <1>2 DEF Marks, Starts, Schemes

(* With its scheme, it is a link whose host starts no other link.          *)
LEMMA WithSchemeIs ==
  ASSUME NEW raw, Fresh(raw)
  PROVE  \E s, h, p, pa, q : Link(WithScheme(raw), s, h, p, pa, q) /\ FreeOf(h, Starts)
<1>1. /\ raw \in Texts /\ raw # <<>> /\ raw[1] \in Lexeme /\ Tail(raw) \in Texts
      /\ raw = <<raw[1]>> \o Tail(raw) /\ Len(raw) \in Nat \ {0}
      /\ \A i \in DOMAIN Tail(raw) : i + 1 \in 2 .. Len(raw) /\ Tail(raw)[i] = raw[i + 1]
  BY ByItsFirst DEF Fresh
<1>2. FreeOf(Tail(raw), Starts)
  BY <1>1 DEF Fresh, FreeOf
<1>3. raw[1] \notin Starts => FreeOf(raw, Starts)
  <2> SUFFICES ASSUME raw[1] \notin Starts, NEW i \in DOMAIN raw
               PROVE  raw[i] \notin Starts
    BY DEF FreeOf
  <2>1. i \in 1 .. Len(raw)
    BY <1>1, LenProperties DEF Texts
  <2>2. i = 1 \/ i \in 2 .. Len(raw)
    BY <1>1, <2>1
  <2> QED
    BY <2>2 DEF Fresh
<1>4. \E s \in Lexeme : \E rest \in Texts :
        WithScheme(raw) = <<s>> \o rest /\ FreeOf(rest, Starts)
  <2>1. CASE raw[1] \in Schemes
    <3>1. WithScheme(raw) = <<raw[1]>> \o Tail(raw)
      BY <1>1, <2>1, Zenon DEF WithScheme
    <3> QED
      BY <1>1, <1>2, <3>1, Zenon
  <2>2. CASE raw[1] \notin Schemes /\ raw[1] = "//"
    <3>1. WithScheme(raw) = <<"https://">> \o Tail(raw)
      BY <2>2, Zenon DEF WithScheme
    <3> QED
      BY <1>1, <1>2, <3>1, StartsAreMarks, Zenon
  <2>3. CASE raw[1] \notin Schemes /\ raw[1] # "//"
    <3>1. WithScheme(raw) = <<"https://">> \o raw
      BY <2>3, Zenon DEF WithScheme
    <3>2. raw[1] \notin Starts
      BY <2>3 DEF Starts
    <3> QED
      BY <1>1, <1>3, <3>1, <3>2, StartsAreMarks, Zenon
  <2> QED
    BY <2>1, <2>2, <2>3
<1>5. PICK s \in Lexeme, rest \in Texts :
        WithScheme(raw) = <<s>> \o rest /\ FreeOf(rest, Starts)
  BY <1>4
<1> DEFINE text == WithScheme(raw)
<1>6. text \in Texts /\ text # <<>> /\ text[1] = s /\ Tail(text) = rest
  BY <1>5, InFront
<1> HIDE DEF text
<1>7. PICK h, p, pa, q : Link(text, text[1], h, p, pa, q)
  BY <1>6, EveryTextIsALink
<1>8. rest = h \o (p \o (pa \o q)) /\ h \in Texts /\ p \o (pa \o q) \in Texts
  <2>1. /\ h \in Texts /\ p \in Texts /\ pa \in Texts /\ q \in Texts
        /\ text = <<text[1]>> \o (h \o (p \o (pa \o q)))
    BY <1>7 DEF Link, Parts
  <2>2. pa \o q \in Texts
    BY <2>1, Join, Zenon DEF Joins
  <2>3. p \o (pa \o q) \in Texts
    BY <2>1, <2>2, Join, Zenon DEF Joins
  <2>4. h \o (p \o (pa \o q)) \in Texts
    BY <2>1, <2>3, Join, Zenon DEF Joins
  <2> DEFINE r == h \o (p \o (pa \o q))
  <2> HIDE DEF r
  <2>5. Tail(<<s>> \o r) = r
    BY <2>4, InFront DEF r
  <2> QED
    BY <1>6, <2>1, <2>3, <2>5 DEF r
<1>9. FreeOf(h, Starts)
  <2> DEFINE r == p \o (pa \o q)
  <2> HIDE DEF r
  <2>1. rest = h \o r /\ r \in Texts
    BY <1>8 DEF r
  <2> QED
    BY <1>5, <1>8, <2>1, FreeJoin
<1> QED
  BY <1>7, <1>9, Zenon DEF text

(* So what is stored of it is in the stored form.                          *)
LEMMA MeantIs ==
  ASSUME NEW raw, Fresh(raw), Normalised(WithScheme(raw)) # Invalid
  PROVE  \E s, h, p, pa, q : Canonical(Normalised(WithScheme(raw)), s, h, p, pa, q)
<1>1. PICK s, h, p, pa, q : Link(WithScheme(raw), s, h, p, pa, q) /\ FreeOf(h, Starts)
  BY WithSchemeIs
<1> DEFINE text == WithScheme(raw)
           port == IF Portless(s, p) THEN <<>> ELSE p
           path == IF pa = <<>> THEN <<"/">> ELSE pa
<1>2. Canonical(Normalised(text), s, Lower(h), port, path, q)
  <2> HIDE DEF text
  <2> QED
    BY <1>1, NormalisedIs DEF text
<1> HIDE DEF port, path
<1> QED
  BY <1>2, Zenon

(* The first segment of a path, and the rest of it.                        *)
PathIs(pa, seg, r) ==
  /\ seg \in Texts /\ r \in Texts /\ pa = <<"/">> \o (seg \o r)
  /\ FreeOf(seg, {"/", "?"}) /\ Opens(r, {"/"})

LEMMA SegmentIs ==
  ASSUME NEW pa \in Texts, pa # <<>>, Opens(pa, {"/"}), FreeOf(pa, {"?"})
  PROVE  \E r : PathIs(pa, FirstSegment(pa), r)
<1> DEFINE parts == Cut(Tail(pa), {"/"})
           seg == parts.before
           r == parts.after
<1>1. pa[1] = "/" /\ Tail(pa) \in Texts /\ pa = <<"/">> \o Tail(pa) /\ <<"/">> \in Texts
  BY ByItsFirst, SlashIs DEF Opens
<1>2. /\ seg \in Texts /\ r \in Texts /\ Tail(pa) = seg \o r
      /\ FreeOf(seg, {"/"}) /\ Opens(r, {"/"})
  BY <1>1, CutIs
<1>3. FirstSegment(pa) = seg
  BY DEF FirstSegment
<1> HIDE DEF parts, seg, r
<1>4. FreeOf(Tail(pa), {"?"})
  BY <1>1, FreeJoin
<1>5. FreeOf(seg, {"?"})
  BY <1>2, <1>4, FreeJoin
<1>6. FreeOf(seg, {"/", "?"})
  BY <1>2, <1>5 DEF FreeOf
<1>7. PathIs(pa, seg, r)
  BY <1>1, <1>2, <1>6 DEF PathIs
<1> QED
  BY <1>3, <1>7

(* A term: a host, and a segment if there is one.                          *)
TermOf(g, seg) == IF seg = <<>> THEN g ELSE g \o (<<"/">> \o seg)

(* What the term of a link is made of.                                     *)
Makes(t, h, p, pa) ==
  /\ ~ StartsWithWww(LinkHost(h)) /\ p = <<>>
  /\ FirstSegment(pa) = <<>> => pa = <<"/">>
  /\ t = TermOf(LinkHost(h), Lower(FirstSegment(pa)))

LEMMA TermIs ==
  ASSUME NEW raw, raw # <<>>, UrlMuteTerm(raw) # Invalid,
         NEW s, NEW h, NEW p, NEW pa, NEW q,
         Canonical(Normalised(WithScheme(raw)), s, h, p, pa, q)
  PROVE  Makes(UrlMuteTerm(raw), h, p, pa)
<1> DEFINE c == Normalised(WithScheme(raw))
           url == Parsed(c)
           g == LinkHost(h)
           seg == FirstSegment(pa)
<1>1. url.host = h /\ url.port = p /\ url.path = pa
  BY CanonicalTaken
<1>2. /\ h \in Texts /\ pa \in Texts /\ pa # <<>> /\ Opens(pa, {"/"}) /\ FreeOf(pa, {"?"})
      /\ Lower(h) = h
  BY DEF Canonical, Link, Parts
<1>3. g \in Texts /\ Lower(g) = g
  BY <1>2, LinkHostIs
<1>4. seg \in Texts
  BY <1>2, SegmentIs DEF PathIs
<1>5. c # Invalid
  BY Zenon DEF UrlMuteTerm
<1> HIDE DEF c
<1>6. /\ ~ (\/ Widens(LinkHost(url.host))
            \/ url.port # <<>>
            \/ FirstSegment(url.path) = <<>> /\ url.path # <<"/">>)
      /\ UrlMuteTerm(raw) =
           Lower(IF FirstSegment(url.path) = <<>> THEN LinkHost(url.host)
                 ELSE LinkHost(url.host) \o <<"/">> \o FirstSegment(url.path))
  BY <1>5, Zenon DEF UrlMuteTerm, c
<1> HIDE DEF url
<1>7. /\ ~ StartsWithWww(g) /\ p = <<>> /\ (seg = <<>> => pa = <<"/">>)
      /\ UrlMuteTerm(raw) = Lower(IF seg = <<>> THEN g ELSE g \o <<"/">> \o seg)
  <2>1. LinkHost(url.host) = g /\ url.port = p /\ url.path = pa /\ FirstSegment(url.path) = seg
    BY <1>1
  <2> HIDE DEF g, seg
  <2> QED
    BY <1>6, <2>1 DEF Widens
<1> HIDE DEF g, seg
<1>8. CASE seg = <<>>
  <2>1. Lower(seg) = <<>>
    BY <1>4, <1>8, LowerIs
  <2>2. UrlMuteTerm(raw) = TermOf(g, Lower(seg))
    BY <1>3, <1>7, <1>8, <2>1 DEF TermOf
  <2> QED
    BY <1>7, <2>2 DEF Makes, g, seg
<1>9. CASE seg # <<>>
  <2>1. /\ Lower(seg) # <<>> /\ Lower(seg) \in Texts
        /\ <<"/">> \in Texts /\ Lower(<<"/">>) = <<"/">>
    BY <1>4, <1>9, LowerIs, SlashIs
  <2>2. <<"/">> \o seg \in Texts
    BY <1>4, <2>1, Join, Zenon DEF Joins
  <2>3. /\ LowersApart(g, <<"/">> \o seg) /\ LowersApart(<<"/">>, seg)
        /\ Regroups(g, <<"/">>, seg)
    BY <1>3, <1>4, <2>1, <2>2, LowerJoin, Regroup, Zenon
  <2>4. Lower(g \o <<"/">> \o seg) = g \o (<<"/">> \o Lower(seg))
    BY <1>3, <2>1, <2>3, Zenon DEF LowersApart, Regroups
  <2>5. UrlMuteTerm(raw) = TermOf(g, Lower(seg))
    BY <1>7, <1>9, <2>1, <2>4, Zenon DEF TermOf
  <2> QED
    BY <1>7, <1>9, <2>5 DEF Makes, g, seg
<1> QED
  BY <1>8, <1>9

-----------------------------------------------------------------------------
(***************************************************************************)
(* What a term mutes.                                                      *)
(***************************************************************************)

(* What is left of a link when its term is taken off.                      *)
RestOf(key, term, x) == x \in Texts /\ key = term \o x /\ Opens(x, {"/", "?"})

LEMMA MutedIs ==
  ASSUME NEW link, NEW term \in Texts, NEW key \in Texts, key = LinkHost(Tail(Lower(link)))
  PROVE  UrlMuted(link, term) <=> \E x : RestOf(key, term, x)
<1> DEFINE n == Len(term)
<1>1. UrlMuted(link, term) <=>
        /\ Len(key) >= n /\ SubSeq(key, 1, n) = term
        /\ Len(key) = n \/ key[n + 1] \in {"/", "?"}
  BY Zenon DEF UrlMuted
<1>2. n \in Nat /\ Len(key) \in Nat /\ \A i \in 1 .. Len(key) : key[i] \in Lexeme
  BY LenProperties, ElementOfSeq DEF Texts
<1>3. ASSUME Len(key) >= n, SubSeq(key, 1, n) = term,
             Len(key) = n \/ key[n + 1] \in {"/", "?"}
      PROVE  \E x : RestOf(key, term, x)
  <2> DEFINE x == SubSeq(key, n + 1, Len(key))
  <2> HIDE DEF n
  <2>1. /\ x \in Texts /\ Len(x) = Len(key) - n
        /\ \A i \in 1 .. (Len(key) - n) : x[i] = key[n + i]
    <3>1. n + 1 \in Int /\ Len(key) \in Int /\ \A i \in (n + 1) .. Len(key) : key[i] \in Lexeme
      BY <1>2, <1>3
    <3>2. /\ x \in Seq(Lexeme)
          /\ Len(x) = IF n + 1 <= Len(key) THEN Len(key) - (n + 1) + 1 ELSE 0
          /\ \A i \in 1 .. (Len(key) - (n + 1) + 1) : x[i] = key[(n + 1) + i - 1]
      BY <3>1, SubSeqProperties
    <3> HIDE DEF x
    <3>3. Len(key) - (n + 1) + 1 = Len(key) - n /\ \A i \in Nat : (n + 1) + i - 1 = n + i
      BY <1>2, <1>3
    <3>4. \A i \in 1 .. (Len(key) - n) : x[i] = key[n + i]
      BY <3>2, <3>3
    <3>5. Len(x) = Len(key) - n
      <4>1. Len(x) = IF n + 1 <= Len(key) THEN Len(key) - (n + 1) + 1 ELSE 0
        BY <3>2
      <4> QED
        BY <1>2, <1>3, <4>1
    <3> QED
      BY <3>2, <3>4, <3>5 DEF Texts
  <2>2. \A i \in 1 .. n : term[i] = key[i]
    <3>1. \A i \in 1 .. n : key[i] \in Lexeme
      BY <1>2, <1>3
    <3>2. \A i \in 1 .. n : SubSeq(key, 1, n)[i] = key[i]
      BY <1>2, <3>1, SubSeqProperties
    <3> QED
      BY <1>3, <3>2
  <2> HIDE DEF x
  <2>3. Joined(term \o x, term, x) /\ Len(term) = n
    BY <2>1, JoinIs DEF n
  <2>4. term \o x \in Texts /\ Len(term \o x) = Len(key)
    <3>1. term \o x \in Texts /\ Len(term \o x) = n + Len(x)
      BY <2>3 DEF Joined
    <3> QED
      BY <1>2, <1>3, <2>1, <3>1
  <2>5. \A i \in 1 .. Len(key) : (term \o x)[i] = key[i]
    <3> TAKE i \in 1 .. Len(key)
    <3>1. i \in 1 .. (n + Len(x))
      BY <1>2, <1>3, <2>1
    <3>2. CASE i <= n
      <4>1. (term \o x)[i] = term[i]
        BY <2>3, <3>1, <3>2 DEF Joined
      <4> QED
        BY <1>2, <2>2, <3>2, <4>1
    <3>3. CASE ~ (i <= n)
      <4>1. i - n \in 1 .. (Len(key) - n) /\ n + (i - n) = i
        BY <1>2, <1>3, <3>3
      <4>2. (term \o x)[i] = x[i - n]
        BY <2>3, <3>1, <3>3 DEF Joined
      <4> QED
        BY <2>1, <4>1, <4>2
    <3> QED
      BY <3>2, <3>3
  <2>6. key = term \o x
    BY <2>4, <2>5, SeqEqual DEF Texts
  <2>7. Opens(x, {"/", "?"})
    <3>1. CASE Len(key) = n
      <4>1. Len(x) = 0
        BY <1>2, <2>1, <3>1
      <4> QED
        BY <2>1, <4>1, EmptySeq DEF Opens, Texts
    <3>2. CASE Len(key) # n
      <4>1. 1 \in 1 .. (Len(key) - n)
        BY <1>2, <1>3, <3>2
      <4> QED
        BY <1>3, <2>1, <3>2, <4>1 DEF Opens
    <3> QED
      BY <3>1, <3>2
  <2> QED
    BY <2>1, <2>6, <2>7 DEF RestOf
<1>4. ASSUME NEW x, RestOf(key, term, x)
      PROVE  /\ Len(key) >= n /\ SubSeq(key, 1, n) = term
             /\ Len(key) = n \/ key[n + 1] \in {"/", "?"}
  <2>1. x \in Texts /\ key = term \o x /\ Opens(x, {"/", "?"})
    BY <1>4 DEF RestOf
  <2>2. Joined(key, term, x)
    BY <2>1, JoinIs
  <2> HIDE DEF n
  <2>3. Len(term) = n
    BY DEF n
  <2>4. /\ Len(key) = n + Len(x) /\ Len(x) \in Nat
        /\ \A i \in 1 .. (n + Len(x)) : key[i] = IF i <= n THEN term[i] ELSE x[i - n]
    BY <2>2, <2>3 DEF Joined
  <2>5. Len(key) >= n
    BY <1>2, <2>4
  <2>6. SubSeq(key, 1, n) = term
    <3> DEFINE y == SubSeq(key, 1, n)
    <3>1. \A i \in 1 .. n : key[i] \in Lexeme /\ key[i] = term[i]
      BY <1>2, <2>4
    <3>2. y \in Texts /\ Len(y) = n /\ \A i \in 1 .. n : y[i] = key[i]
      BY <1>2, <3>1, SubSeqProperties DEF Texts
    <3> HIDE DEF y
    <3>3. \A i \in 1 .. n : y[i] = term[i]
      BY <3>1, <3>2
    <3>4. y = term
      BY <2>3, <3>2, <3>3, SeqEqual DEF Texts
    <3> QED
      BY <3>4 DEF y
  <2>7. Len(key) = n \/ key[n + 1] \in {"/", "?"}
    <3>1. CASE x = <<>>
      <4>1. Len(x) = 0
        BY <3>1, EmptySeq
      <4> QED
        BY <1>2, <2>4, <4>1
    <3>2. CASE x # <<>>
      <4>1. Len(x) \in Nat \ {0}
        BY <2>1, <3>2, EmptySeq DEF Texts
      <4>2. n + 1 \in 1 .. (n + Len(x)) /\ ~ (n + 1 <= n) /\ (n + 1) - n = 1
        BY <1>2, <4>1
      <4>3. key[n + 1] = x[1]
        BY <2>4, <4>2
      <4> QED
        BY <2>1, <3>2, <4>3 DEF Opens
    <3> QED
      BY <3>1, <3>2
  <2> QED
    BY <2>5, <2>6, <2>7
<1> HIDE DEF n
<1> QED
  BY <1>1, <1>3, <1>4, Zenon

(* The text a stored link is compared by, in parts: a host, a port, a     *)
(* segment and the rest.                                                   *)
Key(key, g, p, l, z) ==
  /\ g \in Texts /\ p \in Texts /\ l \in Texts /\ z \in Texts
  /\ key = g \o (p \o (<<"/">> \o (l \o z)))
  /\ FreeOf(g, {"/", "?", ":"}) /\ FreeOf(p, {"/", "?"}) /\ Opens(p, {":"})
  /\ FreeOf(l, {"/", "?"}) /\ Opens(z, {"/", "?"})

LEMMA KeyOf ==
  ASSUME NEW c, NEW s, NEW h, NEW p, NEW pa, NEW q, Canonical(c, s, h, p, pa, q)
  PROVE  \E z : Key(LinkHost(Tail(Lower(c))), LinkHost(h), Lower(p),
                    Lower(FirstSegment(pa)), z)
<1> DEFINE seg == FirstSegment(pa)
           low == Lower(seg)
<1>1. /\ h \in Texts /\ p \in Texts /\ pa \in Texts /\ q \in Texts /\ pa # <<>>
      /\ FreeOf(h, {"/", "?", ":"}) /\ FreeOf(p, {"/", "?"}) /\ Opens(p, {":"})
      /\ FreeOf(pa, {"?"}) /\ Opens(pa, {"/"}) /\ Opens(q, {"?"})
  BY DEF Canonical, Link, Parts
<1>2. PICK r : PathIs(pa, seg, r)
  BY <1>1, SegmentIs
<1>3. /\ seg \in Texts /\ r \in Texts /\ pa = <<"/">> \o (seg \o r)
      /\ FreeOf(seg, {"/", "?"}) /\ Opens(r, {"/"})
  BY <1>2 DEF PathIs
<1> HIDE DEF seg
<1>4. /\ LinkHost(h) \in Texts /\ FreeOf(LinkHost(h), {"/", "?", ":"})
  BY <1>1, LinkHostIs
<1>5. /\ Lower(p) \in Texts /\ FreeOf(Lower(p), {"/", "?"}) /\ Opens(Lower(p), {":"})
  BY <1>1, LowerIs, StartsAreMarks
<1>6. /\ low \in Texts /\ FreeOf(low, {"/", "?"})
  BY <1>3, LowerIs, StartsAreMarks
<1>7. /\ Lower(r) \in Texts /\ Opens(Lower(r), {"/"})
      /\ Lower(q) \in Texts /\ Opens(Lower(q), {"?"})
  BY <1>1, <1>3, LowerIs, StartsAreMarks
<1> DEFINE z == Lower(r) \o Lower(q)
<1>8. z \in Texts /\ Opens(z, {"/", "?"})
  <2>1. Opens(Lower(r), {"/", "?"}) /\ Opens(Lower(q), {"/", "?"})
    BY <1>7 DEF Opens
  <2>2. z \in Texts
    BY <1>7, Join, Zenon DEF Joins
  <2> QED
    BY <1>7, <2>1, <2>2, OpensJoin
<1>9. Lower(pa) \o Lower(q) = <<"/">> \o (low \o z)
  <2>1. <<"/">> \in Texts /\ Lower(<<"/">>) = <<"/">>
    BY SlashIs
  <2>2. seg \o r \in Texts /\ low \o Lower(r) \in Texts
    BY <1>3, <1>6, <1>7, Join, Zenon DEF Joins
  <2>3. LowersApart(<<"/">>, seg \o r) /\ LowersApart(seg, r)
    BY <1>3, <2>1, <2>2, LowerJoin, Zenon
  <2>4. Lower(pa) = <<"/">> \o (low \o Lower(r))
    BY <1>3, <2>1, <2>3, Zenon DEF LowersApart
  <2>5. /\ Regroups(<<"/">>, low \o Lower(r), Lower(q))
        /\ Regroups(low, Lower(r), Lower(q))
    BY <1>6, <1>7, <2>1, <2>2, Regroup, Zenon
  <2> QED
    BY <2>4, <2>5, Zenon DEF Regroups
<1> DEFINE key == LinkHost(Tail(Lower(c)))
<1>10. key = LinkHost(h) \o (Lower(p) \o (Lower(pa) \o Lower(q)))
  BY KeyIs
<1> HIDE DEF key, low, z
<1>11. key = LinkHost(h) \o (Lower(p) \o (<<"/">> \o (low \o z)))
  BY <1>9, <1>10, Zenon
<1>12. Key(key, LinkHost(h), Lower(p), low, z)
  BY <1>4, <1>5, <1>6, <1>8, <1>11 DEF Key
<1> QED
  BY <1>12, Zenon DEF key, low, seg

(* What a term leaves of a link opens with the end of the term's last      *)
(* component, so a cut there is a cut of the link.                         *)
LEMMA TermMutesItself ==
  ASSUME NEW key, NEW g, NEW l, NEW z, Key(key, g, <<>>, l, z)
  PROVE  \E x : RestOf(key, TermOf(g, l), x)
<1> DEFINE slash == <<"/">>
           tail == slash \o (l \o z)
<1>1. /\ g \in Texts /\ l \in Texts /\ z \in Texts
      /\ key = g \o (<<>> \o tail) /\ Opens(z, {"/", "?"})
  BY DEF Key
<1>2. slash \in Texts /\ Opens(slash, {"/", "?"})
  BY SlashIs DEF Opens
<1>3. l \o z \in Texts
  BY <1>1, Join, Zenon DEF Joins
<1>4. tail \in Texts /\ tail[1] = "/"
  <2>1. "/" \in Lexeme
    BY SlashIs
  <2> DEFINE y == l \o z
  <2> HIDE DEF y
  <2>2. <<"/">> \o y \in Texts /\ (<<"/">> \o y)[1] = "/"
    BY <1>3, <2>1, InFront DEF y
  <2> QED
    BY <2>2 DEF y
<1>5. key = g \o tail
  <2> HIDE DEF tail
  <2>1. <<>> \o tail = tail
    BY <1>4, JoinNothing
  <2> QED
    BY <1>1, <2>1
<1>6. CASE l = <<>>
  <2>1. TermOf(g, l) = g
    BY <1>6 DEF TermOf
  <2> HIDE DEF tail
  <2>2. RestOf(key, g, tail)
    BY <1>4, <1>5 DEF RestOf, Opens
  <2> QED
    BY <2>1, <2>2
<1>7. CASE l # <<>>
  <2> HIDE DEF slash
  <2>1. TermOf(g, l) = g \o (slash \o l)
    BY <1>7 DEF TermOf, slash
  <2>2. slash \o l \in Texts
    BY <1>1, <1>2, Join, Zenon DEF Joins
  <2>3. Regroups(slash, l, z) /\ Regroups(g, slash \o l, z)
    BY <1>1, <1>2, <2>2, Regroup, Zenon
  <2>4. key = (g \o (slash \o l)) \o z
    BY <1>5, <2>3, Zenon DEF Regroups
  <2>5. RestOf(key, g \o (slash \o l), z)
    BY <1>1, <2>4 DEF RestOf
  <2> QED
    BY <2>1, <2>5
<1> QED
  BY <1>6, <1>7

LEMMA TermMutesOnlyItself ==
  ASSUME NEW key, NEW h, NEW p, NEW m, NEW z, Key(key, h, p, m, z),
         NEW g \in Texts, FreeOf(g, {"/", "?", ":"}),
         NEW l \in Texts, FreeOf(l, {"/", "?"}),
         NEW x, RestOf(key, TermOf(g, l), x)
  PROVE  h = g /\ p = <<>> /\ (l # <<>> => m = l)
<1> DEFINE D == {"/", "?"}
           E == {"/", "?", ":"}
           slash == <<"/">>
           tail == slash \o (m \o z)
           y == IF l = <<>> THEN x ELSE slash \o (l \o x)
<1>1. /\ h \in Texts /\ p \in Texts /\ m \in Texts /\ z \in Texts
      /\ key = h \o (p \o tail)
      /\ FreeOf(h, E) /\ FreeOf(p, D) /\ Opens(p, {":"})
      /\ FreeOf(m, D) /\ Opens(z, D)
  BY DEF Key
<1>2. x \in Texts /\ key = TermOf(g, l) \o x /\ Opens(x, D)
  BY DEF RestOf
<1>3. slash \in Texts /\ "/" \in Lexeme
  BY SlashIs
<1>4. m \o z \in Texts /\ l \o x \in Texts
  BY <1>1, <1>2, Join, Zenon DEF Joins
<1>5. \A u \in Texts : /\ slash \o u \in Texts /\ slash \o u # <<>>
                       /\ (slash \o u)[1] = "/" /\ Tail(slash \o u) = u
  BY <1>3, InFront
<1>6. tail \in Texts /\ Opens(tail, D) /\ Opens(tail, E) /\ Tail(tail) = m \o z
  <2> HIDE DEF slash
  <2> QED
    BY <1>4, <1>5 DEF Opens
<1>7. y \in Texts /\ Opens(y, D) /\ Opens(y, E)
  <2> HIDE DEF slash
  <2> QED
    BY <1>2, <1>4, <1>5 DEF Opens
<1>8. key = g \o y
  <2>1. CASE l = <<>>
    BY <1>2, <2>1 DEF TermOf
  <2>2. CASE l # <<>>
    <3> HIDE DEF slash
    <3>1. TermOf(g, l) = g \o (slash \o l)
      BY <2>2 DEF TermOf, slash
    <3>2. slash \o l \in Texts
      BY <1>3, Join, Zenon DEF Joins
    <3>3. Regroups(slash, l, x) /\ Regroups(g, slash \o l, x)
      BY <1>2, <1>3, <3>2, Regroup, Zenon
    <3>4. key = g \o (slash \o (l \o x))
      BY <1>2, <3>1, <3>3, Zenon DEF Regroups
    <3> QED
      BY <2>2, <3>4
  <2> QED
    BY <2>1, <2>2
<1> HIDE DEF slash, tail, y
<1>9. p \o tail \in Texts /\ Opens(p \o tail, E)
  <2>1. p \o tail \in Texts
    BY <1>1, <1>6, Join, Zenon DEF Joins
  <2>2. Opens(p, E)
    BY <1>1 DEF Opens
  <2> QED
    BY <1>1, <1>6, <2>1, <2>2, OpensJoin
<1>10. h = g /\ p \o tail = y
  <2> DEFINE b == p \o tail
  <2> HIDE DEF b, E
  <2>1. h \o b = g \o y /\ b \in Texts /\ Opens(b, E)
    BY <1>1, <1>8, <1>9 DEF b
  <2>2. FreeOf(g, E)
    BY DEF E
  <2>3. h = g /\ b = y
    BY <1>1, <1>7, <2>1, <2>2, OneCut
  <2> QED
    BY <2>3 DEF b
<1>11. p = <<>> /\ tail = y
  <2>1. <<>> \in Texts /\ <<>> \o y = y
    BY <1>7, JoinNothing
  <2>2. FreeOf(<<>>, D)
    BY EmptySeq DEF FreeOf
  <2> DEFINE e == <<>>
  <2> HIDE DEF e, D
  <2>3. e \in Texts /\ e \o y = p \o tail /\ FreeOf(e, D)
    BY <1>10, <2>1, <2>2 DEF e
  <2>4. e = p /\ y = tail
    BY <1>1, <1>6, <1>7, <2>3, OneCut
  <2> QED
    BY <2>4 DEF e
<1>12. ASSUME l # <<>>
       PROVE  m = l
  <2>1. Tail(y) = l \o x
    BY <1>4, <1>5, <1>12 DEF y
  <2>2. m \o z = l \o x
    BY <1>6, <1>11, <2>1
  <2>3. FreeOf(l, D)
    BY DEF D
  <2> HIDE DEF D
  <2> QED
    BY <1>1, <1>2, <2>2, <2>3, OneCut
<1> QED
  BY <1>10, <1>11, <1>12

-----------------------------------------------------------------------------
(* A term that is not refused is made of a link.                           *)
LEMMA TermHasALink ==
  ASSUME NEW raw, Fresh(raw), UrlMuteTerm(raw) # Invalid
  PROVE  \E s, h, p, pa, q :
           /\ Canonical(Normalised(WithScheme(raw)), s, h, p, pa, q)
           /\ Makes(UrlMuteTerm(raw), h, p, pa)
<1>1. raw # <<>> /\ Normalised(WithScheme(raw)) # Invalid
  BY Zenon DEF Fresh, UrlMuteTerm
<1>2. PICK s, h, p, pa, q : Canonical(Normalised(WithScheme(raw)), s, h, p, pa, q)
  BY <1>1, MeantIs
<1>3. Makes(UrlMuteTerm(raw), h, p, pa)
  BY <1>1, <1>2, TermIs
<1> QED
  BY <1>2, <1>3

(* The parts of a term.                                                    *)
LEMMA TermParts ==
  ASSUME NEW c, NEW s, NEW h, NEW p, NEW pa, NEW q, Canonical(c, s, h, p, pa, q)
  PROVE  /\ LinkHost(h) \in Texts /\ FreeOf(LinkHost(h), {"/", "?", ":"})
         /\ FreeOf(LinkHost(h), Starts) /\ Lower(LinkHost(h)) = LinkHost(h)
         /\ Lower(FirstSegment(pa)) \in Texts /\ FreeOf(Lower(FirstSegment(pa)), {"/", "?"})
         /\ Lower(Lower(FirstSegment(pa))) = Lower(FirstSegment(pa))
         /\ FirstSegment(pa) = <<>> <=> Lower(FirstSegment(pa)) = <<>>
<1>1. /\ h \in Texts /\ FreeOf(h, {"/", "?", ":"}) /\ FreeOf(h, Starts) /\ Lower(h) = h
      /\ pa \in Texts /\ pa # <<>> /\ Opens(pa, {"/"}) /\ FreeOf(pa, {"?"})
  BY DEF Canonical, Link, Parts
<1>2. FirstSegment(pa) \in Texts /\ FreeOf(FirstSegment(pa), {"/", "?"})
  <2>1. PICK r : PathIs(pa, FirstSegment(pa), r)
    BY <1>1, SegmentIs
  <2> QED
    BY <2>1 DEF PathIs
<1> QED
  BY <1>1, <1>2, LinkHostIs, LowerIs, StartsAreMarks

(* Reduced again, a term that is not refused is the same term.             *)
LEMMA TermStays ==
  ASSUME NEW g \in Texts, FreeOf(g, {"/", "?", ":"}), FreeOf(g, Starts), Lower(g) = g,
         ~ StartsWithWww(g),
         NEW l \in Texts, FreeOf(l, {"/", "?"}), Lower(l) = l,
         UrlMuteTerm(TermOf(g, l)) # Invalid
  PROVE  UrlMuteTerm(TermOf(g, l)) = TermOf(g, l)
<1> DEFINE t == TermOf(g, l)
           slash == <<"/">>
           none == <<>>
           scheme == "https://"
           path == IF l = <<>> THEN <<>> ELSE slash \o l
<1>1. t # <<>> /\ Normalised(WithScheme(t)) # Invalid
  <2> HIDE DEF t
  <2>1. UrlMuteTerm(t) # Invalid
    BY DEF t
  <2> QED
    BY <2>1, Zenon DEF UrlMuteTerm
<1>2. none \in Texts /\ slash \in Texts /\ scheme \in Lexeme
      /\ \A a \in Texts : a \o none = a /\ none \o a = a
  BY JoinNothing, SlashIs, StartsAreMarks
<1>3. slash \o l \in Texts /\ (slash \o l)[1] = "/" /\ slash \o l # <<>> /\ Tail(slash \o l) = l
  BY SlashIs, InFront
<1>4. path \in Texts /\ Opens(path, {"/"}) /\ FreeOf(path, {"?"})
      /\ t = g \o path
  <2>1. FreeOf(slash, {"?"}) /\ FreeOf(l, {"?"})
    BY DEF FreeOf
  <2> HIDE DEF slash
  <2>2. FreeOf(slash \o l, {"?"})
    BY <1>2, <2>1, FreeJoin
  <2>3. FreeOf(<<>>, {"?"})
    BY EmptySeq DEF FreeOf
  <2>4. CASE l = <<>>
    BY <1>2, <2>3, <2>4 DEF Opens, TermOf
  <2>5. CASE l # <<>>
    BY <1>3, <2>2, <2>5 DEF Opens, TermOf, slash
  <2> QED
    BY <2>4, <2>5
<1> HIDE DEF path
<1>5. WithScheme(t) = <<scheme>> \o t
  <2>1. t[1] \notin Starts
    <3>1. CASE g = <<>>
      <4>1. t = path
        BY <1>2, <1>4, <3>1
      <4>2. path[1] = "/"
        BY <1>1, <1>4, <4>1 DEF Opens
      <4> QED
        BY <4>1, <4>2, StartsAreMarks
    <3>2. CASE g # <<>>
      <4>1. Joined(g \o path, g, path)
        BY <1>4, JoinIs
      <4>2. 1 \in 1 .. Len(g) /\ 1 \in 1 .. (Len(g) + Len(path)) /\ 1 <= Len(g)
        <5>1. Len(g) \in Nat \ {0}
          BY <3>2, EmptySeq DEF Texts
        <5>2. Len(path) \in Nat
          BY <4>1, Zenon DEF Joined
        <5> QED
          BY <5>1, <5>2
      <4>3. t[1] = g[1] /\ 1 \in DOMAIN g
        BY <1>4, <4>1, <4>2 DEF Joined
      <4> QED
        BY <4>3 DEF FreeOf
    <3> QED
      BY <3>1, <3>2
  <2>2. t[1] \notin Schemes /\ t[1] # "//"
    BY <2>1, StartsAreMarks
  <2> HIDE DEF t
  <2> QED
    BY <2>2, Zenon DEF WithScheme
<1>6. Link(WithScheme(t), scheme, g, none, path, none)
  <2>1. FreeOf(none, {"/", "?"}) /\ Opens(none, {":"}) /\ Opens(none, {"?"})
    BY EmptySeq DEF FreeOf, Opens
  <2>2. Parts(g, none, path, none)
    BY <1>2, <1>4, <2>1 DEF Parts
  <2> HIDE DEF none, t, scheme
  <2>3. WithScheme(t) = <<scheme>> \o (g \o (none \o (path \o none)))
    BY <1>2, <1>4, <1>5
  <2> QED
    BY <1>2, <2>2, <2>3 DEF Link
<1> DEFINE full == slash \o l
<1>7. Canonical(Normalised(WithScheme(t)), scheme, g, none, full, none)
  <2>1. Canonical(Normalised(WithScheme(t)), scheme, Lower(g),
                  IF Portless(scheme, none) THEN <<>> ELSE none,
                  IF path = <<>> THEN <<"/">> ELSE path, none)
    <3> HIDE DEF t, scheme, none
    <3> QED
      BY <1>1, <1>6, NormalisedIs
  <2>2. full = IF path = <<>> THEN <<"/">> ELSE path
    <3>1. CASE l = <<>>
      <4>1. full = slash
        BY <1>2, <3>1
      <4> QED
        BY <3>1, <4>1 DEF path
    <3>2. CASE l # <<>>
      BY <1>3, <3>2 DEF path
    <3> QED
      BY <3>1, <3>2
  <2>3. none = IF Portless(scheme, none) THEN <<>> ELSE none
    OBVIOUS
  <2> HIDE DEF t, none, scheme, full
  <2> QED
    BY <2>1, <2>2, <2>3
<1>8. Makes(UrlMuteTerm(t), g, none, full)
  <2> HIDE DEF t, none, scheme, full
  <2>1. UrlMuteTerm(t) # Invalid
    BY DEF t
  <2> QED
    BY <1>1, <1>7, <2>1, TermIs
<1>9. FirstSegment(full) = l
  <2>1. FreeOf(l, {"/"}) /\ Opens(none, {"/"})
    BY DEF FreeOf, Opens
  <2> HIDE DEF none
  <2>2. Cut(l \o none, {"/"}).before = l
    BY <1>2, <2>1, CutJoin
  <2> HIDE DEF slash
  <2> QED
    BY <1>2, <1>3, <2>2 DEF FirstSegment
<1>10. LinkHost(g) = g
  BY DEF LinkHost
<1> HIDE DEF full
<1> QED
  BY <1>8, <1>9, <1>10, Zenon DEF Makes

-----------------------------------------------------------------------------
(* What is said of a term that was stored.                                 *)
Meant(raw) ==
  LET meant == Normalised(WithScheme(raw))
      term == UrlMuteTerm(raw) IN
  /\ UrlMuted(meant, term)
  /\ \A link \in StoredLinks : UrlMuted(link, term) =>
        LET url == Parsed(link)
            source == Parsed(meant) IN
        /\ SameSite(source, url)
        /\ FirstSegment(source.path) # <<>> =>
              Lower(FirstSegment(url.path)) = Lower(FirstSegment(source.path))

LEMMA PastedIsFresh ==
  ASSUME NEW text \in Pasted, text # <<>>
  PROVE  Fresh(text)
<1>1. text \in Texts
  BY MutesAssumption, Zenon DEF Texts
<1>2. \A i \in 2 .. Len(text) : text[i] \notin Starts
  BY MutesAssumption, Zenon
<1> QED
  BY <1>1, <1>2 DEF Fresh

LEMMA TermMeansNoMore ==
  ASSUME NEW raw, Fresh(raw), UrlMuteTerm(raw) # Invalid
  PROVE  Meant(raw)
<1> DEFINE meant == Normalised(WithScheme(raw))
           term == UrlMuteTerm(raw)
<1>1. PICK s, h, p, pa, q : Canonical(meant, s, h, p, pa, q) /\ Makes(term, h, p, pa)
  BY TermHasALink
<1> DEFINE g == LinkHost(h)
           seg == FirstSegment(pa)
           l == Lower(seg)
<1>2. /\ g \in Texts /\ FreeOf(g, {"/", "?", ":"}) /\ l \in Texts /\ FreeOf(l, {"/", "?"})
      /\ seg = <<>> <=> l = <<>>
  BY <1>1, TermParts
<1>3. p = <<>> /\ term = TermOf(g, l)
  BY <1>1 DEF Makes
<1>4. Parsed(meant).host = h /\ Parsed(meant).path = pa
  BY <1>1, CanonicalTaken
<1> HIDE DEF meant, term, g, l, seg
<1>5. term \in Texts
  <2>1. CASE l = <<>>
    BY <1>2, <1>3, <2>1 DEF TermOf
  <2>2. CASE l # <<>>
    <3>1. <<"/">> \in Texts
      BY SlashIs
    <3>2. <<"/">> \o l \in Texts
      BY <1>2, <3>1, Join, Zenon DEF Joins
    <3>3. g \o (<<"/">> \o l) \in Texts
      BY <1>2, <3>2, Join, Zenon DEF Joins
    <3> QED
      BY <1>3, <2>2, <3>3 DEF TermOf
  <2> QED
    BY <2>1, <2>2
<1>6. \A link, f, z, a, b, c :
        Key(LinkHost(Tail(Lower(link))), f, a, b, z) =>
          (UrlMuted(link, term) <=> \E x : RestOf(LinkHost(Tail(Lower(link))), term, x))
  <2> TAKE link, f, z, a, b, c
  <2> DEFINE key == LinkHost(Tail(Lower(link)))
  <2> HAVE Key(key, f, a, b, z)
  <2>1. key \in Texts
    <3> HIDE DEF key
    <3>1. /\ f \in Texts /\ a \in Texts /\ b \in Texts /\ z \in Texts /\ <<"/">> \in Texts
          /\ key = f \o (a \o (<<"/">> \o (b \o z)))
      BY SlashIs DEF Key
    <3>2. b \o z \in Texts
      BY <3>1, Join, Zenon DEF Joins
    <3>3. <<"/">> \o (b \o z) \in Texts
      BY <3>1, <3>2, Join, Zenon DEF Joins
    <3>4. a \o (<<"/">> \o (b \o z)) \in Texts
      BY <3>1, <3>3, Join, Zenon DEF Joins
    <3> QED
      BY <3>1, <3>4, Join, Zenon DEF Joins
  <2> QED
    BY <1>5, <2>1, MutedIs
<1>7. UrlMuted(meant, term)
  <2> DEFINE key == LinkHost(Tail(Lower(meant)))
  <2>1. PICK z : Key(key, g, Lower(p), l, z)
    BY <1>1, KeyOf DEF g, l, seg
  <2>2. Lower(p) = <<>>
    <3>1. <<>> \in Texts
      BY <1>5, JoinNothing
    <3> QED
      BY <1>3, <3>1, LowerIs
  <2>3. \E x : RestOf(key, term, x)
    <3> HIDE DEF key
    <3> QED
      BY <1>3, <2>1, <2>2, TermMutesItself
  <2> QED
    BY <1>6, <2>1, <2>3, Zenon
<1>8. ASSUME NEW link \in StoredLinks, UrlMuted(link, term)
      PROVE  /\ SameSite(Parsed(meant), Parsed(link))
             /\ FirstSegment(Parsed(meant).path) # <<>> =>
                  Lower(FirstSegment(Parsed(link).path)) = Lower(FirstSegment(Parsed(meant).path))
  <2>1. PICK text \in Pasted \ {<<>>} : link = Normalised(WithScheme(text)) /\ link # Invalid
    BY <1>8 DEF StoredLinks
  <2>2. PICK s2, h2, p2, pa2, q2 : Canonical(link, s2, h2, p2, pa2, q2)
    BY <2>1, PastedIsFresh, MeantIs
  <2> DEFINE key == LinkHost(Tail(Lower(link)))
  <2>3. PICK z : Key(key, LinkHost(h2), Lower(p2), Lower(FirstSegment(pa2)), z)
    BY <2>2, KeyOf
  <2>4. PICK x : RestOf(key, term, x)
    BY <1>6, <1>8, <2>3, Zenon
  <2>5. Parsed(link).host = h2 /\ Parsed(link).port = p2 /\ Parsed(link).path = pa2
    BY <2>2, CanonicalTaken
  <2> DEFINE f2 == LinkHost(h2)
             low == Lower(p2)
             l2 == Lower(FirstSegment(pa2))
  <2> HIDE DEF key, f2, low, l2
  <2>6. f2 = g /\ low = <<>> /\ (l # <<>> => l2 = l)
    <3>1. Key(key, f2, low, l2, z) /\ RestOf(key, TermOf(g, l), x)
      BY <1>3, <2>3, <2>4 DEF f2, low, l2
    <3> QED
      BY <1>2, <3>1, TermMutesOnlyItself
  <2>7. p2 = <<>>
    <3>1. p2 \in Texts
      BY <2>2 DEF Canonical, Link, Parts
    <3> QED
      BY <2>6, <3>1, LowerIs DEF low
  <2>8. SameSite(Parsed(meant), Parsed(link))
    BY <1>4, <2>5, <2>6, <2>7 DEF SameSite, f2, g
  <2> QED
    BY <1>2, <1>4, <2>5, <2>6, <2>8 DEF l2, l, seg
<1> QED
  BY <1>7, <1>8, Zenon DEF Meant, meant, term

LEMMA TermKeepsOrGoes ==
  ASSUME NEW raw, Fresh(raw), UrlMuteTerm(raw) # Invalid
  PROVE  UrlMuteTerm(UrlMuteTerm(raw)) \in {UrlMuteTerm(raw), Invalid}
<1> DEFINE meant == Normalised(WithScheme(raw))
           term == UrlMuteTerm(raw)
<1>1. PICK s, h, p, pa, q : Canonical(meant, s, h, p, pa, q) /\ Makes(term, h, p, pa)
  BY TermHasALink
<1> DEFINE g == LinkHost(h)
           l == Lower(FirstSegment(pa))
<1>2. /\ g \in Texts /\ FreeOf(g, {"/", "?", ":"}) /\ FreeOf(g, Starts) /\ Lower(g) = g
      /\ l \in Texts /\ FreeOf(l, {"/", "?"}) /\ Lower(l) = l
  BY <1>1, TermParts
<1>3. ~ StartsWithWww(g) /\ term = TermOf(g, l)
  BY <1>1 DEF Makes
<1> HIDE DEF meant, term, g, l
<1>4. UrlMuteTerm(term) # Invalid => UrlMuteTerm(term) = term
  BY <1>2, <1>3, TermStays
<1> QED
  BY <1>4 DEF term

-----------------------------------------------------------------------------
(* A mute holds the text it was made of and the term stored for it then;   *)
(* the term stored now is that one, until a save refuses it.               *)
MuteInv ==
  \/ mute = Nothing
  \/ \E text \in Pasted : \E term \in {UrlMuteTerm(text), Invalid} :
       mute = [pasted |-> text, first |-> UrlMuteTerm(text), term |-> term]

LEMMA MuteStep == MuteInv /\ [MuteNext]_muteVars => MuteInv'
<1> SUFFICES ASSUME MuteInv, [MuteNext]_muteVars
             PROVE  MuteInv'
  OBVIOUS
<1>1. CASE Paste
  BY <1>1, Zenon DEF Paste, MuteInv
<1>2. CASE Resave
  <2>1. mute.term # Invalid /\ mute' = [mute EXCEPT !.term = UrlMuteTerm(mute.term)]
    BY <1>2 DEF Resave
  <2>2. mute # Nothing
    BY <2>1 DEF Nothing
  <2>3. PICK text \in Pasted : \E term \in {UrlMuteTerm(text), Invalid} :
          mute = [pasted |-> text, first |-> UrlMuteTerm(text), term |-> term]
    BY <2>2 DEF MuteInv
  <2>4. PICK term \in {UrlMuteTerm(text), Invalid} :
          mute = [pasted |-> text, first |-> UrlMuteTerm(text), term |-> term]
    BY <2>3
  <2>5. term = UrlMuteTerm(text) /\ UrlMuteTerm(text) # Invalid
    BY <2>1, <2>4
  <2>6. Fresh(text)
    <3>1. text # <<>>
      BY <2>5, Zenon DEF UrlMuteTerm
    <3> QED
      BY <3>1, PastedIsFresh
  <2>7. UrlMuteTerm(term) \in {UrlMuteTerm(text), Invalid}
    BY <2>5, <2>6, TermKeepsOrGoes
  <2>8. mute' = [pasted |-> text, first |-> UrlMuteTerm(text), term |-> UrlMuteTerm(term)]
    BY <2>1, <2>4
  <2> QED
    BY <2>7, <2>8 DEF MuteInv
<1>3. CASE Unmute
  BY <1>3 DEF Unmute, MuteInv
<1>4. CASE UNCHANGED muteVars
  BY <1>4 DEF muteVars, MuteInv
<1> QED
  BY <1>1, <1>2, <1>3, <1>4 DEF MuteNext

LEMMA MuteInvMeans == MuteInv => MutesWhatWasMeant
<1> SUFFICES ASSUME MuteInv, mute.first # Invalid
             PROVE  /\ mute.term \in {mute.first, Invalid}
                    /\ mute.first = UrlMuteTerm(mute.pasted)
                    /\ Meant(mute.pasted)
  BY Zenon DEF MutesWhatWasMeant, Meant
<1>1. PICK text \in Pasted : \E term \in {UrlMuteTerm(text), Invalid} :
        mute = [pasted |-> text, first |-> UrlMuteTerm(text), term |-> term]
  BY DEF MuteInv, Nothing
<1>2. PICK term \in {UrlMuteTerm(text), Invalid} :
        mute = [pasted |-> text, first |-> UrlMuteTerm(text), term |-> term]
  BY <1>1
<1>3. mute.pasted = text /\ mute.first = UrlMuteTerm(text) /\ mute.term = term
  BY <1>2
<1>4. text # <<>>
  BY <1>3, Zenon DEF UrlMuteTerm
<1>5. Meant(text)
  BY <1>3, <1>4, PastedIsFresh, TermMeansNoMore
<1> QED
  BY <1>3, <1>5

(* A stored mute mutes the link it was made of, and no link of another     *)
(* host or first segment; a later save keeps it or refuses it.             *)
THEOREM MutesAsMeant == MuteSpec => []MutesWhatWasMeant
<1>1. MuteInit => MuteInv
  BY DEF MuteInit, MuteInv
<1> QED
  BY <1>1, MuteStep, MuteInvMeans, PTL DEF MuteSpec
=============================================================================
