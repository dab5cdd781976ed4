---------------------------- MODULE Lists_proofs ----------------------------
(***************************************************************************)
(* Proofs about lists that are put in order and cut: the listings of the   *)
(* service, the list of the client that grows page by page, and the        *)
(* entries of a document.                                                  *)
(***************************************************************************)
EXTENDS FeedPages, PagedResource, FeedEntries, TLAPS, FiniteSetTheorems, SequenceTheorems,
        WellFoundedInduction
-----------------------------------------------------------------------------
(***************************************************************************)
(* Putting a finite set in order.                                          *)
(***************************************************************************)

(* A set of numbers that is not empty has a least one.                     *)
LEMMA Least ==
  ASSUME NEW S \in SUBSET Nat, S # {}
  PROVE  \E o \in S : \A p \in S : o <= p
<1>1. \E o \in S : \A p \in S : ~ (<<p, o>> \in OpToRel(<, Nat))
  BY NatLessThanWellFounded, WFMin, Zenon
<1>2. PICK o \in S : \A p \in S : ~ (<<p, o>> \in OpToRel(<, Nat))
  BY <1>1, Zenon
<1>3. ASSUME NEW p \in S
      PROVE  o <= p
  <2>1. ~ (p < o)
    BY <1>2, <1>3, Zenon DEF OpToRel
  <2> QED
    BY <2>1
<1> QED
  BY <1>3

(* A relation that says of any two members of a set which one stands first.*)
Orders(before, S) ==
  /\ \A x \in S : <<x, x>> \notin before
  /\ \A x, y, z \in S : <<x, y>> \in before /\ <<y, z>> \in before => <<x, z>> \in before
  /\ \A x, y \in S : x = y \/ <<x, y>> \in before \/ <<y, x>> \in before

(* A set put in order: all of it, each before those that follow.           *)
InLine(f, before, S) ==
  /\ f \in [1 .. Cardinality(S) -> S]
  /\ \A y \in S : \E n \in 1 .. Cardinality(S) : f[n] = y
  /\ \A m, n \in 1 .. Cardinality(S) : m < n => <<f[m], f[n]>> \in before

(* One member of a finite set stands after all the others: were there sets *)
(* without one, take the smallest of them and leave a member out.          *)
LEMMA LastOne ==
  ASSUME NEW S, IsFiniteSet(S), NEW before, Orders(before, S), S # {}
  PROVE  \E x \in S : \A y \in S \ {x} : <<y, x>> \in before
<1> DEFINE Ends(T) == \E x \in T : \A y \in T \ {x} : <<y, x>> \in before
           Bad == {k \in Nat : \E T \in SUBSET S : T # {} /\ Cardinality(T) = k /\ ~ Ends(T)}
<1> SUFFICES ASSUME ~ Ends(S)
             PROVE  FALSE
  OBVIOUS
<1>1. Bad \in SUBSET Nat /\ Bad # {}
  <2>1. Cardinality(S) \in Bad
    BY FS_CardinalityType
  <2> QED
    BY <2>1
<1>2. PICK k \in Bad : \A j \in Bad : k <= j
  <2> HIDE DEF Bad
  <2> QED
    BY <1>1, Least
<1>3. PICK T \in SUBSET S : T # {} /\ Cardinality(T) = k /\ ~ Ends(T)
  BY <1>2
<1>4. PICK x \in T : TRUE
  BY <1>3
<1> DEFINE U == T \ {x}
<1>5. Cardinality(U) = k - 1 /\ Cardinality(U) \in Nat
  <2>1. IsFiniteSet(T)
    BY FS_Subset
  <2>2. Cardinality(U) = k - 1 /\ IsFiniteSet(U)
    BY <1>3, <2>1, FS_RemoveElement
  <2> QED
    BY <2>2, FS_CardinalityType
<1>6. CASE U = {}
  BY <1>3, <1>6
<1>7. CASE U # {}
  <2>1. Ends(U)
    <3>1. k - 1 \notin Bad
      BY <1>2, <1>5
    <3> QED
      BY <1>5, <1>7, <3>1
  <2>2. PICK z \in U : \A y \in U \ {z} : <<y, z>> \in before
    BY <2>1
  <2>3. <<x, z>> \in before \/ <<z, x>> \in before
    BY <2>2 DEF Orders
  <2>4. \A y \in T : y = x \/ y = z \/ y \in U \ {z}
    OBVIOUS
  <2>5. CASE <<x, z>> \in before
    <3>1. \A y \in T \ {z} : <<y, z>> \in before
      BY <2>2, <2>4, <2>5
    <3> QED
      BY <1>3, <2>2, <3>1
  <2>6. CASE <<z, x>> \in before
    <3>1. \A y \in T \ {x} : <<y, x>> \in before
      BY <2>2, <2>4, <2>6 DEF Orders
    <3> QED
      BY <1>3, <3>1
  <2> QED
    BY <2>3, <2>5, <2>6
<1> QED
  BY <1>6, <1>7

(* Every finite set can be put in order: all but the last one, and then    *)
(* the last one.                                                           *)
LEMMA LineExists ==
  ASSUME NEW S, IsFiniteSet(S), NEW before, Orders(before, S)
  PROVE  \E f : InLine(f, before, S)
<1> DEFINE Lined(T) == \E f : InLine(f, before, T)
           Bad == {k \in Nat : \E T \in SUBSET S : Cardinality(T) = k /\ ~ Lined(T)}
<1> SUFFICES ASSUME ~ Lined(S)
             PROVE  FALSE
  OBVIOUS
<1>1. Bad \in SUBSET Nat /\ Bad # {}
  <2>1. Cardinality(S) \in Bad
    BY FS_CardinalityType
  <2> QED
    BY <2>1
<1>2. PICK k \in Bad : \A j \in Bad : k <= j
  <2> HIDE DEF Bad
  <2> QED
    BY <1>1, Least
<1>3. PICK T \in SUBSET S : Cardinality(T) = k /\ ~ Lined(T)
  BY <1>2
<1>4. IsFiniteSet(T) /\ Orders(before, T)
  BY FS_Subset DEF Orders
<1>5. CASE T = {}
  <2>1. Cardinality(T) = 0
    BY <1>5, FS_EmptySet
  <2> DEFINE f == [n \in 1 .. 0 |-> 0]
  <2>2. InLine(f, before, T)
    BY <1>5, <2>1 DEF InLine
  <2> QED
    BY <1>3, <2>2
<1>6. CASE T # {}
  <2>1. PICK x \in T : \A y \in T \ {x} : <<y, x>> \in before
    BY <1>4, <1>6, LastOne
  <2> DEFINE U == T \ {x}
  <2>2. Cardinality(U) = k - 1 /\ k - 1 \in Nat /\ U \in SUBSET S
    <3>1. Cardinality(U) = k - 1 /\ IsFiniteSet(U)
      BY <1>3, <1>4, FS_RemoveElement
    <3>2. Cardinality(U) \in Nat
      BY <3>1, FS_CardinalityType
    <3> QED
      BY <3>1, <3>2
  <2>3. Lined(U)
    <3>1. k - 1 \notin Bad
      BY <1>2, <2>2
    <3> QED
      BY <2>2, <3>1
  <2>4. PICK g : InLine(g, before, U)
    BY <2>3
  <2>5. /\ g \in [1 .. (k - 1) -> U]
        /\ \A y \in U : \E n \in 1 .. (k - 1) : g[n] = y
        /\ \A m, n \in 1 .. (k - 1) : m < n => <<g[m], g[n]>> \in before
    BY <2>2, <2>4 DEF InLine
  <2> DEFINE f == [n \in 1 .. k |-> IF n = k THEN x ELSE g[n]]
  <2>6. k \in Nat /\ k >= 1
    BY <1>2, <2>2
  <2>7. \A n \in 1 .. k : n # k => n \in 1 .. (k - 1) /\ f[n] = g[n] /\ g[n] \in U
    BY <2>5, <2>6
  <2>8. f[k] = x /\ k \in 1 .. k
    BY <2>6
  <2>9. \A n \in 1 .. (k - 1) : n \in 1 .. k /\ f[n] = g[n]
    BY <2>6
  <2>10. f \in [1 .. k -> T]
    BY <2>7, <2>8
  <2> HIDE DEF f
  <2>11. \A y \in T : \E n \in 1 .. k : f[n] = y
    BY <2>5, <2>8, <2>9
  <2>12. ASSUME NEW m \in 1 .. k, NEW n \in 1 .. k, m < n
         PROVE  <<f[m], f[n]>> \in before
    <3>1. m # k
      BY <2>6, <2>12
    <3>2. CASE n = k
      BY <2>1, <2>7, <2>8, <3>1, <3>2
    <3>3. CASE n # k
      BY <2>5, <2>7, <2>12, <3>1, <3>3
    <3> QED
      BY <3>2, <3>3
  <2> QED
    BY <1>3, <2>10, <2>11, <2>12 DEF InLine
<1> QED
  BY <1>5, <1>6
-----------------------------------------------------------------------------
(***************************************************************************)
(* Putting rows in order.                                                  *)
(***************************************************************************)

(* A row of a listing: the position, a moment and an id, and the id.       *)
Rows == {row \in (Nat \X Nat) \X Nat : row[1][2] = row[2]}

(* Positions stand in a strict total order.                                *)
LEMMA BeforeOrders ==
  ASSUME NEW p \in Nat \X Nat, NEW q \in Nat \X Nat, NEW r \in Nat \X Nat
  PROVE  /\ ~ Before(p, p)
         /\ Before(p, q) /\ Before(q, r) => Before(p, r)
         /\ p = q \/ Before(p, q) \/ Before(q, p)
<1>1. /\ p[1] \in Nat /\ p[2] \in Nat /\ q[1] \in Nat /\ q[2] \in Nat
      /\ r[1] \in Nat /\ r[2] \in Nat
      /\ (p[1] = q[1] /\ p[2] = q[2] => p = q)
  OBVIOUS
<1> QED
  BY <1>1, SMT DEF Before

(* Rows in order: every row, each before those that follow.                *)
InRank(page, T) ==
  /\ Range(page) = T
  /\ \A m, n \in DOMAIN page : m < n => Before(page[m][1], page[n][1])

LEMMA OrderExists ==
  ASSUME NEW R \in SUBSET Rows, IsFiniteSet(R)
  PROVE  \E page \in [1 .. Cardinality(R) -> R] : InRank(page, R)
<1> DEFINE before == {pair \in R \X R : Before(pair[1][1], pair[2][1])}
<1>1. Orders(before, R)
  <2>1. \A x \in R : x[1] \in Nat \X Nat /\ x = <<<<x[1][1], x[2]>>, x[2]>> /\ x[1][2] = x[2]
    BY DEF Rows
  <2>2. \A x, y \in R : <<x, y>> \in before <=> Before(x[1], y[1])
    OBVIOUS
  <2>3. \A x, y \in R : x[1] = y[1] => x = y
    BY <2>1
  <2> HIDE DEF before
  <2>4. \A x \in R : <<x, x>> \notin before
    BY <2>1, <2>2, BeforeOrders
  <2>5. \A x, y, z \in R : <<x, y>> \in before /\ <<y, z>> \in before => <<x, z>> \in before
    BY <2>1, <2>2, BeforeOrders
  <2>6. \A x, y \in R : x = y \/ <<x, y>> \in before \/ <<y, x>> \in before
    BY <2>1, <2>2, <2>3, BeforeOrders
  <2> QED
    BY <2>4, <2>5, <2>6 DEF Orders
<1>2. PICK page : InLine(page, before, R)
  BY <1>1, LineExists
<1>3. page \in [1 .. Cardinality(R) -> R] /\ DOMAIN page = 1 .. Cardinality(R)
  BY <1>2 DEF InLine
<1>4. Range(page) = R
  BY <1>2, <1>3 DEF InLine, Range
<1>5. \A m, n \in DOMAIN page : m < n => Before(page[m][1], page[n][1])
  BY <1>2, <1>3 DEF InLine
<1> QED
  BY <1>3, <1>4, <1>5 DEF InRank

(* The rows of a page, as the database orders them.                        *)
LEMMA InOrderIs ==
  ASSUME NEW R \in SUBSET Rows, IsFiniteSet(R)
  PROVE  /\ InOrder(R) \in [1 .. Cardinality(R) -> R]
         /\ InRank(InOrder(R), R)
         /\ InOrder(R) \in Seq(R) /\ Len(InOrder(R)) = Cardinality(R)
<1>1. \E page \in [1 .. Cardinality(R) -> R] : InRank(page, R)
  BY OrderExists
<1>2. InOrder(R) \in [1 .. Cardinality(R) -> R] /\ InRank(InOrder(R), R)
  BY <1>1, Zenon DEF InOrder, InRank
<1>3. Cardinality(R) \in Nat
  BY FS_CardinalityType
<1> HIDE DEF InOrder
<1>4. InOrder(R) \in Seq(R)
  BY <1>2, <1>3
<1>5. Len(InOrder(R)) = Cardinality(R)
  BY <1>2, <1>3, <1>4
<1> QED
  BY <1>2, <1>4, <1>5
-----------------------------------------------------------------------------
(***************************************************************************)
(* Pages of the feed and of the bookmarks.                                 *)
(***************************************************************************)

(* The library: ids are never used again, bookmarks are of items that are  *)
(* there and not of a day to come.                                         *)
LibraryInv ==
  /\ IsFiniteSet(DOMAIN items) /\ DOMAIN items \subseteq taken /\ taken \subseteq Nat
  /\ DOMAIN saved \subseteq DOMAIN items
  /\ today \in Nat
  /\ \A i \in DOMAIN items : items[i] \in Nat
  /\ \A i \in DOMAIN saved : saved[i] \in Nat /\ saved[i] <= today

ListingFields == {"of", "filter", "pc", "cursor", "shown", "known", "throughout"}
KnownFields == {"sources", "mutes", "topics"}

(* What the page has read of the preferences lets an item pass.            *)
StillPasses(l, i) ==
  LET kind == Kind[i] IN
  /\ l.pc \in {"mutes", "topics", "select"} =>
       (l.known.sources # Omitted => kind.feed \in l.known.sources)
  /\ l.pc \in {"topics", "select"} =>
       kind.terms \cap l.known.mutes.words = {} /\ kind.topics \cap l.known.mutes.tags = {}
  /\ l.pc = "select" =>
       (l.known.topics # Omitted => kind.topics \cap l.known.topics # {})

(* A row that was shown: the item is where it was, or gone for good; a     *)
(* bookmark may have been taken off and set again, at the top.             *)
ShownRow(l, row) ==
  /\ l.of = "feed" =>
       row[2] \in taken /\ (row[2] \in DOMAIN items => items[row[2]] = row[1][1])
  /\ l.of = "bookmarks" =>
       row[1][1] <= today /\ (row[2] \in DOMAIN saved => saved[row[2]] >= row[1][1])

Sorted(rows) ==
  \A m, n \in DOMAIN rows : m < n => Before(rows[m][1], rows[n][1]) /\ rows[m][2] # rows[n][2]

(* The cursor is the last row that was shown, and what is owed was shown   *)
(* or stands after it.                                                     *)
AtCursor(l) ==
  /\ l.cursor = IF l.shown = <<>> THEN <<>> ELSE l.shown[Len(l.shown)][1]
  /\ \A row \in l.throughout : row \in Range(l.shown) \/ AfterCursor(row[1], l.cursor)

ListingForm(l) ==
  /\ DOMAIN l = ListingFields /\ DOMAIN l.known = KnownFields
  /\ l.of \in {"feed", "bookmarks"}
  /\ l.pc \in {"sources", "mutes", "topics", "select", "ended"}
  /\ l.pc \in {"mutes", "topics"} => l.of = "feed"
  /\ l.shown \in Seq(Rows)

ListingInv(l) ==
  /\ ListingForm(l)
  /\ l.throughout \subseteq Owed(l)
  /\ l.of = "feed" => \A row \in l.throughout : StillPasses(l, row[2])
  /\ Sorted(l.shown)
  /\ \A n \in DOMAIN l.shown : ShownRow(l, l.shown[n])
  /\ l.pc # "ended" => AtCursor(l)
  /\ l.pc = "ended" => l.throughout \subseteq Range(l.shown)

PagesInv ==
  /\ LibraryInv
  /\ listing = NoListing \/ ListingInv(listing)

-----------------------------------------------------------------------------
(* What a listing may show are finitely many rows, one for each item.      *)
PageSet(l) ==
  {<<Position(l, i), i>> : i \in
     {j \in Listed(l, l.known) : AfterCursor(Position(l, j), l.cursor)}}

LEMMA PositionIs ==
  ASSUME LibraryInv, NEW l, l.of \in {"feed", "bookmarks"}, NEW k, NEW i \in Listed(l, k)
  PROVE  <<Position(l, i), i>> \in Rows
<1>1. i \in Nat /\ (l.of = "feed" => items[i] \in Nat) /\ (l.of # "feed" => saved[i] \in Nat)
  BY DEF LibraryInv, Listed
<1> QED
  BY <1>1 DEF Rows, Position

LEMMA PageSetIs ==
  ASSUME LibraryInv, NEW l, ListingForm(l)
  PROVE  PageSet(l) \in SUBSET Rows /\ IsFiniteSet(PageSet(l))
<1> DEFINE ids == {j \in Listed(l, l.known) : AfterCursor(Position(l, j), l.cursor)}
           f == [i \in ids |-> <<Position(l, i), i>>]
<1>1. PageSet(l) \in SUBSET Rows
  BY PositionIs DEF PageSet, ListingForm
<1>2. ids \subseteq DOMAIN items
  BY DEF Listed, LibraryInv
<1>3. IsFiniteSet(ids)
  BY <1>2, FS_Subset DEF LibraryInv
<1>4. f \in Surjection(ids, PageSet(l))
  BY DEF PageSet, Surjection
<1>5. IsFiniteSet(PageSet(l))
  <2> HIDE DEF ids, f
  <2> QED
    BY <1>3, <1>4, FS_Surjection
<1> QED
  BY <1>1, <1>5

(* A row of a page stands after all that was shown, and is of another item.*)
LEMMA NextRows ==
  ASSUME LibraryInv, NEW l, ListingInv(l), l.pc # "ended",
         NEW row \in PageSet(l), NEW n \in DOMAIN l.shown
  PROVE  Before(l.shown[n][1], row[1]) /\ l.shown[n][2] # row[2]
<1> DEFINE shown == l.shown
           last == Len(l.shown)
<1>1. shown \in Seq(Rows) /\ DOMAIN shown = 1 .. last /\ last \in Nat
  BY LenProperties DEF ListingInv, ListingForm
<1>2. last \in 1 .. last /\ n \in 1 .. last /\ n <= last
  BY <1>1
<1>3. /\ shown[n] \in Rows /\ shown[last] \in Rows /\ row \in Rows
      /\ \A r \in Rows : r[1] \in Nat \X Nat /\ r[2] \in Nat /\ r[1][2] = r[2] /\ r[1] # <<>>
                         /\ r[1][1] \in Nat
  <2>1. shown[n] \in Rows /\ shown[last] \in Rows
    BY <1>1, <1>2, ElementOfSeq
  <2>2. row \in Rows
    BY PageSetIs DEF ListingInv
  <2> QED
    BY <2>1, <2>2 DEF Rows
<1>4. PICK i \in Listed(l, l.known) :
        row = <<Position(l, i), i>> /\ AfterCursor(Position(l, i), l.cursor)
  BY DEF PageSet
<1>5. Before(shown[last][1], row[1])
  <2>1. l.cursor = shown[last][1]
    <3>1. shown # <<>>
      BY <1>1, <1>2
    <3> QED
      BY <3>1 DEF ListingInv, AtCursor
  <2> QED
    BY <1>3, <1>4, <2>1 DEF AfterCursor
<1>6. Before(shown[n][1], row[1])
  <2>1. CASE n = last
    BY <1>5, <2>1
  <2>2. CASE n # last
    <3>1. Before(shown[n][1], shown[last][1])
      BY <1>1, <1>2, <2>2 DEF ListingInv, Sorted
    <3> QED
      BY <1>3, <1>5, <3>1, BeforeOrders
  <2> QED
    BY <2>1, <2>2
<1>7. shown[n][2] # row[2]
  <2> SUFFICES ASSUME shown[n][2] = row[2]
               PROVE  FALSE
    OBVIOUS
  <2>1. shown[n][1][2] = row[1][2]
    BY <1>3
  <2>2. shown[n][1][1] > row[1][1]
    BY <1>3, <1>6, <2>1 DEF Before
  <2>3. ShownRow(l, shown[n])
    BY DEF ListingInv
  <2>4. CASE l.of = "feed"
    <3>1. i \in DOMAIN items /\ row[1][1] = items[i] /\ row[2] = i
      BY <1>4, <2>4 DEF Listed, Position
    <3>2. items[i] = shown[n][1][1]
      BY <2>3, <2>4, <3>1 DEF ShownRow
    <3> QED
      BY <1>3, <2>2, <3>1, <3>2
  <2>5. CASE l.of = "bookmarks"
    <3>1. i \in DOMAIN saved /\ row[1][1] = saved[i] /\ row[2] = i
      BY <1>4, <2>5 DEF Listed, Position
    <3>2. saved[i] >= shown[n][1][1]
      BY <2>3, <2>5, <3>1 DEF ShownRow
    <3> QED
      BY <1>3, <2>2, <3>1, <3>2
  <2> QED
    BY <2>4, <2>5 DEF ListingInv, ListingForm
<1> QED
  BY <1>6, <1>7

(* Rows of one page that stand at different places are of different items. *)
LEMMA RowsDiffer ==
  ASSUME LibraryInv, NEW l, ListingForm(l), NEW r \in PageSet(l), NEW s \in PageSet(l),
         Before(r[1], s[1])
  PROVE  r[2] # s[2]
<1>1. r \in Rows /\ s \in Rows
  BY PageSetIs
<1>2. r[1] = Position(l, r[2]) /\ s[1] = Position(l, s[2])
  BY DEF PageSet
<1>3. r[1] \in Nat \X Nat /\ s[1] \in Nat \X Nat
  BY <1>1 DEF Rows
<1> QED
  BY <1>2, <1>3, BeforeOrders

(* Whatever is owed and stands after the cursor is on the page.            *)
LEMMA OwedIsSelected ==
  ASSUME LibraryInv, NEW l, ListingInv(l), l.pc = "select",
         NEW row \in l.throughout, AfterCursor(row[1], l.cursor)
  PROVE  row \in PageSet(l)
<1>1. PICK i \in Listed(l, Known(l.filter)) : row = <<Position(l, i), i>>
  BY DEF ListingInv, Owed
<1>2. i \in Listed(l, l.known)
  <2>1. CASE l.of = "feed"
    <3>1. i \in DOMAIN items /\ InFeed(i, l.filter, Known(l.filter))
      BY <1>1, <2>1 DEF Listed
    <3>2. StillPasses(l, i)
      BY <1>1, <2>1 DEF ListingInv
    <3>3. ~ Muted(Kind[i], l.known.mutes)
      <4>1. ~ Muted(Kind[i], Mutes)
        BY <3>1 DEF InFeed, Known
      <4>2. Kind[i].terms \cap profile.urls = {}
        BY <4>1 DEF Muted, Mutes
      <4> QED
        BY <3>2, <4>2 DEF StillPasses, Muted
    <3>4. InFeed(i, l.filter, l.known)
      BY <3>1, <3>2, <3>3 DEF InFeed, StillPasses
    <3> QED
      BY <2>1, <3>1, <3>4 DEF Listed
  <2>2. CASE l.of = "bookmarks"
    BY <1>1, <2>2 DEF Listed
  <2> QED
    BY <2>1, <2>2 DEF ListingInv, ListingForm
<1> QED
  BY <1>1, <1>2 DEF PageSet
-----------------------------------------------------------------------------
(* What SelectPage makes of a listing.                                     *)
Turned(l, k) ==
  LET rows == PageRows(l)
      further == Len(rows) > PageSize
      page == IF further THEN SubSeq(rows, 1, PageSize) ELSE rows IN
  /\ DOMAIN k = DOMAIN l /\ k.of = l.of /\ k.filter = l.filter /\ k.known = l.known
  /\ k.throughout = l.throughout
  /\ k.shown = l.shown \o page
  /\ k.cursor = IF further THEN Last(page)[1] ELSE <<>>
  /\ k.pc = IF further THEN "sources" ELSE "ended"

(* A page is the first rows of those in order: all of them or PageSize.    *)
LEMMA PageIs ==
  ASSUME LibraryInv, NEW l, ListingForm(l)
  PROVE  LET rows == PageRows(l)
             further == Len(rows) > PageSize
             page == IF further THEN SubSeq(rows, 1, PageSize) ELSE rows IN
         /\ rows \in Seq(PageSet(l)) /\ InRank(rows, PageSet(l))
         /\ page \in Seq(PageSet(l)) /\ Len(page) = IF further THEN PageSize ELSE Len(rows)
         /\ \A n \in 1 .. Len(page) : page[n] = rows[n]
<1> DEFINE rows == PageRows(l)
           S == PageSet(l)
<1>0. PageSize \in Nat \ {0}
  BY FeedAssumption
<1>1. S \in SUBSET Rows /\ IsFiniteSet(S)
  BY PageSetIs
<1>2. rows = InOrder(S)
  BY Zenon DEF PageRows, PageSet
<1>3. rows \in Seq(S) /\ InRank(rows, S)
  <2> HIDE DEF rows, S
  <2> QED
    BY <1>1, <1>2, InOrderIs
<1> HIDE DEF rows, S
<1>4. \A n \in 1 .. Len(rows) : rows[n] \in S
  BY <1>3, ElementOfSeq
<1>5. CASE Len(rows) > PageSize
  <2>1. SubSeq(rows, 1, PageSize) \in Seq(S) /\ Len(SubSeq(rows, 1, PageSize)) = PageSize
    BY <1>0, <1>3, <1>4, <1>5, SubSeqProperties
  <2>2. \A n \in 1 .. PageSize : SubSeq(rows, 1, PageSize)[n] = rows[n]
    BY <1>0, <1>3, <1>5, SubSeqProperties
  <2> QED
    BY <1>3, <1>5, <2>1, <2>2 DEF rows, S
<1>6. CASE ~ (Len(rows) > PageSize)
  BY <1>3, <1>6 DEF rows, S
<1> QED
  BY <1>5, <1>6

LEMMA PageTurns ==
  ASSUME LibraryInv, NEW l, NEW k, ListingInv(l), l.pc = "select", Turned(l, k)
  PROVE  ListingInv(k)
<1> DEFINE rows == PageRows(l)
           further == Len(rows) > PageSize
           page == IF further THEN SubSeq(rows, 1, PageSize) ELSE rows
           S == PageSet(l)
           shown == l.shown
           p == Len(shown)
           all == k.shown
<1>0. PageSize \in Nat \ {0}
  BY FeedAssumption
<1>1. /\ rows \in Seq(S) /\ InRank(rows, S)
      /\ page \in Seq(S) /\ Len(page) = IF further THEN PageSize ELSE Len(rows)
      /\ \A n \in 1 .. Len(page) : page[n] = rows[n]
  BY PageIs DEF ListingInv
<1>2. S \in SUBSET Rows
  BY PageSetIs DEF ListingInv
<1>3. /\ DOMAIN k = DOMAIN l /\ k.of = l.of /\ k.filter = l.filter /\ k.known = l.known
      /\ k.throughout = l.throughout /\ all = shown \o page
      /\ k.cursor = (IF further THEN Last(page)[1] ELSE <<>>)
      /\ k.pc = IF further THEN "sources" ELSE "ended"
  BY DEF Turned
<1>4. shown \in Seq(Rows) /\ p \in Nat /\ DOMAIN shown = 1 .. p
  BY LenProperties DEF ListingInv, ListingForm
<1>form. ListingForm(l) /\ l.pc # "ended"
  BY DEF ListingInv
<1>next. \A row \in S : \A n \in 1 .. p : Before(shown[n][1], row[1]) /\ shown[n][2] # row[2]
  BY <1>4, <1>form, NextRows
<1>differ. \A r, s \in S : Before(r[1], s[1]) => r[2] # s[2]
  BY <1>form, RowsDiffer
<1>owed. \A row \in l.throughout : AfterCursor(row[1], l.cursor) => row \in S
  BY OwedIsSelected
<1>here. \A row \in S : ShownRow(l, row)
  <2> TAKE row \in S
  <2>1. PICK i \in Listed(l, l.known) : row = <<Position(l, i), i>>
    BY DEF PageSet
  <2> QED
    BY <2>1 DEF Listed, Position, ShownRow, LibraryInv
<1> HIDE DEF rows, page, S
<1>5. Len(page) \in Nat /\ Len(rows) \in Nat /\ Len(page) <= Len(rows) /\ DOMAIN rows = 1 .. Len(rows)
  BY <1>0, <1>1, LenProperties
<1>6. \A n \in 1 .. Len(rows) : rows[n] \in S
  BY <1>1, ElementOfSeq
<1>7. \A n \in 1 .. Len(page) : n \in 1 .. Len(rows) /\ page[n] = rows[n] /\ page[n] \in S
  BY <1>1, <1>5, <1>6
<1>8. all \in Seq(Rows) /\ Len(all) = p + Len(page) /\ DOMAIN all = 1 .. p + Len(page)
  <2>1. page \in Seq(Rows)
    BY <1>1, <1>2
  <2> QED
    BY <1>3, <1>4, <2>1, ConcatProperties, LenProperties
<1>9. /\ \A n \in 1 .. p : all[n] = shown[n]
      /\ \A n \in 1 .. Len(page) : all[p + n] = page[n]
  <2>1. page \in Seq(Rows)
    BY <1>1, <1>2
  <2> QED
    BY <1>3, <1>4, <1>5, <2>1, ConcatProperties
<1>10. \A n \in DOMAIN all :
         \/ n \in 1 .. p /\ all[n] = shown[n]
         \/ n - p \in 1 .. Len(page) /\ all[n] = page[n - p] /\ n > p
  <2> TAKE n \in DOMAIN all
  <2>1. CASE n <= p
    BY <1>4, <1>8, <1>9, <2>1
  <2>2. CASE n > p
    <3>1. n - p \in 1 .. Len(page) /\ p + (n - p) = n
      BY <1>4, <1>5, <1>8, <2>2
    <3> QED
      BY <1>9, <2>2, <3>1
  <2> QED
    BY <1>4, <1>8, <2>1, <2>2
<1>11. Sorted(all)
  <2> SUFFICES ASSUME NEW m \in DOMAIN all, NEW n \in DOMAIN all, m < n
               PROVE  Before(all[m][1], all[n][1]) /\ all[m][2] # all[n][2]
    BY DEF Sorted
  <2>0. m \in Nat /\ n \in Nat
    BY <1>4, <1>5, <1>8
  <2>1. CASE n <= p
    <3>1. m \in 1 .. p /\ n \in 1 .. p
      BY <1>4, <1>8, <2>0, <2>1
    <3> QED
      BY <1>4, <1>9, <3>1 DEF ListingInv, Sorted
  <2>2. CASE m <= p /\ n > p
    <3>1. all[m] = shown[m] /\ m \in 1 .. p
      BY <1>4, <1>10, <2>0, <2>2
    <3>2. all[n] \in S
      BY <1>4, <1>7, <1>10, <2>0, <2>2
    <3> QED
      BY <1>next, <3>1, <3>2
  <2>3. CASE m > p
    <3>0. n > p /\ m \notin 1 .. p /\ n \notin 1 .. p /\ m - p < n - p
      BY <1>4, <2>0, <2>3
    <3>a. m - p \in 1 .. Len(page) /\ all[m] = page[m - p]
      BY <1>10, <3>0
    <3>b. n - p \in 1 .. Len(page) /\ all[n] = page[n - p]
      BY <1>10, <3>0
    <3>1. m - p \in 1 .. Len(rows) /\ n - p \in 1 .. Len(rows) /\ m - p < n - p
          /\ all[m] = rows[m - p] /\ all[n] = rows[n - p]
      BY <1>7, <3>0, <3>a, <3>b
    <3>2. Before(all[m][1], all[n][1])
      BY <1>1, <1>5, <3>1 DEF InRank
    <3> QED
      BY <1>6, <1>differ, <3>1, <3>2
  <2> QED
    BY <1>4, <2>0, <2>1, <2>2, <2>3
<1>12. \A n \in DOMAIN all : ShownRow(k, all[n])
  <2> TAKE n \in DOMAIN all
  <2>1. ShownRow(l, all[n])
    BY <1>4, <1>7, <1>10, <1>here DEF ListingInv
  <2> QED
    BY <1>3, <2>1 DEF ShownRow
<1>13. \A n \in 1 .. p : shown[n] \in Range(all)
  <2> TAKE n \in 1 .. p
  <2>1. n \in DOMAIN all
    BY <1>4, <1>5, <1>8
  <2> QED
    BY <1>9, <2>1 DEF Range
<1>14. \A n \in 1 .. Len(page) : page[n] \in Range(all)
  <2> TAKE n \in 1 .. Len(page)
  <2>1. p + n \in DOMAIN all
    BY <1>4, <1>5, <1>8
  <2> QED
    BY <1>9, <2>1 DEF Range
<1>15. \A row \in l.throughout : row \in Range(all) \/ row \in S
  <2> TAKE row \in l.throughout
  <2>1. row \in Range(shown) \/ AfterCursor(row[1], l.cursor)
    BY <1>form DEF ListingInv, AtCursor
  <2>2. row \in Range(shown) => row \in Range(all)
    BY <1>4, <1>13 DEF Range
  <2> QED
    BY <1>owed, <2>1, <2>2
<1>16. \A row \in S : \E n \in 1 .. Len(rows) : row = rows[n]
  BY <1>1, <1>5 DEF InRank, Range
<1>17. CASE further
  <2>1. Len(page) = PageSize /\ Last(page) = page[PageSize]
    BY <1>1, <1>17 DEF Last
  <2>2. /\ PageSize \in 1 .. Len(page) /\ k.cursor = page[PageSize][1] /\ k.pc = "sources"
        /\ Len(all) = p + PageSize /\ all # <<>> /\ all[p + PageSize] = page[PageSize]
    BY <1>0, <1>3, <1>4, <1>8, <1>9, <1>17, <2>1
  <2>3. AtCursor(k)
    <3>1. k.cursor = IF all = <<>> THEN <<>> ELSE all[Len(all)][1]
      BY <2>2
    <3>2. ASSUME NEW row \in S, row \notin Range(all)
          PROVE  AfterCursor(row[1], k.cursor)
      <4>1. PICK n \in 1 .. Len(rows) : row = rows[n]
        BY <1>16
      <4>2. n > PageSize
        BY <1>7, <1>14, <2>1, <3>2, <4>1, <1>0, <1>5
      <4>3. Before(rows[PageSize][1], rows[n][1])
        BY <1>1, <1>5, <1>7, <2>2, <4>2 DEF InRank
      <4> QED
        BY <1>7, <2>2, <4>1, <4>3 DEF AfterCursor
    <3> QED
      BY <1>3, <1>15, <3>1, <3>2 DEF AtCursor
  <2>4. \A row : StillPasses(k, row)
    BY <2>2 DEF StillPasses
  <2> QED
    BY <1>3, <1>8, <1>11, <1>12, <2>2, <2>3, <2>4
       DEF ListingInv, ListingForm, Owed, Listed, Position
<1>18. CASE ~ further
  <2>1. page = rows /\ k.pc = "ended"
    BY <1>3, <1>18 DEF page
  <2>2. k.throughout \subseteq Range(all)
    <3>1. \A row \in S : row \in Range(all)
      BY <1>14, <1>16, <2>1
    <3> QED
      BY <1>3, <1>15, <3>1
  <2>3. \A row : StillPasses(k, row)
    BY <2>1 DEF StillPasses
  <2> QED
    BY <1>3, <1>8, <1>11, <1>12, <2>1, <2>2, <2>3
       DEF ListingInv, ListingForm, Owed, Listed, Position
<1> QED
  BY <1>17, <1>18
-----------------------------------------------------------------------------
(* A listing that was left alone, or only asked for what it has to know.   *)
LEMMA ListingKept ==
  ASSUME NEW l, UNCHANGED library, ListingInv(l)
  PROVE  ListingInv(l)'
<1>1. Owed(l)' = Owed(l) /\ AtCursor(l)' = AtCursor(l)
  BY DEF library, Owed, Listed, Position, InFeed, Muted, LanguagePasses, Matches, ReadPasses,
         Known, Mutes, EffectiveSources, EffectiveTopics, AtCursor, AfterCursor, Before
<1>2. \A row : ShownRow(l, row)' = ShownRow(l, row)
  BY DEF library, ShownRow
<1> QED
  BY <1>1, <1>2 DEF ListingInv, ListingForm, StillPasses, Sorted

(* What an owed item has to pass.                                          *)
LEMMA OwedPasses ==
  ASSUME NEW l, ListingInv(l), l.of = "feed", NEW row \in l.throughout
  PROVE  LET kind == Kind[row[2]]
             known == Known(l.filter) IN
         /\ known.sources # Omitted => kind.feed \in known.sources
         /\ kind.terms \cap known.mutes.words = {} /\ kind.topics \cap known.mutes.tags = {}
         /\ known.topics # Omitted => kind.topics \cap known.topics # {}
<1>1. PICK i \in Listed(l, Known(l.filter)) : row = <<Position(l, i), i>>
  BY DEF ListingInv, Owed
<1>2. row[2] = i /\ InFeed(i, l.filter, Known(l.filter))
  BY <1>1 DEF Listed
<1>3. Known(l.filter).mutes = Mutes
  BY DEF Known
<1> QED
  BY <1>2, <1>3 DEF InFeed, Muted

(* The next of the statements before the page's own has read what it reads.*)
Asked(l, k) ==
  /\ DOMAIN k = DOMAIN l /\ k.of = l.of /\ k.filter = l.filter /\ DOMAIN k.known = KnownFields
  /\ k.throughout = l.throughout /\ k.shown = l.shown /\ k.cursor = l.cursor
  /\ \/ /\ l.pc = "sources" /\ l.of = "feed" /\ k.pc = "mutes"
        /\ k.known.sources = EffectiveSources(l.filter)
     \/ /\ l.pc = "mutes" /\ k.pc = "topics"
        /\ k.known.sources = l.known.sources /\ k.known.mutes = Mutes
     \/ /\ l.pc = "topics" /\ k.pc = "select"
        /\ k.known.sources = l.known.sources /\ k.known.mutes = l.known.mutes
        /\ k.known.topics = EffectiveTopics(l.filter)
     \/ l.pc = "sources" /\ l.of = "bookmarks" /\ k.pc = "select"

LEMMA QuestionsAsked ==
  ASSUME NEW l, NEW k, ListingInv(l), Asked(l, k)
  PROVE  ListingInv(k)
<1>1. ListingForm(k)
  BY DEF ListingInv, ListingForm, Asked
<1>2. k.throughout \subseteq Owed(k)
  <2>1. Owed(k) = Owed(l)
    BY DEF Asked, Owed, Listed, Position
  <2> QED
    BY <2>1 DEF Asked, ListingInv
<1>3. ASSUME k.of = "feed", NEW row \in k.throughout
      PROVE  StillPasses(k, row[2])
  <2>0. l.of = "feed" /\ row \in l.throughout /\ StillPasses(l, row[2])
    BY <1>3 DEF Asked, ListingInv
  <2>1. LET kind == Kind[row[2]] IN
        /\ EffectiveSources(l.filter) # Omitted => kind.feed \in EffectiveSources(l.filter)
        /\ kind.terms \cap Mutes.words = {} /\ kind.topics \cap Mutes.tags = {}
        /\ EffectiveTopics(l.filter) # Omitted => kind.topics \cap EffectiveTopics(l.filter) # {}
    BY <2>0, OwedPasses DEF Known
  <2> QED
    BY <2>0, <2>1 DEF Asked, StillPasses
<1>4. \A row : ShownRow(k, row) = ShownRow(l, row)
  BY DEF Asked, ShownRow
<1>5. l.pc # "ended" /\ k.pc # "ended" /\ (AtCursor(l) => AtCursor(k))
  BY DEF Asked, AtCursor
<1> QED
  BY <1>1, <1>2, <1>3, <1>4, <1>5 DEF ListingInv, Asked

-----------------------------------------------------------------------------
(* The library moves on: an item stays where it was or goes for good, a    *)
(* bookmark stays or is set anew, today.                                   *)
LEMMA LibraryMoves ==
  ASSUME LibraryInv, Change
  PROVE  /\ LibraryInv'
         /\ taken \subseteq taken' /\ today <= today'
         /\ \A i \in taken \cap DOMAIN items' : i \in DOMAIN items /\ items'[i] = items[i]
         /\ \A i \in DOMAIN saved' :
              (i \in DOMAIN saved /\ saved'[i] = saved[i]) \/ saved'[i] >= today
<1>0. DOMAIN Kind \subseteq Nat /\ Days \subseteq Nat
  BY FeedAssumption
<1>1. CASE StoreItem
  <2>1. PICK i \in DOMAIN Kind \ taken, day \in {d \in Days : d <= today} :
          /\ taken' = taken \cup {i}
          /\ items' = [j \in DOMAIN items \cup {i} |-> IF j = i THEN day ELSE items[j]]
    BY <1>1 DEF StoreItem
  <2>2. UNCHANGED <<saved, today>>
    BY <1>1 DEF StoreItem
  <2>3. DOMAIN items' = DOMAIN items \cup {i} /\ i \notin DOMAIN items /\ i \in Nat /\ day \in Nat
    BY <1>0, <2>1 DEF LibraryInv
  <2>4. IsFiniteSet(DOMAIN items')
    BY <2>3, FS_AddElement DEF LibraryInv
  <2>5. \A j \in DOMAIN items' : items'[j] = IF j = i THEN day ELSE items[j]
    BY <2>1
  <2> QED
    BY <2>1, <2>2, <2>3, <2>4, <2>5 DEF LibraryInv
<1>2. CASE PruneItems
  <2>1. PICK cutoff \in Days :
          items' = [i \in {j \in DOMAIN items : items[j] >= cutoff \/ j \in DOMAIN saved}
                      |-> items[i]]
    BY <1>2, Zenon DEF PruneItems
  <2>2. UNCHANGED <<taken, saved, today>>
    BY <1>2 DEF PruneItems
  <2>3. /\ DOMAIN items' = {j \in DOMAIN items : items[j] >= cutoff \/ j \in DOMAIN saved}
        /\ \A i \in DOMAIN items' : items'[i] = items[i]
    BY <2>1
  <2>4. IsFiniteSet(DOMAIN items')
    BY <2>3, FS_Subset DEF LibraryInv
  <2> QED
    BY <2>2, <2>3, <2>4 DEF LibraryInv
<1>3. CASE SaveItem
  <2>1. PICK i \in DOMAIN items \ DOMAIN saved :
          saved' = [j \in DOMAIN saved \cup {i} |-> IF j = i THEN today ELSE saved[j]]
    BY <1>3 DEF SaveItem
  <2>2. UNCHANGED <<items, taken, today>>
    BY <1>3 DEF SaveItem
  <2>3. DOMAIN saved' = DOMAIN saved \cup {i} /\ i \in DOMAIN items
    BY <2>1
  <2>4. \A j \in DOMAIN saved' : saved'[j] = IF j = i THEN today ELSE saved[j]
    BY <2>1
  <2> QED
    BY <2>2, <2>3, <2>4 DEF LibraryInv
<1>4. CASE UnsaveItem
  <2>1. PICK i \in DOMAIN saved : saved' = [j \in DOMAIN saved \ {i} |-> saved[j]]
    BY <1>4 DEF UnsaveItem
  <2>2. UNCHANGED <<items, taken, today>>
    BY <1>4 DEF UnsaveItem
  <2>3. DOMAIN saved' = DOMAIN saved \ {i} /\ \A j \in DOMAIN saved' : saved'[j] = saved[j]
    BY <2>1
  <2> QED
    BY <2>2, <2>3 DEF LibraryInv
<1>5. CASE NextDay
  <2>1. UNCHANGED <<items, taken, saved>> /\ today' = today + 1
    BY <1>5 DEF NextDay
  <2> QED
    BY <2>1 DEF LibraryInv
<1>6. CASE MarkItem \/ ToggleCatalogue \/ ChangeProfile
  <2>1. UNCHANGED <<items, taken, saved, today>>
    BY <1>6 DEF MarkItem, ToggleCatalogue, ChangeProfile
  <2> QED
    BY <2>1 DEF LibraryInv
<1> QED
  BY <1>1, <1>2, <1>3, <1>4, <1>5, <1>6 DEF Change, Fill

(* After a change a listing has shown the same, and owes what it still has *)
(* to show where it was.                                                   *)
LEMMA ListingSurvives ==
  ASSUME LibraryInv, Change, NEW l, ListingInv(l), NEW k, DOMAIN k = DOMAIN l,
         k.of = l.of, k.filter = l.filter, k.known = l.known, k.pc = l.pc,
         k.shown = l.shown, k.cursor = l.cursor, k.throughout = l.throughout \cap Owed(l)'
  PROVE  ListingInv(k)'
<1>1. ListingForm(k)'
  BY DEF ListingInv, ListingForm
<1>2. (k.throughout \subseteq Owed(k))'
  <2>1. Owed(k)' = Owed(l)'
    BY DEF Owed, Listed, Position
  <2> QED
    BY <2>1
<1>3. (k.of = "feed" => \A row \in k.throughout : StillPasses(k, row[2]))'
  BY DEF ListingInv, StillPasses
<1>4. (Sorted(k.shown))'
  BY DEF ListingInv, Sorted
<1>5. (\A n \in DOMAIN k.shown : ShownRow(k, k.shown[n]))'
  <2> SUFFICES ASSUME NEW n \in DOMAIN l.shown
               PROVE  ShownRow(k, l.shown[n])'
    OBVIOUS
  <2>0. l.shown \in Seq(Rows)
    BY DEF ListingInv, ListingForm
  <2>1. l.shown[n][1][1] \in Nat /\ l.shown[n][2] \in Nat
    <3>1. n \in 1 .. Len(l.shown)
      BY <2>0, LenProperties
    <3>2. l.shown[n] \in Rows
      BY <2>0, <3>1, ElementOfSeq
    <3> QED
      BY <3>2 DEF Rows
  <2>2. ShownRow(l, l.shown[n])
    BY DEF ListingInv
  <2>3. today \in Nat /\ today' \in Nat /\ today <= today'
    BY LibraryMoves DEF LibraryInv
  <2>4. ASSUME k.of = "feed"
        PROVE  /\ l.shown[n][2] \in taken'
               /\ l.shown[n][2] \in DOMAIN items' => items'[l.shown[n][2]] = l.shown[n][1][1]
    BY <2>2, <2>4, LibraryMoves DEF ShownRow
  <2>5. ASSUME k.of = "bookmarks"
        PROVE  /\ l.shown[n][1][1] <= today'
               /\ l.shown[n][2] \in DOMAIN saved' => saved'[l.shown[n][2]] >= l.shown[n][1][1]
    <3>1. /\ l.shown[n][1][1] <= today
          /\ l.shown[n][2] \in DOMAIN saved => saved[l.shown[n][2]] >= l.shown[n][1][1]
      BY <2>2, <2>5 DEF ShownRow
    <3>2. \A i \in DOMAIN saved' :
            /\ saved'[i] \in Nat
            /\ (i \in DOMAIN saved /\ saved'[i] = saved[i]) \/ saved'[i] >= today
      BY LibraryMoves DEF LibraryInv
    <3> QED
      BY <2>1, <2>3, <3>1, <3>2
  <2> QED
    BY <2>4, <2>5 DEF ShownRow
<1>6. (k.pc # "ended" => AtCursor(k))'
  <2>1. AtCursor(k)' = AtCursor(k) /\ (AtCursor(l) => AtCursor(k))
    BY DEF AtCursor, AfterCursor, Before
  <2> QED
    BY <2>1 DEF ListingInv
<1>7. (k.pc = "ended" => k.throughout \subseteq Range(k.shown))'
  BY DEF ListingInv
<1> QED
  BY <1>1, <1>2, <1>3, <1>4, <1>5, <1>6, <1>7 DEF ListingInv

-----------------------------------------------------------------------------
LEMMA PagesStart == FeedInit => PagesInv
<1> SUFFICES ASSUME FeedInit
             PROVE  PagesInv
  OBVIOUS
<1>1. DOMAIN items = {} /\ DOMAIN saved = {} /\ taken = {} /\ today = 1
  BY DEF FeedInit
<1>2. LibraryInv
  BY <1>1, FS_EmptySet DEF LibraryInv
<1> QED
  BY <1>2 DEF FeedInit, PagesInv

LEMMA PagesStep == PagesInv /\ [FeedNext]_feedVars => PagesInv'
<1> SUFFICES ASSUME PagesInv, [FeedNext]_feedVars
             PROVE  PagesInv'
  OBVIOUS
<1>0. LibraryInv
  BY DEF PagesInv
<1>still. UNCHANGED library => LibraryInv'
  BY <1>0 DEF library, LibraryInv
<1>open. listing.pc # "closed" => ListingInv(listing)
  BY DEF PagesInv, NoListing
<1>1. CASE OpenListing
  <2>1. PICK of \in {"feed", "bookmarks"}, f \in Filters :
          LET l == [of |-> of, filter |-> f, pc |-> "sources", cursor |-> <<>>, shown |-> <<>>,
                    known |-> Known(f), throughout |-> {}] IN
          listing' = [l EXCEPT !.throughout = Owed(l)]
    BY <1>1 DEF OpenListing
  <2>2. PICK k : k = listing'
    OBVIOUS
  <2>3. ListingInv(k)
    <3> DEFINE l == [of |-> of, filter |-> f, pc |-> "sources", cursor |-> <<>>, shown |-> <<>>,
                     known |-> Known(f), throughout |-> {}]
    <3>1. /\ DOMAIN k = ListingFields /\ k.of = of /\ k.filter = f /\ k.pc = "sources"
          /\ k.cursor = <<>> /\ k.shown = <<>> /\ k.known = Known(f) /\ k.throughout = Owed(l)
      BY <2>1, <2>2 DEF ListingFields
    <3>2. Owed(k) = Owed(l)
      BY <3>1 DEF Owed, Listed, Position
    <3>3. DOMAIN k.known = KnownFields
      BY <3>1 DEF Known, KnownFields
    <3>4. k.shown \in Seq(Rows) /\ DOMAIN k.shown = {}
      BY <3>1
    <3> HIDE DEF l
    <3>5. ListingForm(k)
      BY <3>1, <3>3, <3>4 DEF ListingForm
    <3>6. AtCursor(k)
      BY <3>1 DEF AtCursor, AfterCursor
    <3> QED
      BY <3>1, <3>2, <3>4, <3>5, <3>6 DEF ListingInv, StillPasses, Sorted
  <2>4. UNCHANGED library
    BY <1>1 DEF OpenListing
  <2> QED
    BY <1>still, <2>2, <2>3, <2>4, ListingKept DEF PagesInv
<1>2. CASE AskSources \/ AskMutes \/ AskTopics \/ AskNothing
  <2>1. UNCHANGED library /\ listing.pc # "closed"
    BY <1>2 DEF AskSources, AskMutes, AskTopics, AskNothing
  <2>2. PICK k : k = listing'
    OBVIOUS
  <2>3. ListingInv(listing) /\ DOMAIN listing = ListingFields /\ DOMAIN listing.known = KnownFields
    BY <1>open, <2>1 DEF ListingInv, ListingForm
  <2>4. Asked(listing, k)
    <3>1. CASE AskSources
      BY <2>2, <2>3, <3>1 DEF AskSources, Asked, ListingFields, KnownFields
    <3>2. CASE AskMutes
      BY <2>2, <2>3, <3>2 DEF AskMutes, Asked, ListingFields, KnownFields
    <3>3. CASE AskTopics
      BY <2>2, <2>3, <3>3 DEF AskTopics, Asked, ListingFields, KnownFields
    <3>4. CASE AskNothing
      BY <2>2, <2>3, <3>4 DEF AskNothing, Asked, ListingFields, KnownFields
    <3> QED
      BY <1>2, <3>1, <3>2, <3>3, <3>4
  <2>5. ListingInv(k)
    BY <2>3, <2>4, QuestionsAsked
  <2> QED
    BY <1>still, <2>1, <2>2, <2>5, ListingKept DEF PagesInv
<1>3. CASE SelectPage
  <2>1. UNCHANGED library /\ listing.pc = "select"
    BY <1>3 DEF SelectPage
  <2>2. PICK k : k = listing'
    OBVIOUS
  <2>3. ListingInv(listing) /\ DOMAIN listing = ListingFields
    BY <1>open, <2>1 DEF ListingInv, ListingForm
  <2>4. Turned(listing, k)
    BY <1>3, <2>2, <2>3 DEF SelectPage, Turned, ListingFields
  <2>5. ListingInv(k)
    BY <1>0, <2>1, <2>3, <2>4, PageTurns
  <2> QED
    BY <1>still, <2>1, <2>2, <2>5, ListingKept DEF PagesInv
<1>4. CASE CloseListing
  BY <1>4, <1>still DEF CloseListing, PagesInv
<1>5. CASE Disturb
  <2>1. Change
    BY <1>5 DEF Disturb, Change
  <2>2. LibraryInv'
    BY <1>0, <2>1, LibraryMoves
  <2>3. PICK l \in {listing} :
          listing' = IF l.pc = "closed" THEN l ELSE [l EXCEPT !.throughout = @ \cap Owed(l)']
    BY <1>5 DEF Disturb, KeepAccount
  <2>4. CASE l.pc = "closed"
    <3>1. listing = NoListing
      BY <2>3, <2>4 DEF PagesInv, ListingInv, ListingForm
    <3>2. listing' = NoListing
      BY <2>3, <2>4, <3>1
    <3> QED
      BY <2>2, <3>2 DEF PagesInv
  <2>5. CASE l.pc # "closed"
    <3>1. ListingInv(l)
      BY <1>open, <2>3, <2>5
    <3>2. DOMAIN l = ListingFields
      BY <3>1 DEF ListingInv, ListingForm
    <3>3. PICK k : k = listing'
      OBVIOUS
    <3>4. k = [l EXCEPT !.throughout = @ \cap Owed(l)']
      BY <2>3, <2>5, <3>3
    <3>5. /\ DOMAIN k = DOMAIN l /\ k.of = l.of /\ k.filter = l.filter /\ k.known = l.known
          /\ k.pc = l.pc /\ k.shown = l.shown /\ k.cursor = l.cursor
          /\ k.throughout = l.throughout \cap Owed(l)'
      BY <3>2, <3>4 DEF ListingFields
    <3>6. ListingInv(k)'
      BY <1>0, <2>1, <3>1, <3>5, ListingSurvives
    <3> QED
      BY <2>2, <3>3, <3>6 DEF PagesInv
  <2> QED
    BY <2>4, <2>5
<1>6. CASE UNCHANGED feedVars
  <2>1. UNCHANGED library /\ listing' = listing
    BY <1>6 DEF feedVars, library
  <2>2. PICK k : k = listing
    OBVIOUS
  <2> QED
    BY <1>still, <2>1, <2>2, ListingKept DEF PagesInv
<1> QED
  BY <1>1, <1>2, <1>3, <1>4, <1>5, <1>6 DEF FeedNext

(* Whatever comes, goes or moves while a reader pages: no row out of order *)
(* or twice, and nothing left out that belonged to the listing throughout. *)
THEOREM ListingsStayWhole == FeedSpec => []ListingsAreWhole
<1>1. PagesInv => ListingsAreWhole
  BY DEF PagesInv, ListingInv, ListingsAreWhole, NoListing, Sorted
<1> QED
  BY <1>1, PagesStart, PagesStep, PTL DEF FeedSpec
-----------------------------------------------------------------------------
(***************************************************************************)
(* The client's list.                                                      *)
(***************************************************************************)

StateFields == {"key", "entries", "next", "loading", "status"}
Entries == [of : Screens, id : Nat]
Keys == [token : Nat, screen : Screens]
Requests == [id : Nat, key : Keys, page : Nat, aborted : BOOLEAN]

(* The cursor that page p comes with.                                      *)
After(p) == IF p = Pages THEN NoMore ELSE p + 1

LiveOf(all) == {r \in all : ~ r.aborted}

(* The requests: no two with one id; a live one is of the key whose        *)
(* effects have run; of a later page it is the one that "more" names, and  *)
(* of the first page the only one.  *)
RequestsInv ==
  /\ steps \in Nat
  /\ \A r \in requests :
       /\ r \in Requests /\ r.id \in 1 .. steps /\ r.page \in 1 .. Pages
       /\ \A q \in requests : q.id = r.id => q = r
  /\ \A r \in LiveOf(requests) :
       /\ r.key = effects
       /\ r.page > 1 => r.id = more
       /\ r.page = 1 => \A q \in LiveOf(requests) : q = r

OnceEach(s) == \A i, j \in DOMAIN s : s[i].id = s[j].id => i = j

(* The list: of its own filter, each entry once.                           *)
EntriesInv ==
  /\ DOMAIN state = StateFields /\ state.key \in Keys /\ state.entries \in Seq(Entries)
  /\ wanted \in Keys
  /\ \A i \in DOMAIN state.entries : state.entries[i].of = state.key.screen
  /\ OnceEach(state.entries)

(* All of the pages up to the cursor, but for what was removed.            *)
CoverInv ==
  state.status = "ready" /\ state.key.screen # "off" =>
    /\ \A i \in DOMAIN state.entries : state.entries[i].id \in 1 .. (Loaded + 1)
    /\ \A id \in 1 .. (Loaded + 1) :
         \/ \E i \in DOMAIN state.entries : state.entries[i].id = id
         \/ \E m \in gone : m.id = id /\ m.key = state.key

(* What was rendered is one page behind at most.                           *)
CursorInv ==
  /\ view.key = state.key
  /\ state.next \in (2 .. Pages) \cup {NoMore} /\ view.next \in (2 .. Pages) \cup {NoMore}
  /\ view.next # NoMore => state.next \in {view.next, After(view.next)}
  /\ \A r \in LiveOf(requests) :
       r.key = state.key =>
         IF r.page = 1
         THEN state.next = NoMore /\ view.next = NoMore /\ state.entries = <<>>
         ELSE /\ view.next \in {r.page, After(r.page)}
              /\ state.next \in {r.page, After(r.page)}
              /\ view.next = After(r.page) => state.next = After(r.page)
  /\ effects # view.key =>
       state.next = NoMore /\ view.next = NoMore /\ state.entries = <<>>

LoadingInv ==
  state.loading => \E r \in LiveOf(requests) : r.page > 1 /\ r.key = state.key

PagedInv == RequestsInv /\ EntriesInv /\ CoverInv /\ CursorInv /\ LoadingInv
-----------------------------------------------------------------------------
(* The numbers of a finite set can be put in order.                        *)
Increasing(f) == \A m, n \in DOMAIN f : m < n => f[m] < f[n]

LEMMA Enumeration ==
  ASSUME NEW I \in SUBSET Nat, IsFiniteSet(I)
  PROVE  \E f \in [1 .. Cardinality(I) -> I] : Increasing(f)
<1> DEFINE before == {pair \in I \X I : pair[1] < pair[2]}
<1>1. \A i, j \in I : <<i, j>> \in before <=> i < j
  OBVIOUS
<1> HIDE DEF before
<1>2. Orders(before, I)
  BY <1>1 DEF Orders
<1>3. PICK f : InLine(f, before, I)
  BY <1>2, LineExists
<1>4. f \in [1 .. Cardinality(I) -> I] /\ Increasing(f)
  BY <1>1, <1>3 DEF InLine, Increasing
<1> QED
  BY <1>4

(* Its numbers, one after the other, are all of the set.                   *)
LEMMA IncreasingIsOnto ==
  ASSUME NEW I \in SUBSET Nat, IsFiniteSet(I),
         NEW f \in [1 .. Cardinality(I) -> I], Increasing(f)
  PROVE  \A i \in I : \E n \in 1 .. Cardinality(I) : f[n] = i
<1> DEFINE k == Cardinality(I)
<1>1. k \in Nat
  BY FS_CardinalityType
<1>2. f \in Injection(1 .. k, I)
  <2>1. \A m, n \in 1 .. k : f[m] = f[n] => m = n
    <3> SUFFICES ASSUME NEW m \in 1 .. k, NEW n \in 1 .. k, f[m] = f[n], m # n
                 PROVE  FALSE
      OBVIOUS
    <3>1. m < n \/ n < m
      BY <1>1
    <3>2. f[m] \in Nat /\ f[n] \in Nat
      OBVIOUS
    <3> QED
      BY <3>1, <3>2 DEF Increasing
  <2> QED
    BY <2>1 DEF Injection, IsInjective
<1>3. IsFiniteSet(1 .. k) /\ Cardinality(1 .. k) = k
  BY <1>1, FS_Interval
<1>4. f \in Surjection(1 .. k, I)
  BY <1>2, <1>3, FS_Injection
<1> QED
  BY <1>4 DEF Surjection

(* What stays of a list of entries: exactly those of other ids, each once  *)
(* if each was there once.                                                 *)
Keeps(w, s, ids) ==
  /\ \A n \in DOMAIN w : \E i \in DOMAIN s : w[n] = s[i] /\ s[i].id \notin ids
  /\ \A i \in DOMAIN s : s[i].id \notin ids => \E n \in DOMAIN w : w[n] = s[i]
  /\ OnceEach(s) => OnceEach(w)

LEMMA WithoutIs ==
  ASSUME NEW A, NEW s \in Seq(A), NEW ids
  PROVE  Without(s, ids) \in Seq(A) /\ Keeps(Without(s, ids), s, ids)
<1> DEFINE stay == {i \in DOMAIN s : s[i].id \notin ids}
           k == Cardinality(stay)
           place == CHOOSE f \in [1 .. k -> stay] :
                      \A m, n \in DOMAIN f : m < n => f[m] < f[n]
           w == [n \in 1 .. k |-> s[place[n]]]
<1>1. Without(s, ids) = w
  BY Zenon DEF Without
<1>2. DOMAIN s = 1 .. Len(s) /\ Len(s) \in Nat /\ \A i \in DOMAIN s : s[i] \in A
  BY LenProperties, ElementOfSeq
<1>3. stay \in SUBSET Nat /\ IsFiniteSet(stay)
  <2>1. IsFiniteSet(1 .. Len(s))
    BY <1>2, FS_Interval
  <2> QED
    BY <1>2, <2>1, FS_Subset
<1> HIDE DEF stay
<1>4. k \in Nat
  BY <1>3, FS_CardinalityType
<1>5. place \in [1 .. k -> stay] /\ Increasing(place)
  <2>1. \E f \in [1 .. k -> stay] : Increasing(f)
    BY <1>3, Enumeration
  <2> QED
    BY <2>1, Zenon DEF Increasing
<1> HIDE DEF place
<1>6. \A i \in stay : \E n \in 1 .. k : place[n] = i
  <2> QED
    BY <1>3, <1>5, IncreasingIsOnto
<1>7. \A n \in 1 .. k : place[n] \in DOMAIN s /\ s[place[n]].id \notin ids /\ w[n] = s[place[n]]
  BY <1>5 DEF stay
<1>8. w \in Seq(A)
  BY <1>2, <1>4, <1>7
<1>9. \A i \in DOMAIN s : s[i].id \notin ids => \E n \in 1 .. k : w[n] = s[i]
  BY <1>6, <1>7 DEF stay
<1>10. ASSUME OnceEach(s)
       PROVE  OnceEach(w)
  <2> SUFFICES ASSUME NEW m \in 1 .. k, NEW n \in 1 .. k, w[m].id = w[n].id, m # n
               PROVE  FALSE
    BY DEF OnceEach
  <2>1. place[m] = place[n] /\ place[m] \in Nat
    BY <1>2, <1>7, <1>10 DEF OnceEach
  <2>2. m < n \/ n < m
    BY <1>4
  <2> QED
    BY <1>5, <2>1, <2>2 DEF Increasing
<1> QED
  BY <1>1, <1>7, <1>8, <1>9, <1>10 DEF Keeps

(* A page is added to a list: everything of both, each once.               *)
Merges(all, s, page) ==
  /\ OnceEach(all)
  /\ \A n \in DOMAIN all : (\E i \in DOMAIN s : all[n] = s[i])
                           \/ (\E i \in DOMAIN page : all[n] = page[i])
  /\ \A i \in DOMAIN s : \E n \in DOMAIN all : all[n] = s[i]
  /\ \A i \in DOMAIN page : \E n \in DOMAIN all : all[n].id = page[i].id

LEMMA MergeIs ==
  ASSUME NEW A, NEW s \in Seq(A), NEW page \in Seq(A), OnceEach(s), OnceEach(page)
  PROVE  MergeUnique(s, page) \in Seq(A) /\ Merges(MergeUnique(s, page), s, page)
<1> DEFINE shown == {s[i].id : i \in DOMAIN s}
           w == Without(page, shown)
           all == s \o w
<1>1. MergeUnique(s, page) = all
  BY Zenon DEF MergeUnique
<1>2. /\ w \in Seq(A)
      /\ \A n \in DOMAIN w : \E i \in DOMAIN page : w[n] = page[i] /\ page[i].id \notin shown
      /\ \A i \in DOMAIN page : page[i].id \notin shown => \E n \in DOMAIN w : w[n] = page[i]
      /\ OnceEach(w)
  <2> HIDE DEF shown
  <2>1. w \in Seq(A) /\ Keeps(w, page, shown)
    BY WithoutIs
  <2> QED
    BY <2>1 DEF Keeps
<1> HIDE DEF w, shown
<1>3. /\ Len(s) \in Nat /\ Len(w) \in Nat
      /\ DOMAIN s = 1 .. Len(s) /\ DOMAIN w = 1 .. Len(w)
  BY <1>2, LenProperties
<1>4. all \in Seq(A) /\ DOMAIN all = 1 .. Len(s) + Len(w)
  BY <1>2, ConcatProperties, LenProperties
<1>5. \A n \in 1 .. Len(s) : n \in DOMAIN all /\ all[n] = s[n]
  BY <1>2, <1>3, <1>4, ConcatProperties
<1>6. \A n \in 1 .. Len(w) : Len(s) + n \in DOMAIN all /\ all[Len(s) + n] = w[n]
  BY <1>2, <1>3, <1>4, ConcatProperties
<1>7. \A n \in DOMAIN all : \/ n \in 1 .. Len(s) /\ all[n] = s[n]
                            \/ /\ n > Len(s) /\ n - Len(s) \in 1 .. Len(w)
                               /\ all[n] = w[n - Len(s)]
  <2> TAKE n \in DOMAIN all
  <2>1. CASE n <= Len(s)
    BY <1>3, <1>4, <1>5, <2>1
  <2>2. CASE n > Len(s)
    <3>1. n - Len(s) \in 1 .. Len(w) /\ Len(s) + (n - Len(s)) = n
      BY <1>3, <1>4, <2>2
    <3> QED
      BY <1>6, <2>2, <3>1
  <2> QED
    BY <1>3, <1>4, <2>1, <2>2
<1> HIDE DEF all
<1>8. OnceEach(all)
  <2> SUFFICES ASSUME NEW m \in DOMAIN all, NEW n \in DOMAIN all, all[m].id = all[n].id
               PROVE  m = n
    BY DEF OnceEach
  <2>0. m \in Nat /\ n \in Nat
    BY <1>3, <1>4
  <2>1. CASE m \in 1 .. Len(s) /\ n \in 1 .. Len(s)
    BY <1>3, <1>5, <2>1 DEF OnceEach
  <2>2. CASE m \notin 1 .. Len(s) /\ n \notin 1 .. Len(s)
    <3>1. m - Len(s) = n - Len(s)
      BY <1>2, <1>3, <1>7, <2>2 DEF OnceEach
    <3> QED
      BY <1>3, <2>0, <3>1
  <2>3. ASSUME NEW i \in DOMAIN all, NEW j \in DOMAIN all, i \in 1 .. Len(s),
               j \notin 1 .. Len(s)
        PROVE  all[i].id # all[j].id
    <3>1. all[i].id \in shown
      BY <1>3, <1>5, <2>3 DEF shown
    <3>2. all[j].id \notin shown
      BY <1>2, <1>3, <1>7, <2>3
    <3> QED
      BY <3>1, <3>2
  <2> QED
    BY <2>1, <2>2, <2>3
<1>9. \A n \in DOMAIN all : (\E i \in DOMAIN s : all[n] = s[i])
                            \/ (\E i \in DOMAIN page : all[n] = page[i])
  BY <1>2, <1>3, <1>7
<1>10. \A i \in DOMAIN page : \E n \in DOMAIN all : all[n].id = page[i].id
  <2> TAKE i \in DOMAIN page
  <2>1. CASE page[i].id \in shown
    BY <1>3, <1>5, <2>1 DEF shown
  <2>2. CASE page[i].id \notin shown
    BY <1>2, <1>3, <1>6, <2>2
  <2> QED
    BY <2>1, <2>2
<1> QED
  BY <1>1, <1>3, <1>4, <1>5, <1>8, <1>9, <1>10 DEF Merges
-----------------------------------------------------------------------------
(* A fresh hook.                                                           *)
LEMMA FreshIs ==
  ASSUME NEW key \in Keys
  PROVE  LET fresh == FreshState(key) IN
         /\ DOMAIN fresh = StateFields /\ fresh.key = key /\ fresh.entries = <<>>
         /\ fresh.entries \in Seq(Entries) /\ fresh.next = NoMore /\ fresh.loading = FALSE
         /\ fresh.status = "ready" => key.screen = "off"
BY DEF FreshState, StateFields

LEMMA UnmountedIs == Unmounted \in Keys /\ Unmounted.screen = "off"
BY PagedAssumption DEF Unmounted, Keys

(* What is there when nothing is asked for.                                *)
LEMMA FreshHook ==
  ASSUME requests = {}, steps = 0, wanted = Unmounted, effects = Unmounted,
         state = FreshState(Unmounted), view = FreshState(Unmounted)
  PROVE  PagedInv
<1>1. /\ DOMAIN state = StateFields /\ state.key = Unmounted /\ state.entries = <<>>
      /\ state.entries \in Seq(Entries) /\ state.next = NoMore /\ state.loading = FALSE
      /\ view.key = Unmounted /\ view.next = NoMore
  BY UnmountedIs, FreshIs
<1>2. DOMAIN state.entries = {}
  BY <1>1
<1>3. RequestsInv
  BY DEF RequestsInv, LiveOf
<1>4. EntriesInv
  BY <1>1, <1>2, UnmountedIs DEF EntriesInv, OnceEach
<1>5. CoverInv
  BY <1>1, UnmountedIs DEF CoverInv
<1>6. CursorInv
  BY <1>1 DEF CursorInv, LiveOf
<1>7. LoadingInv
  BY <1>1 DEF LoadingInv
<1> QED
  BY <1>3, <1>4, <1>5, <1>6, <1>7 DEF PagedInv

-----------------------------------------------------------------------------
(* The filter changes, or the list is to be loaded again: nothing yet.     *)
LEMMA WantedStep ==
  ASSUME PagedInv, ChangeFilter \/ Reload
  PROVE  PagedInv'
<1>1. /\ UNCHANGED <<state, view, effects, requests, more, removals, gone>>
      /\ steps' = steps + 1
  BY DEF ChangeFilter, Reload, Counted
<1>2. RequestsInv'
  BY <1>1 DEF PagedInv, RequestsInv, LiveOf
<1>3. wanted' \in Keys
  <2>1. CASE ChangeFilter
    <3>1. PICK s \in Screens : wanted' = [wanted EXCEPT !.screen = s]
      BY <2>1 DEF ChangeFilter
    <3> QED
      BY <3>1 DEF PagedInv, EntriesInv, Keys
  <2>2. CASE Reload
    BY <2>2 DEF Reload, PagedInv, EntriesInv, Keys
  <2> QED
    BY <2>1, <2>2
<1> QED
  BY <1>1, <1>2, <1>3 DEF PagedInv, EntriesInv, CoverInv, Loaded, CursorInv, LoadingInv, LiveOf

(* A render under another key starts from nothing.                         *)
LEMMA RenderStep ==
  ASSUME PagedInv, Render
  PROVE  PagedInv'
<1>0. UNCHANGED <<wanted, effects, requests, more, removals, gone, steps>> /\ view' = state'
      /\ effects = view.key /\ view.key = state.key /\ wanted \in Keys
  BY DEF Render, PagedInv, CursorInv, EntriesInv
<1>1. RequestsInv'
  BY <1>0 DEF PagedInv, RequestsInv, LiveOf
<1>2. CASE state.key = wanted
  <2>1. state' = state
    BY <1>2 DEF Render
  <2>2. CursorInv'
    BY <1>0, <2>1 DEF PagedInv, CursorInv, LiveOf
  <2> QED
    BY <1>0, <1>1, <2>1, <2>2 DEF PagedInv, EntriesInv, CoverInv, Loaded, LoadingInv, LiveOf
<1>3. CASE state.key # wanted
  <2>1. state' = FreshState(wanted)
    BY <1>3 DEF Render
  <2>2. /\ DOMAIN state' = StateFields /\ state'.key = wanted /\ state'.entries = <<>>
        /\ state'.entries \in Seq(Entries) /\ state'.next = NoMore /\ state'.loading = FALSE
        /\ state'.status = "ready" => wanted.screen = "off"
    BY <1>0, <2>1, FreshIs
  <2>3. DOMAIN state'.entries = {}
    BY <2>2
  <2>4. EntriesInv'
    BY <1>0, <2>2, <2>3 DEF EntriesInv, OnceEach
  <2>5. CoverInv'
    BY <2>2 DEF CoverInv
  <2>6. CursorInv'
    <3>1. \A r \in LiveOf(requests) : r.key # wanted
      BY <1>0, <1>3 DEF PagedInv, RequestsInv
    <3> QED
      BY <1>0, <2>2, <3>1 DEF CursorInv, LiveOf
  <2>7. LoadingInv'
    BY <2>2 DEF LoadingInv
  <2> QED
    BY <1>1, <2>4, <2>5, <2>6, <2>7 DEF PagedInv
<1> QED
  BY <1>2, <1>3

(* The effects of a key: what the key before asked for is aborted.         *)
LEMMA EffectsStep ==
  ASSUME PagedInv, RunEffects
  PROVE  PagedInv'
<1> DEFINE ends(r) == r.page = 1 \/ r.id = more
           first == [id |-> steps', key |-> view.key, page |-> 1, aborted |-> FALSE]
<1>0. /\ UNCHANGED <<wanted, state, view, removals, gone>>
      /\ effects # view.key /\ effects' = view.key /\ steps' = steps + 1 /\ more' = NoRequest
      /\ steps \in Nat /\ view.key = state.key /\ view.key \in Keys
  BY DEF RunEffects, Counted, PagedInv, RequestsInv, CursorInv, EntriesInv
<1>1. requests' = {r \in requests : ~ ends(r)} \cup Aborted({r \in requests : ends(r)})
                  \cup (IF view.key.screen = "off" THEN {} ELSE {first})
  BY Zenon DEF RunEffects
<1>2. \A r \in requests :
        /\ r \in Requests /\ r.id \in 1 .. steps /\ r.page \in 1 .. Pages
        /\ \A q \in requests : q.id = r.id => q = r
  BY DEF PagedInv, RequestsInv
<1>3. \A r \in requests' :
        \/ r \in requests /\ ~ ends(r)
        \/ \E q \in requests : ends(q) /\ r = [q EXCEPT !.aborted = TRUE]
        \/ r = first
  BY <1>1 DEF Aborted
<1>4. \A r \in requests : ~ ends(r) => r.aborted
  <2> SUFFICES ASSUME NEW r \in requests, ~ ends(r), ~ r.aborted
               PROVE  FALSE
    OBVIOUS
  <2>1. r \in LiveOf(requests) /\ r.page > 1
    BY <1>2, PagedAssumption DEF LiveOf
  <2> QED
    BY <2>1 DEF PagedInv, RequestsInv
<1>5. ASSUME NEW q \in requests, NEW r, r = [q EXCEPT !.aborted = TRUE]
      PROVE  /\ r \in Requests /\ r.id = q.id /\ r.key = q.key /\ r.page = q.page
             /\ r.aborted = TRUE
  <2>1. q \in Requests
    BY <1>2
  <2> QED
    BY <1>5, <2>1 DEF Requests
<1>6. /\ first \in Requests
      /\ first.id = steps + 1 /\ first.page = 1 /\ first.key = view.key /\ first.aborted = FALSE
  BY <1>0 DEF Requests
<1> HIDE DEF first, ends
<1>7. \A r \in requests' : r = first \/ r.aborted = TRUE
  <2> TAKE r \in requests'
  <2>1. CASE r \in requests /\ ~ ends(r)
    <3>1. r.aborted /\ r \in Requests
      BY <1>2, <1>4, <2>1
    <3> QED
      BY <3>1 DEF Requests
  <2>2. CASE \E q \in requests : ends(q) /\ r = [q EXCEPT !.aborted = TRUE]
    BY <1>5, <2>2
  <2> QED
    BY <1>3, <2>1, <2>2
<1>8. LiveOf(requests') \subseteq {first}
  BY <1>7 DEF LiveOf
<1>9. RequestsInv'
  <2>1. \A r \in requests' :
          /\ r \in Requests /\ r.page \in 1 .. Pages
          /\ r = first \/ r.id \in 1 .. steps
    <3> TAKE r \in requests'
    <3>1. CASE r \in requests
      BY <1>2, <3>1
    <3>2. CASE \E q \in requests : ends(q) /\ r = [q EXCEPT !.aborted = TRUE]
      <4>1. PICK q \in requests : r = [q EXCEPT !.aborted = TRUE]
        BY <3>2
      <4>2. r \in Requests /\ r.id = q.id /\ r.page = q.page
        BY <1>5, <4>1
      <4> QED
        BY <1>2, <4>2
    <3>3. CASE r = first
      BY <1>6, <3>3, PagedAssumption
    <3> QED
      BY <1>3, <3>1, <3>2, <3>3
  <2>2. \A r, q \in requests' : q.id = r.id => q = r
    <3> SUFFICES ASSUME NEW r \in requests', NEW q \in requests', q.id = r.id
                 PROVE  q = r
      OBVIOUS
    <3>1. CASE r = first \/ q = first
      BY <1>0, <1>6, <2>1, <3>1
    <3>2. CASE r # first /\ q # first
      <4> DEFINE From(t, a) == \/ t = a /\ ~ ends(a)
                               \/ ends(a) /\ t = [a EXCEPT !.aborted = TRUE]
      <4>1. PICK a \in requests : From(r, a)
        BY <1>3, <3>2
      <4>2. PICK b \in requests : From(q, b)
        BY <1>3, <3>2
      <4>3. r.id = a.id /\ q.id = b.id
        BY <1>5, <4>1, <4>2
      <4>4. a = b
        BY <1>2, <4>3
      <4> QED
        BY <4>1, <4>2, <4>4
    <3> QED
      BY <3>1, <3>2
  <2>3. \A r \in requests' : r.id \in 1 .. (steps + 1)
    BY <1>0, <1>6, <2>1
  <2> QED
    BY <1>0, <1>6, <1>8, <2>1, <2>2, <2>3 DEF RequestsInv
<1>10. CursorInv'
  BY <1>0, <1>6, <1>8 DEF PagedInv, CursorInv
<1>11. LoadingInv'
  <2>1. ~ state.loading
    BY <1>0 DEF PagedInv, LoadingInv, RequestsInv
  <2> QED
    BY <1>0, <2>1 DEF LoadingInv
<1> QED
  BY <1>0, <1>9, <1>10, <1>11 DEF PagedInv, EntriesInv, CoverInv, Loaded
-----------------------------------------------------------------------------
(* The next page is asked for: nothing else is on its way.                 *)
LEMMA MoreStep ==
  ASSUME PagedInv, LoadMore
  PROVE  PagedInv'
<1> DEFINE new == [id |-> steps', key |-> view.key, page |-> view.next, aborted |-> FALSE]
<1>0. /\ UNCHANGED <<wanted, view, effects, removals, gone>>
      /\ steps' = steps + 1 /\ steps \in Nat /\ more' = steps + 1 /\ more = NoRequest
      /\ view.next # NoMore /\ view.key = state.key /\ view.key \in Keys
      /\ requests' = requests \cup {new}
      /\ state' = [state EXCEPT !.loading = TRUE]
  BY DEF LoadMore, Counted, PagedInv, RequestsInv, CursorInv, EntriesInv, Set
<1>1. effects = view.key /\ view.next \in 2 .. Pages
  BY <1>0 DEF PagedInv, CursorInv
<1>2. LiveOf(requests) = {}
  <2> SUFFICES ASSUME NEW r \in LiveOf(requests)
               PROVE  FALSE
    OBVIOUS
  <2>1. r.key = state.key /\ r.page \in 1 .. Pages /\ r.id \in 1 .. steps
    BY <1>0, <1>1 DEF PagedInv, RequestsInv, LiveOf
  <2>2. CASE r.page = 1
    BY <1>0, <2>1, <2>2 DEF PagedInv, CursorInv
  <2>3. CASE r.page # 1
    BY <1>0, <2>1, <2>3, PagedAssumption DEF PagedInv, RequestsInv, NoRequest
  <2> QED
    BY <2>2, <2>3
<1>3. /\ DOMAIN state' = StateFields /\ state'.key = state.key /\ state'.entries = state.entries
      /\ state'.next = state.next /\ state'.status = state.status /\ state'.loading = TRUE
  BY <1>0 DEF PagedInv, EntriesInv, StateFields
<1>4. /\ new \in Requests /\ new.id = steps + 1 /\ new.page = view.next /\ new.key = view.key
      /\ new.aborted = FALSE
  BY <1>0, <1>1, PagedAssumption DEF Requests
<1> HIDE DEF new
<1>5. LiveOf(requests') = {new}
  BY <1>0, <1>2, <1>4 DEF LiveOf
<1>6. RequestsInv'
  <2>1. \A r \in requests' :
          /\ r \in Requests /\ r.id \in 1 .. steps' /\ r.page \in 1 .. Pages
          /\ \A q \in requests' : q.id = r.id => q = r
    <3>1. \A r \in requests :
            /\ r \in Requests /\ r.id \in 1 .. steps /\ r.page \in 1 .. Pages
            /\ \A q \in requests : q.id = r.id => q = r
      BY DEF PagedInv, RequestsInv
    <3>2. steps' \in Nat /\ steps + 1 \in 1 .. steps' /\ steps + 1 \notin 1 .. steps
          /\ 1 .. steps \subseteq 1 .. steps' /\ view.next \in 1 .. Pages
      BY <1>0, <1>1, PagedAssumption
    <3>3. \A r \in requests' : r \in requests \/ r = new
      BY <1>0
    <3> QED
      BY <1>4, <3>1, <3>2, <3>3
  <2>2. /\ new.key = effects' /\ new.id = more' /\ new.page # 1
    BY <1>0, <1>1, <1>4
  <2>3. steps' \in Nat
    BY <1>0
  <2>5. \A r \in LiveOf(requests') : r = new
    BY <1>5
  <2>4. \A r \in LiveOf(requests') :
          /\ r.key = effects'
          /\ r.page > 1 => r.id = more'
          /\ r.page = 1 => \A q \in LiveOf(requests') : q = r
    BY <2>2, <2>5
  <2> QED
    BY <2>1, <2>3, <2>4 DEF RequestsInv
<1>7. EntriesInv'
  BY <1>0, <1>3 DEF PagedInv, EntriesInv, OnceEach
<1>8. CoverInv'
  BY <1>0, <1>3 DEF PagedInv, CoverInv, Loaded
<1>9. CursorInv'
  <2>1. After(view.next) # view.next
    BY <1>1, PagedAssumption DEF After
  <2>2. new.page # 1 /\ new.key = state.key /\ new.page = view.next /\ view.next # NoMore
    BY <1>0, <1>1, <1>4, PagedAssumption
  <2>3. /\ state.next \in (2 .. Pages) \cup {NoMore} /\ view.next \in (2 .. Pages) \cup {NoMore}
        /\ state.next \in {view.next, After(view.next)}
    BY <1>0 DEF PagedInv, CursorInv
  <2> QED
    BY <1>0, <1>1, <1>3, <1>5, <2>1, <2>2, <2>3 DEF CursorInv
<1>10. LoadingInv'
  <2>1. new.page > 1 /\ new.key = state.key
    BY <1>0, <1>1, <1>4, PagedAssumption
  <2> QED
    BY <1>3, <1>5, <2>1 DEF LoadingInv
<1> QED
  BY <1>6, <1>7, <1>8, <1>9, <1>10 DEF PagedInv

-----------------------------------------------------------------------------
(* A request is over: it is forgotten, and "more" still names the live one.*)
LEMMA RequestOver ==
  ASSUME PagedInv, NEW r \in requests, requests' = requests \ {r}, more' = Forgotten(r),
         UNCHANGED <<effects, steps>>
  PROVE  /\ RequestsInv'
         /\ LiveOf(requests') = LiveOf(requests) \ {r}
         /\ ~ r.aborted => LiveOf(requests') = {}
<1>1. LiveOf(requests') = LiveOf(requests) \ {r}
  BY DEF LiveOf
<1>2. \A q \in LiveOf(requests) \ {r} : q.page > 1 => more' = more
  BY DEF PagedInv, RequestsInv, LiveOf, Forgotten
<1>3. ASSUME ~ r.aborted
      PROVE  LiveOf(requests') = {}
  <2> SUFFICES ASSUME NEW q \in LiveOf(requests) \ {r}
               PROVE  FALSE
    BY <1>1
  <2>1. /\ r \in LiveOf(requests) /\ q \in requests /\ r.page \in 1 .. Pages
        /\ q.page \in 1 .. Pages
    BY <1>3 DEF LiveOf, PagedInv, RequestsInv
  <2>2. r.page # 1 /\ q.page # 1
    BY <2>1 DEF PagedInv, RequestsInv
  <2>3. r.id = more /\ q.id = more
    BY <2>1, <2>2, PagedAssumption DEF PagedInv, RequestsInv
  <2> QED
    BY <2>1, <2>3 DEF PagedInv, RequestsInv
<1>4. RequestsInv'
  BY <1>1, <1>2 DEF PagedInv, RequestsInv
<1> QED
  BY <1>1, <1>3, <1>4

(* An answer nobody waits for changes nothing that is shown.               *)
LEMMA OverForNothing ==
  ASSUME PagedInv, NEW r \in requests, requests' = requests \ {r}, more' = Forgotten(r),
         UNCHANGED <<wanted, view, effects, removals, gone, steps, state>>,
         r.aborted \/ r.key # state.key
  PROVE  PagedInv'
<1>1. RequestsInv' /\ LiveOf(requests') = LiveOf(requests) \ {r}
  BY RequestOver
<1>2. LoadingInv'
  BY <1>1 DEF PagedInv, LoadingInv, LiveOf
<1>3. CursorInv'
  BY <1>1 DEF PagedInv, CursorInv
<1> QED
  BY <1>1, <1>2, <1>3 DEF PagedInv, EntriesInv, CoverInv, Loaded

LEMMA PageIsOf ==
  ASSUME NEW key \in Keys, NEW p \in 1 .. Pages
  PROVE  LET page == Page(key, p) IN
         /\ page \in Seq(Entries) /\ DOMAIN page = 1 .. 2 /\ OnceEach(page)
         /\ page[1].id = p /\ page[2].id = p + 1
         /\ page[1].of = key.screen /\ page[2].of = key.screen
<1>1. Page(key, p) = <<[of |-> key.screen, id |-> p], [of |-> key.screen, id |-> p + 1]>>
  BY DEF Page
<1>2. p \in Nat /\ p + 1 \in Nat /\ key.screen \in Screens
  BY PagedAssumption DEF Keys
<1> QED
  BY <1>1, <1>2 DEF Entries, OnceEach

(* What the page that was waited for makes of the list.                    *)
LEMMA ListGrows ==
  ASSUME PagedInv, NEW r \in requests, ~ r.aborted, r.key = state.key,
         requests' = requests \ {r}, more' = Forgotten(r),
         UNCHANGED <<wanted, view, effects, removals, gone, steps>>,
         DOMAIN state' = StateFields, state'.key = state.key,
         state'.entries = IF r.page = 1 THEN Page(r.key, 1)
                          ELSE MergeUnique(state.entries, Page(r.key, r.page)),
         state'.next = After(r.page),
         r.page = 1 => state'.loading = state.loading,
         r.page # 1 => state'.loading = FALSE /\ state'.status = state.status
  PROVE  PagedInv'
<1> DEFINE page == Page(r.key, r.page)
           p == r.page
           now == state'.entries
<1>0. /\ RequestsInv' /\ LiveOf(requests') = {} /\ r \in LiveOf(requests)
      /\ p \in 1 .. Pages /\ r.key \in Keys /\ Pages \in Nat
  BY RequestOver, PagedAssumption DEF LiveOf, PagedInv, RequestsInv, Requests
<1>1. /\ page \in Seq(Entries) /\ DOMAIN page = 1 .. 2 /\ OnceEach(page)
      /\ page[1].id = p /\ page[2].id = p + 1
      /\ page[1].of = state.key.screen /\ page[2].of = state.key.screen
  BY <1>0, PageIsOf
<1>2. \A i \in DOMAIN page : page[i].id \in {p, p + 1} /\ page[i].of = state.key.screen
  BY <1>1
<1>3. state.entries \in Seq(Entries) /\ OnceEach(state.entries)
  BY DEF PagedInv, EntriesInv
<1> HIDE DEF page
<1>4. /\ now \in Seq(Entries) /\ OnceEach(now)
      /\ \A n \in DOMAIN now : (p # 1 /\ \E i \in DOMAIN state.entries : now[n] = state.entries[i])
                               \/ (\E i \in DOMAIN page : now[n] = page[i])
      /\ p # 1 => \A i \in DOMAIN state.entries : \E n \in DOMAIN now : now[n] = state.entries[i]
      /\ \A i \in DOMAIN page : \E n \in DOMAIN now : now[n].id = page[i].id
  <2>1. CASE p = 1
    <3>1. now = page
      BY <2>1 DEF page
    <3> QED
      BY <1>1, <2>1, <3>1
  <2>2. CASE p # 1
    <3>1. now = MergeUnique(state.entries, page)
      BY <2>2 DEF page
    <3>2. Merges(MergeUnique(state.entries, page), state.entries, page)
      BY <1>1, <1>3, MergeIs, Zenon
    <3> HIDE DEF now
    <3>3. Merges(now, state.entries, page) /\ now \in Seq(Entries)
      <4>1. MergeUnique(state.entries, page) \in Seq(Entries)
        BY <1>1, <1>3, MergeIs, Zenon
      <4> QED
        BY <3>1, <3>2, <4>1
    <3> QED
      BY <2>2, <3>3 DEF Merges
  <2> QED
    BY <2>1, <2>2
<1> HIDE DEF now
<1>5. EntriesInv'
  <2>1. \A n \in DOMAIN now : now[n].of = state.key.screen
    BY <1>2, <1>4 DEF PagedInv, EntriesInv
  <2> QED
    BY <1>4, <2>1 DEF PagedInv, EntriesInv, now
<1>6. Loaded' = p
  BY <1>0, PagedAssumption DEF Loaded, After
<1>7. ASSUME p # 1
      PROVE  Loaded \in {p - 1, p}
  <2>1. state.next \in {p, After(p)}
    BY <1>0, <1>7 DEF PagedInv, CursorInv
  <2> QED
    BY <1>0, <2>1, PagedAssumption DEF Loaded, After
<1>8. CoverInv'
  <2> SUFFICES ASSUME state'.status = "ready", state.key.screen # "off"
               PROVE  /\ \A n \in DOMAIN now : now[n].id \in 1 .. (p + 1)
                      /\ \A id \in 1 .. (p + 1) :
                           \/ \E n \in DOMAIN now : now[n].id = id
                           \/ \E m \in gone : m.id = id /\ m.key = state.key
    BY <1>6 DEF CoverInv, now
  <2>1. ASSUME p # 1
        PROVE  /\ \A i \in DOMAIN state.entries : state.entries[i].id \in 1 .. (p + 1)
               /\ \A id \in 1 .. p :
                    \/ \E i \in DOMAIN state.entries : state.entries[i].id = id
                    \/ \E m \in gone : m.id = id /\ m.key = state.key
    <3>1. /\ \A i \in DOMAIN state.entries : state.entries[i].id \in 1 .. (Loaded + 1)
          /\ \A id \in 1 .. (Loaded + 1) :
               \/ \E i \in DOMAIN state.entries : state.entries[i].id = id
               \/ \E m \in gone : m.id = id /\ m.key = state.key
      BY <2>1 DEF PagedInv, CoverInv
    <3>2. 1 .. p \subseteq 1 .. (Loaded + 1) /\ 1 .. (Loaded + 1) \subseteq 1 .. (p + 1)
      BY <1>0, <1>7, <2>1
    <3> QED
      BY <3>1, <3>2
  <2>2. \A n \in DOMAIN now : now[n].id \in 1 .. (p + 1)
    <3>1. p \in 1 .. (p + 1) /\ p + 1 \in 1 .. (p + 1)
      BY <1>0
    <3> TAKE n \in DOMAIN now
    <3>2. CASE p # 1 /\ \E i \in DOMAIN state.entries : now[n] = state.entries[i]
      BY <2>1, <3>2
    <3>3. CASE \E i \in DOMAIN page : now[n] = page[i]
      BY <1>2, <3>1, <3>3
    <3> QED
      BY <1>4, <3>2, <3>3
  <2>3. \A id \in {p, p + 1} : \E n \in DOMAIN now : now[n].id = id
    <3>1. 1 \in DOMAIN page /\ 2 \in DOMAIN page
      BY <1>1
    <3> QED
      BY <1>1, <1>4, <3>1
  <2>4. \A id \in 1 .. (p + 1) : id \in {p, p + 1} \/ (p # 1 /\ id \in 1 .. p)
    BY <1>0
  <2> QED
    BY <1>4, <2>1, <2>2, <2>3, <2>4
<1>9. CursorInv'
  <2>1. view.next # NoMore => After(p) \in {view.next, After(view.next)}
    BY <1>0 DEF PagedInv, CursorInv
  <2>2. After(p) \in (2 .. Pages) \cup {NoMore}
    BY <1>0 DEF After
  <2>3. effects = view.key
    BY <1>0 DEF PagedInv, RequestsInv, CursorInv
  <2> QED
    BY <1>0, <2>1, <2>2, <2>3 DEF PagedInv, CursorInv
<1>10. LoadingInv'
  <2>1. r.page = 1 => ~ state.loading
    BY <1>0 DEF PagedInv, LoadingInv, RequestsInv
  <2> QED
    BY <2>1 DEF LoadingInv
<1> QED
  BY <1>0, <1>5, <1>8, <1>9, <1>10 DEF PagedInv
-----------------------------------------------------------------------------
LEMMA AnswerStep ==
  ASSUME PagedInv, NEW r \in requests, Answer(r)
  PROVE  PagedInv'
<1> DEFINE page == Page(r.key, r.page)
           next == IF r.page = Pages THEN NoMore ELSE r.page + 1
<1>1. /\ requests' = requests \ {r} /\ more' = Forgotten(r)
      /\ UNCHANGED <<wanted, view, effects, removals, gone, steps>>
      /\ DOMAIN state = StateFields
  BY DEF Answer, PagedInv, EntriesInv
<1>2. CASE r.aborted \/ r.key # state.key
  <2>1. UNCHANGED state
    BY <1>2 DEF Answer, Ignored, Set
  <2> QED
    BY <1>1, <1>2, <2>1, OverForNothing
<1>3. CASE ~ r.aborted /\ r.key = state.key
  <2>1. state' = IF r.page = 1
                 THEN [state EXCEPT !.entries = page, !.next = next, !.status = "ready"]
                 ELSE [state EXCEPT !.entries = MergeUnique(@, page), !.next = next,
                                    !.loading = FALSE]
    BY <1>3 DEF Answer, Ignored, Set
  <2>2. /\ DOMAIN state' = StateFields /\ state'.key = state.key
        /\ state'.entries = IF r.page = 1 THEN Page(r.key, 1)
                            ELSE MergeUnique(state.entries, Page(r.key, r.page))
        /\ state'.next = After(r.page)
        /\ r.page = 1 => state'.loading = state.loading
        /\ r.page # 1 => state'.loading = FALSE /\ state'.status = state.status
    BY <1>1, <2>1 DEF StateFields, After
  <2> HIDE DEF page, next
  <2> QED
    BY <1>1, <1>3, <2>2, ListGrows
<1> QED
  BY <1>2, <1>3

LEMMA FailStep ==
  ASSUME PagedInv, NEW r \in requests, FailAnswer(r)
  PROVE  PagedInv'
<1>1. /\ requests' = requests \ {r} /\ more' = Forgotten(r)
      /\ UNCHANGED <<wanted, view, effects, removals, gone, steps>>
      /\ DOMAIN state = StateFields
  BY DEF FailAnswer, PagedInv, EntriesInv
<1>2. CASE r.aborted \/ r.key # state.key
  <2>1. UNCHANGED state
    BY <1>2 DEF FailAnswer, Ignored, Set
  <2> QED
    BY <1>1, <1>2, <2>1, OverForNothing
<1>3. CASE ~ r.aborted /\ r.key = state.key
  <2>1. /\ RequestsInv' /\ LiveOf(requests') = {} /\ r \in LiveOf(requests)
    BY <1>1, <1>3, RequestOver DEF LiveOf
  <2>2. state' = IF r.page = 1 THEN [state EXCEPT !.status = "error"]
                 ELSE [state EXCEPT !.loading = FALSE]
    BY <1>3 DEF FailAnswer, Ignored, Set
  <2>3. /\ DOMAIN state' = StateFields /\ state'.key = state.key
        /\ state'.entries = state.entries /\ state'.next = state.next
        /\ r.page = 1 => state'.loading = state.loading /\ state'.status = "error"
        /\ r.page # 1 => state'.loading = FALSE /\ state'.status = state.status
    BY <1>1, <2>2 DEF StateFields
  <2>4. EntriesInv'
    BY <1>1, <2>3 DEF PagedInv, EntriesInv, OnceEach
  <2>5. CoverInv'
    BY <1>1, <2>3 DEF PagedInv, CoverInv, Loaded
  <2>6. CursorInv'
    BY <1>1, <2>1, <2>3 DEF PagedInv, CursorInv
  <2>7. LoadingInv'
    <3>1. r.page = 1 => ~ state.loading
      BY <2>1 DEF PagedInv, LoadingInv, RequestsInv
    <3> QED
      BY <2>3, <3>1 DEF LoadingInv
  <2> QED
    BY <2>1, <2>4, <2>5, <2>6, <2>7 DEF PagedInv
<1> QED
  BY <1>2, <1>3

LEMMA ClickStep ==
  ASSUME PagedInv, ClickRemove
  PROVE  PagedInv'
<1>1. UNCHANGED <<wanted, state, view, effects, requests, more, gone>> /\ steps' = steps + 1
  BY DEF ClickRemove, Counted
<1>2. RequestsInv'
  BY <1>1 DEF PagedInv, RequestsInv, LiveOf
<1> QED
  BY <1>1, <1>2 DEF PagedInv, EntriesInv, CoverInv, Loaded, CursorInv, LoadingInv, LiveOf

(* A removal takes one id off the list of its own key, and no other.       *)
LEMMA RemoveStep ==
  ASSUME PagedInv, NEW m, RemoveEntry(m)
  PROVE  PagedInv'
<1>1. /\ gone' = gone \cup {m} /\ UNCHANGED <<wanted, view, effects, requests, more, steps>>
      /\ DOMAIN state = StateFields
  BY DEF RemoveEntry, PagedInv, EntriesInv
<1>2. RequestsInv'
  BY <1>1 DEF PagedInv, RequestsInv
<1>3. CASE m.key # state.key
  <2>1. state' = state
    BY <1>3 DEF RemoveEntry, Set
  <2>2. CoverInv'
    BY <1>1, <2>1 DEF PagedInv, CoverInv, Loaded
  <2> QED
    BY <1>1, <1>2, <2>1, <2>2 DEF PagedInv, EntriesInv, CursorInv, LoadingInv
<1>4. CASE m.key = state.key
  <2> DEFINE now == Without(state.entries, {m.id})
  <2>1. state' = [state EXCEPT !.entries = now]
    BY <1>4 DEF RemoveEntry, Set
  <2>2. /\ DOMAIN state' = StateFields /\ state'.key = state.key /\ state'.next = state.next
        /\ state'.entries = now /\ state'.loading = state.loading /\ state'.status = state.status
    BY <1>1, <2>1 DEF StateFields
  <2>3. PICK s : s = state.entries
    OBVIOUS
  <2>4. s \in Seq(Entries) /\ OnceEach(s)
    BY <2>3 DEF PagedInv, EntriesInv
  <2>5. /\ now \in Seq(Entries) /\ OnceEach(now)
        /\ \A n \in DOMAIN now : \E i \in DOMAIN s : now[n] = s[i]
        /\ \A i \in DOMAIN s : s[i].id # m.id => \E n \in DOMAIN now : now[n] = s[i]
    <3>1. now \in Seq(Entries) /\ Keeps(now, s, {m.id})
      BY <2>3, <2>4, WithoutIs
    <3> QED
      BY <2>4, <3>1 DEF Keeps
  <2> HIDE DEF now
  <2>6. EntriesInv'
    <3>1. \A n \in DOMAIN now : now[n].of = state.key.screen
      BY <2>3, <2>5 DEF PagedInv, EntriesInv
    <3> QED
      BY <1>1, <2>2, <2>5, <3>1 DEF PagedInv, EntriesInv
  <2>7. CoverInv'
    <3> SUFFICES ASSUME state.status = "ready", state.key.screen # "off"
                 PROVE  /\ \A n \in DOMAIN now : now[n].id \in 1 .. (Loaded + 1)
                        /\ \A id \in 1 .. (Loaded + 1) :
                             \/ \E n \in DOMAIN now : now[n].id = id
                             \/ \E g \in gone' : g.id = id /\ g.key = state.key
      BY <2>2 DEF CoverInv, Loaded
    <3>1. /\ \A i \in DOMAIN s : s[i].id \in 1 .. (Loaded + 1)
          /\ \A id \in 1 .. (Loaded + 1) :
               \/ \E i \in DOMAIN s : s[i].id = id
               \/ \E g \in gone : g.id = id /\ g.key = state.key
      BY <2>3 DEF PagedInv, CoverInv
    <3>2. \A n \in DOMAIN now : now[n].id \in 1 .. (Loaded + 1)
      BY <2>5, <3>1
    <3>3. ASSUME NEW id \in 1 .. (Loaded + 1)
          PROVE  \/ \E n \in DOMAIN now : now[n].id = id
                 \/ \E g \in gone' : g.id = id /\ g.key = state.key
      <4>1. CASE id = m.id
        BY <1>1, <1>4, <4>1
      <4>2. CASE id # m.id
        BY <1>1, <2>5, <3>1, <4>2
      <4> QED
        BY <4>1, <4>2
    <3> QED
      BY <3>2, <3>3
  <2>8. CursorInv'
    <3>1. s = <<>> => now = <<>>
      <4> SUFFICES ASSUME s = <<>>
                   PROVE  now = <<>>
        OBVIOUS
      <4>0. DOMAIN s = {}
        OBVIOUS
      <4>1. DOMAIN now = {} /\ DOMAIN now = 1 .. Len(now) /\ Len(now) \in Nat
        BY <2>5, <4>0, LenProperties
      <4> QED
        BY <2>5, <4>1, EmptySeq
    <3> QED
      BY <1>1, <2>2, <2>3, <3>1 DEF PagedInv, CursorInv
  <2>9. LoadingInv'
    BY <1>1, <2>2 DEF PagedInv, LoadingInv
  <2> QED
    BY <1>2, <2>6, <2>7, <2>8, <2>9 DEF PagedInv
<1> QED
  BY <1>3, <1>4

LEMMA UnmountStep ==
  ASSUME PagedInv, Unmount
  PROVE  PagedInv'
<1>1. /\ DOMAIN state' = StateFields /\ state'.key = Unmounted /\ state'.entries = <<>>
      /\ state'.entries \in Seq(Entries) /\ state'.next = NoMore /\ state'.loading = FALSE
      /\ view'.key = Unmounted /\ view'.next = NoMore
      /\ requests' = {} /\ steps' = 0 /\ wanted' = Unmounted /\ effects' = Unmounted
  BY UnmountedIs, FreshIs DEF Unmount
<1>2. DOMAIN state'.entries = {}
  BY <1>1
<1>3. RequestsInv'
  BY <1>1 DEF RequestsInv, LiveOf
<1>4. EntriesInv'
  BY <1>1, <1>2, UnmountedIs DEF EntriesInv, OnceEach
<1>5. CoverInv'
  BY <1>1, UnmountedIs DEF CoverInv
<1>6. CursorInv'
  BY <1>1 DEF CursorInv, LiveOf
<1>7. LoadingInv'
  BY <1>1 DEF LoadingInv
<1> QED
  BY <1>3, <1>4, <1>5, <1>6, <1>7 DEF PagedInv

-----------------------------------------------------------------------------
LEMMA PagedStarts == PagedInit => PagedInv
BY FreshHook DEF PagedInit

LEMMA PagedStep == PagedInv /\ [PagedNext]_pagedVars => PagedInv'
<1> SUFFICES ASSUME PagedInv, [PagedNext]_pagedVars
             PROVE  PagedInv'
  OBVIOUS
<1>1. CASE ChangeFilter \/ Reload
  BY <1>1, WantedStep
<1>2. CASE Render
  BY <1>2, RenderStep
<1>3. CASE RunEffects
  BY <1>3, EffectsStep
<1>4. CASE LoadMore
  BY <1>4, MoreStep
<1>5. CASE ClickRemove
  BY <1>5, ClickStep
<1>6. CASE Unmount
  BY <1>6, UnmountStep
<1>7. CASE \E r \in requests : Answer(r) \/ FailAnswer(r)
  BY <1>7, AnswerStep, FailStep
<1>8. CASE \E m \in removals : RemoveEntry(m)
  BY <1>8, RemoveStep
<1>9. CASE UNCHANGED pagedVars
  <2>1. UNCHANGED <<wanted, state, view, effects, requests, more, gone, steps>>
    BY <1>9 DEF pagedVars
  <2> QED
    BY <2>1 DEF PagedInv, RequestsInv, EntriesInv, CoverInv, Loaded, CursorInv, LoadingInv
<1> QED
  BY <1>1, <1>2, <1>3, <1>4, <1>5, <1>6, <1>7, <1>8, <1>9 DEF PagedNext

(* The list on the screen is of one listing: whatever filters change,      *)
(* whichever answers come late, twice asked for, failed or in vain.        *)
THEOREM ListStaysOfOneListing == PagedSpec => []ListIsOfOneListing
<1>1. ASSUME PagedInv
      PROVE  ListIsOfOneListing
  <2> DEFINE entries == state.entries
             ids == {entries[i].id : i \in DOMAIN entries}
             live == {r \in requests : r.page > 1 /\ ~ r.aborted}
  <2>1. /\ entries \in Seq(Entries) /\ OnceEach(entries)
        /\ \A i \in DOMAIN entries : entries[i].of = state.key.screen
    BY <1>1 DEF PagedInv, EntriesInv
  <2>2. Cardinality(ids) = Len(entries)
    <3> DEFINE f == [i \in 1 .. Len(entries) |-> entries[i].id]
    <3>1. DOMAIN entries = 1 .. Len(entries) /\ Len(entries) \in Nat
      BY <2>1, LenProperties
    <3>2. f \in Bijection(1 .. Len(entries), ids)
      BY <2>1, <3>1 DEF Bijection, Injection, IsInjective, Surjection, OnceEach
    <3> HIDE DEF f, ids, entries
    <3>3. ExistsBijection(1 .. Len(entries), ids)
      BY <3>2 DEF ExistsBijection
    <3> QED
      BY <3>1, <3>3, FS_CountingElements
  <2>3. state.status = "ready" /\ state.key.screen # "off" =>
          /\ ids \subseteq 1 .. (Loaded + 1)
          /\ \A id \in 1 .. (Loaded + 1) :
               id \in ids \/ \E m \in gone : m.id = id /\ m.key = state.key
    BY <1>1 DEF PagedInv, CoverInv
  <2>4. state.loading => \E r \in live : r.key = state.key
    BY <1>1 DEF PagedInv, LoadingInv, LiveOf
  <2>5. Cardinality(live) <= 1
    <3>1. \A r, q \in live : r = q
      BY <1>1 DEF PagedInv, RequestsInv, LiveOf
    <3> HIDE DEF live
    <3>2. CASE live = {}
      BY <3>2, FS_EmptySet
    <3>3. CASE live # {}
      <4>1. PICK r \in live : TRUE
        BY <3>3
      <4>2. live = {r}
        BY <3>1, <4>1
      <4>3. Cardinality({r}) = 1
        BY FS_Singleton
      <4> QED
        BY <4>2, <4>3
    <3> QED
      BY <3>2, <3>3
  <2> QED
    BY <2>1, <2>2, <2>3, <2>4, <2>5 DEF ListIsOfOneListing
<1> QED
  BY <1>1, PagedStarts, PagedStep, PTL DEF PagedSpec
-----------------------------------------------------------------------------
(***************************************************************************)
(* The entries of a document that are stored.                              *)
(***************************************************************************)

(* What is stored of an entry, and what a reader has while it goes through *)
(* the entries.                                                            *)
Stored == [link : EntryLinks, date : Int]
Reading == [seen : SUBSET EntryLinks, items : Seq(Stored)]
StoredOf(e) == [link |-> e.link, date |-> Corrected(e.date)]

ReadSoFar(entries, m, kept) ==
  /\ kept = [n \in 0 .. m |-> kept[n]]
  /\ kept[0] = [seen |-> {}, items |-> <<>>]
  /\ \A n \in 1 .. m : kept[n] = Keep(entries[n], kept[n - 1])

(* The first of the entries up to the n-th that has a place in the window. *)
IsFirst(entries, n, i) ==
  /\ i \in 1 .. n /\ InWindow(entries[i])
  /\ \A j \in 1 .. n : InWindow(entries[j]) /\ entries[j].link = entries[i].link => i <= j

(* After n entries: the items are of distinct links, each is of the first  *)
(* entry in the window with its link, and no such entry has no item.       *)
AfterEntries(entries, n, k) ==
  /\ k \in Reading
  /\ \A l, m \in DOMAIN k.items : k.items[l].link = k.items[m].link => l = m
  /\ \A m \in DOMAIN k.items :
       \E i \in 1 .. n : IsFirst(entries, n, i) /\ k.items[m] = StoredOf(entries[i])
  /\ \A u \in k.seen : \E m \in DOMAIN k.items : k.items[m].link = u
  /\ \A m \in DOMAIN k.items : k.items[m].link \in k.seen
  /\ \A i \in 1 .. n : InWindow(entries[i]) => entries[i].link \in k.seen

LEMMA CorrectedIs ==
  ASSUME NEW e \in Entry
  PROVE  /\ Corrected(e.date) \in Int /\ Corrected(e.date) <= FetchedAt + Skew
         /\ InWindow(e) => StoredOf(e) \in Stored /\ OldestAllowed <= Corrected(e.date)
<1>1. FetchedAt \in Int /\ OldestAllowed \in Int /\ Skew \in Nat
  BY EntriesAssumption
<1>2. e.date = NoDate \/ e.date \in Int
  BY EntriesAssumption DEF Entry
<1>3. Corrected(e.date) \in Int /\ Corrected(e.date) <= FetchedAt + Skew
  BY <1>1, <1>2 DEF Corrected
<1>4. ASSUME InWindow(e)
      PROVE  StoredOf(e) \in Stored /\ OldestAllowed <= Corrected(e.date)
  <2>1. e.link \in EntryLinks /\ OldestAllowed <= Corrected(e.date)
    BY <1>1, <1>3, <1>4 DEF InWindow, Entry
  <2> QED
    BY <1>3, <2>1 DEF StoredOf, Stored
<1> QED
  BY <1>3, <1>4

(* One more entry.                                                         *)
LEMMA OneMoreEntry ==
  ASSUME NEW entries \in Seq(Entry), NEW n \in 1 .. Len(entries), NEW k,
         AfterEntries(entries, n - 1, k)
  PROVE  AfterEntries(entries, n, Keep(entries[n], k))
<1> DEFINE e == entries[n]
           kept == Keep(e, k)
           item == StoredOf(e)
<1>1. e \in Entry /\ n \in Nat /\ n - 1 \in Nat
  BY ElementOfSeq
<1>2. /\ k \in Reading /\ k.items \in Seq(Stored) /\ k.seen \in SUBSET EntryLinks
      /\ DOMAIN k.items = 1 .. Len(k.items) /\ Len(k.items) \in Nat
  <2>1. k \in Reading /\ k.items \in Seq(Stored) /\ k.seen \in SUBSET EntryLinks
    BY DEF AfterEntries, Reading
  <2> QED
    BY <2>1, LenProperties
<1>3. \A i \in 1 .. n : i = n \/ i \in 1 .. (n - 1)
  BY <1>1
<1>4. \A i \in 1 .. (n - 1) : i \in 1 .. n /\ i < n
  BY <1>1
<1>5. InWindow(e) <=> e.link # NoLink /\ ~ (Corrected(e.date) < OldestAllowed)
  <2>1. Corrected(e.date) \in Int /\ OldestAllowed \in Int
    BY <1>1, CorrectedIs, EntriesAssumption
  <2> QED
    BY <2>1 DEF InWindow
<1>6. CASE ~ InWindow(e) \/ e.link \in k.seen
  <2>1. kept = k
    BY <1>5, <1>6 DEF Keep
  <2>2. \A i \in 1 .. (n - 1) : IsFirst(entries, n - 1, i) => IsFirst(entries, n, i)
    BY <1>1, <1>3, <1>4 DEF IsFirst
  <2>3. \A i \in 1 .. n : InWindow(entries[i]) => entries[i].link \in k.seen
    BY <1>3, <1>6 DEF AfterEntries
  <2>4. \A m \in DOMAIN k.items :
          \E i \in 1 .. n : IsFirst(entries, n, i) /\ k.items[m] = StoredOf(entries[i])
    BY <1>4, <2>2 DEF AfterEntries
  <2>5. AfterEntries(entries, n, k)
    BY <2>3, <2>4 DEF AfterEntries
  <2> QED
    BY <2>1, <2>5
<1>7. CASE InWindow(e) /\ e.link \notin k.seen
  <2> DEFINE last == Len(k.items) + 1
  <2>1. kept = [seen |-> k.seen \cup {e.link}, items |-> Append(k.items, item)]
    BY <1>5, <1>7 DEF Keep, StoredOf
  <2>2. item \in Stored /\ item.link = e.link /\ e.link \in EntryLinks
    <3>1. item \in Stored
      BY <1>1, <1>7, CorrectedIs
    <3>2. item.link = e.link
      BY DEF StoredOf
    <3> QED
      BY <3>1, <3>2 DEF Stored
  <2>3. kept.seen = k.seen \cup {e.link} /\ kept.items = Append(k.items, item)
    BY <2>1
  <2>4. /\ kept.items \in Seq(Stored) /\ DOMAIN kept.items = 1 .. last
        /\ \A m \in 1 .. Len(k.items) : kept.items[m] = k.items[m]
        /\ kept.items[last] = item
    BY <1>2, <2>2, <2>3, AppendProperties, LenProperties
  <2>5. kept \in Reading
    BY <1>2, <2>1, <2>2, <2>3, <2>4 DEF Reading
  <2> HIDE DEF kept, item
  <2>6. \A m \in 1 .. last : m = last \/ m \in 1 .. Len(k.items)
    BY <1>2
  <2>7. \A m \in 1 .. Len(k.items) : m \in 1 .. last /\ m # last
    BY <1>2
  <2>8. last \in 1 .. last
    BY <1>2
  <2>9. \A m \in 1 .. Len(k.items) : k.items[m].link \in k.seen /\ k.items[m].link # e.link
    BY <1>2, <1>7 DEF AfterEntries
  <2>10. \A l, m \in DOMAIN kept.items : kept.items[l].link = kept.items[m].link => l = m
    <3> SUFFICES ASSUME NEW l \in 1 .. last, NEW m \in 1 .. last,
                        kept.items[l].link = kept.items[m].link
                 PROVE  l = m
      BY <2>4
    <3>1. CASE l = last
      BY <2>2, <2>4, <2>6, <2>9, <3>1
    <3>2. CASE m = last
      BY <2>2, <2>4, <2>6, <2>9, <3>2
    <3>3. CASE l # last /\ m # last
      BY <1>2, <2>4, <2>6, <3>3 DEF AfterEntries
    <3> QED
      BY <3>1, <3>2, <3>3
  <2>11. \A m \in DOMAIN kept.items :
           \E i \in 1 .. n : IsFirst(entries, n, i) /\ kept.items[m] = StoredOf(entries[i])
    <3> SUFFICES ASSUME NEW m \in 1 .. last
                 PROVE  \E i \in 1 .. n : IsFirst(entries, n, i)
                                          /\ kept.items[m] = StoredOf(entries[i])
      BY <2>4
    <3>1. CASE m = last
      <4>1. ASSUME NEW j \in 1 .. n, InWindow(entries[j]), entries[j].link = e.link
            PROVE  n <= j
        <5>1. j \notin 1 .. (n - 1)
          BY <1>7, <4>1 DEF AfterEntries
        <5> QED
          BY <1>1, <1>3, <5>1
      <4>2. IsFirst(entries, n, n)
        BY <1>1, <1>7, <4>1 DEF IsFirst
      <4> QED
        BY <1>1, <2>4, <3>1, <4>2 DEF item
    <3>2. CASE m # last
      <4>1. m \in 1 .. Len(k.items) /\ kept.items[m] = k.items[m]
        BY <2>4, <2>6, <3>2
      <4>2. PICK i \in 1 .. (n - 1) :
              IsFirst(entries, n - 1, i) /\ k.items[m] = StoredOf(entries[i])
        BY <1>2, <4>1 DEF AfterEntries
      <4>3. entries[i].link = k.items[m].link
        BY <4>2 DEF StoredOf
      <4>4. IsFirst(entries, n, i)
        BY <1>1, <1>3, <1>4, <4>2 DEF IsFirst
      <4> QED
        BY <1>4, <4>1, <4>2, <4>4
    <3> QED
      BY <3>1, <3>2
  <2>12. \A u \in kept.seen : \E m \in DOMAIN kept.items : kept.items[m].link = u
    <3> SUFFICES ASSUME NEW u \in kept.seen
                 PROVE  \E m \in 1 .. last : kept.items[m].link = u
      BY <2>4
    <3>1. CASE u = e.link
      BY <2>2, <2>4, <2>8, <3>1
    <3>2. CASE u \in k.seen
      <4>1. PICK m \in 1 .. Len(k.items) : k.items[m].link = u
        BY <1>2, <3>2 DEF AfterEntries
      <4> QED
        BY <2>4, <2>7, <4>1
    <3> QED
      BY <2>3, <3>1, <3>2
  <2>13. \A m \in DOMAIN kept.items : kept.items[m].link \in kept.seen
    <3> SUFFICES ASSUME NEW m \in 1 .. last
                 PROVE  kept.items[m].link \in kept.seen
      BY <2>4
    <3>1. CASE m = last
      BY <2>2, <2>3, <2>4, <3>1
    <3>2. CASE m # last
      BY <2>3, <2>4, <2>6, <2>9, <3>2
    <3> QED
      BY <3>1, <3>2
  <2>14. \A i \in 1 .. n : InWindow(entries[i]) => entries[i].link \in kept.seen
    BY <1>3, <2>3 DEF AfterEntries
  <2>15. AfterEntries(entries, n, kept)
    BY <2>5, <2>10, <2>11, <2>12, <2>13, <2>14 DEF AfterEntries
  <2> QED
    BY <2>15 DEF kept
<1> QED
  BY <1>6, <1>7

(* A reader can go through all entries: if there were numbers of entries   *)
(* it could not read, take the least.                                      *)
LEMMA ReadingExists ==
  ASSUME NEW entries \in Seq(Entry)
  PROVE  \E kept : ReadSoFar(entries, Len(entries), kept)
<1> DEFINE Bad == {m \in 0 .. Len(entries) : ~ \E kept : ReadSoFar(entries, m, kept)}
<1>0. Len(entries) \in Nat
  BY LenProperties
<1> SUFFICES ASSUME Bad # {}
             PROVE  FALSE
  BY <1>0
<1>1. PICK m \in Bad : \A n \in Bad : m <= n
  <2>1. Bad \in SUBSET Nat
    BY <1>0
  <2> HIDE DEF Bad
  <2> QED
    BY <2>1, Least
<1>2. m \in 0 .. Len(entries) /\ m \in Nat /\ ~ \E kept : ReadSoFar(entries, m, kept)
  BY <1>0, <1>1
<1>3. CASE m = 0
  <2> DEFINE kept == [n \in 0 .. 0 |-> [seen |-> {}, items |-> <<>>]]
  <2>1. ReadSoFar(entries, 0, kept)
    BY DEF ReadSoFar
  <2> QED
    BY <1>2, <1>3, <2>1
<1>4. CASE m # 0
  <2>1. m - 1 \in 0 .. Len(entries) /\ m - 1 < m
    BY <1>0, <1>2, <1>4
  <2>2. PICK g : ReadSoFar(entries, m - 1, g)
    <3>1. m - 1 \notin Bad
      BY <1>1, <1>2, <2>1
    <3> QED
      BY <2>1, <3>1
  <2> DEFINE kept == [n \in 0 .. m |-> IF n = m THEN Keep(entries[m], g[m - 1]) ELSE g[n]]
  <2>3. /\ kept = [n \in 0 .. m |-> kept[n]]
        /\ kept[m] = Keep(entries[m], g[m - 1])
        /\ \A n \in 0 .. (m - 1) : kept[n] = g[n]
    BY <1>2
  <2> HIDE DEF kept
  <2>4. kept[0] = [seen |-> {}, items |-> <<>>]
    <3>1. 0 \in 0 .. (m - 1)
      BY <1>2, <1>4
    <3> QED
      BY <2>2, <2>3, <3>1 DEF ReadSoFar
  <2>5. \A n \in 1 .. m : kept[n] = Keep(entries[n], kept[n - 1])
    <3> TAKE n \in 1 .. m
    <3>1. kept[n - 1] = g[n - 1]
      BY <1>2, <2>3
    <3>2. CASE n = m
      BY <2>3, <3>1, <3>2
    <3>3. CASE n # m
      <4>1. n \in 0 .. (m - 1) /\ n \in 1 .. (m - 1)
        BY <1>2, <3>3
      <4> QED
        BY <2>2, <2>3, <3>1, <4>1 DEF ReadSoFar
    <3> QED
      BY <3>2, <3>3
  <2>6. ReadSoFar(entries, m, kept)
    BY <2>3, <2>4, <2>5 DEF ReadSoFar
  <2> QED
    BY <1>2, <2>6
<1> QED
  BY <1>3, <1>4

(* What normalise_entries returns.                                         *)
LEMMA NormalisedIs ==
  ASSUME NEW entries \in Seq(Entry)
  PROVE  \E k : AfterEntries(entries, Len(entries), k) /\ NormalisedEntries(entries) = k.items
<1> DEFINE Reads(f) ==
             f = [n \in 0 .. Len(entries) |->
                    IF n = 0 THEN [seen |-> {}, items |-> <<>>]
                    ELSE Keep(entries[n], f[n - 1])]
           kept == CHOOSE f : Reads(f)
<1>0. Len(entries) \in Nat
  BY LenProperties
<1>1. NormalisedEntries(entries) = kept[Len(entries)].items
  BY Zenon DEF NormalisedEntries
<1>2. Reads(kept)
  <2>1. PICK f : ReadSoFar(entries, Len(entries), f)
    BY ReadingExists
  <2>2. \A n \in 0 .. Len(entries) :
          f[n] = IF n = 0 THEN [seen |-> {}, items |-> <<>>] ELSE Keep(entries[n], f[n - 1])
    <3> TAKE n \in 0 .. Len(entries)
    <3>1. n = 0 \/ n \in 1 .. Len(entries)
      BY <1>0
    <3> QED
      BY <2>1, <3>1 DEF ReadSoFar
  <2>3. f = [n \in 0 .. Len(entries) |-> f[n]]
    BY <2>1 DEF ReadSoFar
  <2>4. Reads(f)
    BY <2>2, <2>3
  <2> HIDE DEF Reads
  <2> QED
    BY <2>4
<1>3. /\ kept[0] = [seen |-> {}, items |-> <<>>]
      /\ \A n \in 1 .. Len(entries) : kept[n] = Keep(entries[n], kept[n - 1])
  <2> HIDE DEF kept
  <2>1. \A n \in 0 .. Len(entries) :
          kept[n] = IF n = 0 THEN [seen |-> {}, items |-> <<>>]
                    ELSE Keep(entries[n], kept[n - 1])
    BY <1>2
  <2>2. 0 \in 0 .. Len(entries)
        /\ \A n \in 1 .. Len(entries) : n \in 0 .. Len(entries) /\ n # 0
    BY <1>0
  <2> QED
    BY <2>1, <2>2
<1> HIDE DEF kept
<1> DEFINE Bad == {n \in 0 .. Len(entries) : ~ AfterEntries(entries, n, kept[n])}
<1>4. Bad = {}
  <2> SUFFICES ASSUME Bad # {}
               PROVE  FALSE
    OBVIOUS
  <2>1. PICK m \in Bad : \A n \in Bad : m <= n
    <3>1. Bad \in SUBSET Nat
      BY <1>0
    <3> HIDE DEF Bad
    <3> QED
      BY <3>1, Least
  <2>2. m \in Nat /\ m \in 0 .. Len(entries) /\ ~ AfterEntries(entries, m, kept[m])
    BY <1>0, <2>1
  <2>3. CASE m = 0
    <3>1. [seen |-> {}, items |-> <<>>] \in Reading
      BY DEF Reading
    <3>2. kept[0].seen = {} /\ DOMAIN kept[0].items = {} /\ kept[0] \in Reading
      BY <1>3, <3>1
    <3>3. AfterEntries(entries, 0, kept[0])
      BY <3>2 DEF AfterEntries
    <3> QED
      BY <2>2, <2>3, <3>3
  <2>4. CASE m # 0
    <3>1. m - 1 \in 0 .. Len(entries) /\ m - 1 < m /\ m \in 1 .. Len(entries)
      BY <1>0, <2>2, <2>4
    <3>2. m - 1 \notin Bad
      BY <2>1, <2>2, <3>1
    <3>3. AfterEntries(entries, m - 1, kept[m - 1])
      BY <3>1, <3>2
    <3>4. AfterEntries(entries, m, Keep(entries[m], kept[m - 1]))
      BY <3>1, <3>3, OneMoreEntry
    <3> QED
      BY <1>3, <2>2, <3>1, <3>4
  <2> QED
    BY <2>3, <2>4
<1>5. AfterEntries(entries, Len(entries), kept[Len(entries)])
  BY <1>0, <1>4
<1> QED
  BY <1>1, <1>5

-----------------------------------------------------------------------------
(* The first entries of a document, as many as there is room for.          *)
LEMMA ParsedRssIs ==
  ASSUME NEW entries \in Seq(Entry)
  PROVE  /\ ParsedRss(entries) \in Seq(Entry)
         /\ \A n \in DOMAIN ParsedRss(entries) :
              n \in DOMAIN entries /\ ParsedRss(entries)[n] = entries[n]
         /\ \A n \in DOMAIN entries : n <= MaxEntries => n \in DOMAIN ParsedRss(entries)
<1> DEFINE room == IF Len(entries) < MaxEntries THEN Len(entries) ELSE MaxEntries
           p == SubSeq(entries, 1, room)
<1>1. MaxEntries \in Nat /\ Len(entries) \in Nat /\ room \in Nat /\ room <= Len(entries)
      /\ DOMAIN entries = 1 .. Len(entries)
  BY EntriesAssumption, LenProperties
<1>2. \A n \in 1 .. room : n \in DOMAIN entries /\ entries[n] \in Entry
  BY <1>1, ElementOfSeq
<1>3. \A n \in DOMAIN entries : n <= MaxEntries => n \in 1 .. room
  BY <1>1
<1> HIDE DEF room
<1>4. p \in Seq(Entry) /\ Len(p) = room /\ \A n \in 1 .. room : p[n] = entries[n]
  BY <1>1, <1>2, SubSeqProperties
<1>5. DOMAIN p = 1 .. room
  BY <1>4, LenProperties
<1>6. ParsedRss(entries) = p
  BY Zenon DEF ParsedRss, room
<1> HIDE DEF p
<1> QED
  BY <1>2, <1>3, <1>4, <1>5, <1>6

UsableIn(entries) == {i \in DOMAIN entries : entries[i].date # NoDate /\ Usable(entries[i])}

(* The usable entries of a catalogue can be put in order.                  *)
LEMMA NewestFirst ==
  ASSUME NEW entries \in Seq(Entry)
  PROVE  \E s \in [1 .. Cardinality(UsableIn(entries)) -> UsableIn(entries)] :
           /\ \A i \in UsableIn(entries) : \E n \in DOMAIN s : s[n] = i
           /\ \A m, n \in DOMAIN s : m < n => Newer(entries, s[m], s[n])
<1> DEFINE U == UsableIn(entries)
           before == {pair \in U \X U : Newer(entries, pair[1], pair[2])}
<1>1. DOMAIN entries = 1 .. Len(entries) /\ Len(entries) \in Nat
  BY LenProperties
<1>2. IsFiniteSet(U) /\ U \subseteq Nat
  <2>1. IsFiniteSet(1 .. Len(entries))
    BY <1>1, FS_Interval
  <2> QED
    BY <1>1, <2>1, FS_Subset DEF UsableIn
<1>3. \A i \in U : entries[i].date \in Int
  <2> TAKE i \in U
  <2>1. entries[i] \in Entry /\ entries[i].date # NoDate
    BY <1>1, ElementOfSeq DEF UsableIn
  <2> QED
    BY <2>1, EntriesAssumption DEF Entry
<1>4. \A i, j \in U : <<i, j>> \in before <=> Newer(entries, i, j)
  OBVIOUS
<1> HIDE DEF before, U
<1>5. Orders(before, U)
  BY <1>2, <1>3, <1>4 DEF Orders, Newer
<1>6. PICK s : InLine(s, before, U)
  BY <1>2, <1>5, LineExists
<1>7. s \in [1 .. Cardinality(U) -> U] /\ DOMAIN s = 1 .. Cardinality(U)
  BY <1>6 DEF InLine
<1>8. \A i \in U : \E n \in DOMAIN s : s[n] = i
  BY <1>6, <1>7 DEF InLine
<1>9. \A m, n \in DOMAIN s : m < n => Newer(entries, s[m], s[n])
  BY <1>4, <1>6, <1>7 DEF InLine
<1> QED
  BY <1>7, <1>8, <1>9 DEF U

(* The entries of a catalogue that are taken: of usable ones the newest.   *)
Newest(p, entries, s) ==
  LET U == UsableIn(entries) IN
  /\ p \in Seq(Entry)
  /\ s \in [1 .. Cardinality(U) -> U]
  /\ \A i \in U : \E n \in 1 .. Cardinality(U) : s[n] = i
  /\ \A m, n \in 1 .. Cardinality(U) : m < n => Newer(entries, s[m], s[n])
  /\ \A n \in DOMAIN p : n \in 1 .. Cardinality(U) /\ p[n] = entries[s[n]]
  /\ \A n \in 1 .. Cardinality(U) : n <= MaxEntries => n \in DOMAIN p

LEMMA ParsedKevIs ==
  ASSUME NEW entries \in Seq(Entry)
  PROVE  \E s : Newest(ParsedKev(entries), entries, s)
<1> DEFINE U == UsableIn(entries)
           sorted == CHOOSE s \in [1 .. Cardinality(U) -> U] :
                       /\ \A i \in U : \E n \in DOMAIN s : s[n] = i
                       /\ \A m, n \in DOMAIN s : m < n => Newer(entries, s[m], s[n])
           all == [n \in DOMAIN sorted |-> entries[sorted[n]]]
<1>1. ParsedKev(entries) = ParsedRss(all)
  BY Zenon DEF ParsedKev, UsableIn
<1>2. /\ sorted \in [1 .. Cardinality(U) -> U]
      /\ \A i \in U : \E n \in DOMAIN sorted : sorted[n] = i
      /\ \A m, n \in DOMAIN sorted : m < n => Newer(entries, sorted[m], sorted[n])
  <2> HIDE DEF U
  <2> QED
    BY NewestFirst, Zenon DEF U
<1> HIDE DEF sorted
<1>3. IsFiniteSet(U) /\ Cardinality(U) \in Nat /\ \A i \in U : entries[i] \in Entry
  <2>1. DOMAIN entries = 1 .. Len(entries) /\ Len(entries) \in Nat
    BY LenProperties
  <2>2. IsFiniteSet(1 .. Len(entries))
    BY <2>1, FS_Interval
  <2>3. U \in SUBSET (1 .. Len(entries)) /\ \A i \in U : entries[i] \in Entry
    BY <2>1, ElementOfSeq DEF UsableIn
  <2> HIDE DEF U
  <2> QED
    BY <2>2, <2>3, FS_Subset, FS_CardinalityType
<1> HIDE DEF U
<1>4. DOMAIN sorted = 1 .. Cardinality(U)
  BY <1>2
<1>5. all \in Seq(Entry) /\ DOMAIN all = 1 .. Cardinality(U)
      /\ \A n \in 1 .. Cardinality(U) : all[n] = entries[sorted[n]]
  BY <1>2, <1>3, <1>4
<1> HIDE DEF all
<1>6. /\ ParsedRss(all) \in Seq(Entry)
      /\ \A n \in DOMAIN ParsedRss(all) : n \in DOMAIN all /\ ParsedRss(all)[n] = all[n]
      /\ \A n \in DOMAIN all : n <= MaxEntries => n \in DOMAIN ParsedRss(all)
  BY <1>5, ParsedRssIs
<1>7. Newest(ParsedRss(all), entries, sorted)
  BY <1>2, <1>4, <1>5, <1>6 DEF Newest, U
<1> QED
  BY <1>1, <1>7

(* Behind the entries a catalogue has room for stand only those that are   *)
(* as old as they are, or older.                                           *)
LEMMA NoRoomBefore ==
  ASSUME document.entries \in Seq(Entry), NEW p, NEW s, Newest(p, document.entries, s),
         NEW q \in 1 .. Cardinality(UsableIn(document.entries)), q > MaxEntries
  PROVE  Cardinality(AtLeastAsNew(s[q])) >= MaxEntries
<1> DEFINE entries == document.entries
           U == UsableIn(entries)
           new == AtLeastAsNew(s[q])
           f == [n \in 1 .. MaxEntries |-> s[n]]
<1>1. DOMAIN entries = 1 .. Len(entries) /\ Len(entries) \in Nat /\ MaxEntries \in Nat
  BY LenProperties, EntriesAssumption
<1>2. IsFiniteSet(DOMAIN entries) /\ U \subseteq DOMAIN entries
  BY <1>1, FS_Interval DEF UsableIn
<1>3. Cardinality(U) \in Nat
  <2>1. IsFiniteSet(U)
    BY <1>2, FS_Subset
  <2> HIDE DEF U
  <2> QED
    BY <2>1, FS_CardinalityType
<1>4. \A n \in 1 .. MaxEntries : n \in 1 .. Cardinality(U) /\ n < q
  BY <1>1, <1>3
<1>5. \A i \in U : i \in DOMAIN entries /\ i \in Nat /\ entries[i].date \in Int
                  /\ entries[i].date # NoDate /\ entries[i].link # NoLink
  <2> TAKE i \in U
  <2>1. /\ i \in DOMAIN entries /\ entries[i] \in Entry /\ entries[i].date # NoDate
        /\ entries[i].link # NoLink
    BY <1>1, ElementOfSeq DEF UsableIn, Usable
  <2>2. entries[i].date \in Int
    BY <2>1, EntriesAssumption DEF Entry
  <2> QED
    BY <1>1, <2>1, <2>2
<1>6. \A m, n \in 1 .. Cardinality(U) :
        s[m] \in U /\ (m < n => Newer(entries, s[m], s[n]))
  BY DEF Newest
<1>7. \A i \in U : ~ Newer(entries, i, i)
  BY <1>5 DEF Newer
<1>8. \A n \in 1 .. MaxEntries : f[n] \in new
  <2> TAKE n \in 1 .. MaxEntries
  <2>1. f[n] = s[n] /\ s[n] \in U /\ s[q] \in U /\ Newer(entries, s[n], s[q])
    BY <1>4, <1>6
  <2>2. s[n] # s[q] /\ entries[s[n]].date >= entries[s[q]].date
    BY <1>5, <1>7, <2>1 DEF Newer
  <2> QED
    BY <1>5, <2>1, <2>2 DEF AtLeastAsNew
<1>9. \A m, n \in 1 .. MaxEntries : f[m] = f[n] => m = n
  <2> SUFFICES ASSUME NEW m \in 1 .. MaxEntries, NEW n \in 1 .. MaxEntries, s[m] = s[n], m # n
               PROVE  FALSE
    OBVIOUS
  <2>1. m < n \/ n < m
    BY <1>1
  <2> QED
    BY <1>4, <1>6, <1>7, <2>1
<1>10. f \in Injection(1 .. MaxEntries, new)
  BY <1>8, <1>9 DEF Injection, IsInjective
<1>11. IsFiniteSet(new)
  BY <1>2, FS_Subset DEF AtLeastAsNew
<1>12. Cardinality(1 .. MaxEntries) = MaxEntries
  BY <1>1, FS_Interval
<1>13. Cardinality(new) \in Nat
  BY <1>11, FS_CardinalityType
<1> HIDE DEF f, new
<1>14. Cardinality(1 .. MaxEntries) <= Cardinality(new)
  BY <1>10, <1>11, FS_Injection
<1> QED
  BY <1>1, <1>12, <1>13, <1>14 DEF new

-----------------------------------------------------------------------------
(* What the property says of a feed holds once the feed has been read.     *)
LEMMA FeedCostsOnly ==
  ASSUME document' = document, document.entries \in Seq(Entry), document.format = "rss",
         batch'.items = NormalisedEntries(ParsedRss(document.entries))
  PROVE  EntriesCostOnlyThemselves'
<1> DEFINE entries == document.entries
           p == ParsedRss(entries)
           usable == {i \in DOMAIN entries : InWindow(entries[i])}
           last == Len(p)
<1>1. /\ p \in Seq(Entry)
      /\ \A n \in DOMAIN p : n \in DOMAIN entries /\ p[n] = entries[n]
      /\ \A n \in DOMAIN entries : n <= MaxEntries => n \in DOMAIN p
  BY ParsedRssIs
<1>2. PICK k : AfterEntries(p, last, k) /\ batch'.items = k.items
  BY <1>1, NormalisedIs
<1>3. DOMAIN p = 1 .. last /\ DOMAIN entries = 1 .. Len(entries) /\ Len(entries) \in Nat
      /\ last \in Nat /\ MaxEntries \in Nat
  BY <1>1, LenProperties, EntriesAssumption
<1> HIDE DEF p, last
<1>4. \A m, n \in DOMAIN batch'.items : batch'.items[m].link = batch'.items[n].link => m = n
  BY <1>2 DEF AfterEntries
<1>5. ASSUME NEW n \in DOMAIN batch'.items
      PROVE  \E i \in usable :
               /\ i \in 1 .. last /\ IsFirst(p, last, i)
               /\ batch'.items[n] = [link |-> entries[i].link, date |-> Corrected(entries[i].date)]
               /\ OldestAllowed <= Corrected(entries[i].date)
               /\ Corrected(entries[i].date) <= FetchedAt + Skew
  <2>1. PICK i \in 1 .. last : IsFirst(p, last, i) /\ batch'.items[n] = StoredOf(p[i])
    BY <1>2 DEF AfterEntries
  <2>2. i \in usable /\ p[i] = entries[i] /\ entries[i] \in Entry
    BY <1>1, <1>3, <2>1, ElementOfSeq DEF IsFirst
  <2>3. OldestAllowed <= Corrected(entries[i].date)
        /\ Corrected(entries[i].date) <= FetchedAt + Skew
    BY <2>2, CorrectedIs
  <2> QED
    BY <2>1, <2>2, <2>3 DEF StoredOf
<1>6. \A n \in DOMAIN batch'.items :
        /\ OldestAllowed <= batch'.items[n].date /\ batch'.items[n].date <= FetchedAt + Skew
        /\ \E i \in usable :
             batch'.items[n] = [link |-> entries[i].link, date |-> Corrected(entries[i].date)]
  <2> TAKE n \in DOMAIN batch'.items
  <2>1. PICK i \in usable :
          /\ batch'.items[n] = [link |-> entries[i].link, date |-> Corrected(entries[i].date)]
          /\ OldestAllowed <= Corrected(entries[i].date)
          /\ Corrected(entries[i].date) <= FetchedAt + Skew
    BY <1>5
  <2>2. batch'.items[n].date = Corrected(entries[i].date)
    BY <2>1
  <2> QED
    BY <2>1, <2>2
<1>7. \A i \in usable : (\E n \in DOMAIN batch'.items : batch'.items[n].link = entries[i].link)
                        \/ i > MaxEntries
  <2> SUFFICES ASSUME NEW i \in usable, ~ (i > MaxEntries)
               PROVE  \E n \in DOMAIN batch'.items : batch'.items[n].link = entries[i].link
    OBVIOUS
  <2>1. i \in DOMAIN p /\ p[i] = entries[i]
    BY <1>1, <1>3
  <2>2. entries[i].link \in k.seen
    BY <1>2, <1>3, <2>1 DEF AfterEntries
  <2> QED
    BY <1>2, <2>2 DEF AfterEntries
<1>8. ASSUME NEW n \in DOMAIN batch'.items, NEW i \in usable,
             batch'.items[n].link = entries[i].link
      PROVE  \E j \in usable : j <= i /\ batch'.items[n] = [link |-> entries[j].link,
                                                       date |-> Corrected(entries[j].date)]
  <2>1. PICK j \in usable :
          /\ j \in 1 .. last /\ IsFirst(p, last, j)
          /\ batch'.items[n] = [link |-> entries[j].link, date |-> Corrected(entries[j].date)]
    BY <1>5, <1>8
  <2>2. entries[j].link = entries[i].link
    <3>1. batch'.items[n].link = entries[j].link
      BY <2>1
    <3> QED
      BY <1>8, <3>1
  <2>3. CASE i \in 1 .. last
    <3>1. p[i] = entries[i] /\ p[j] = entries[j]
      BY <1>1, <1>3, <2>1, <2>3
    <3>2. j <= i
      BY <2>1, <2>2, <2>3, <3>1 DEF IsFirst
    <3> QED
      BY <2>1, <3>2
  <2>4. CASE i \notin 1 .. last
    <3>1. j <= i
      BY <1>3, <2>1, <2>4
    <3> QED
      BY <2>1, <3>1
  <2> QED
    BY <2>3, <2>4
<1> QED
  BY <1>4, <1>6, <1>7, <1>8 DEF EntriesCostOnlyThemselves

(* And of a catalogue.                                                     *)
LEMMA CatalogueCostsOnly ==
  ASSUME document' = document, document.entries \in Seq(Entry), document.format = "kev",
         batch'.items = NormalisedEntries(ParsedKev(document.entries))
  PROVE  EntriesCostOnlyThemselves'
<1> DEFINE entries == document.entries
           p == ParsedKev(entries)
           usable == {i \in DOMAIN entries : InWindow(entries[i])}
           last == Len(p)
           U == UsableIn(entries)
<1>1. PICK s : Newest(p, entries, s)
  BY ParsedKevIs
<1>2. PICK k : AfterEntries(p, last, k) /\ batch'.items = k.items
  BY <1>1, NormalisedIs DEF Newest
<1>3. DOMAIN p = 1 .. last /\ \A i \in U : i \in DOMAIN entries
  BY <1>1, LenProperties DEF Newest, UsableIn
<1> HIDE DEF p, last
<1>4. \A n \in DOMAIN p : s[n] \in U /\ p[n] = entries[s[n]]
  BY <1>1 DEF Newest
<1>5. \A m, n \in DOMAIN batch'.items : batch'.items[m].link = batch'.items[n].link => m = n
  BY <1>2 DEF AfterEntries
<1>6. ASSUME NEW n \in DOMAIN batch'.items
      PROVE  /\ OldestAllowed <= batch'.items[n].date /\ batch'.items[n].date <= FetchedAt + Skew
             /\ \E i \in usable :
                  batch'.items[n] = [link |-> entries[i].link, date |-> Corrected(entries[i].date)]
  <2>1. PICK m \in 1 .. last : IsFirst(p, last, m) /\ batch'.items[n] = StoredOf(p[m])
    BY <1>2, <1>6 DEF AfterEntries
  <2> DEFINE i == s[m]
  <2>2. i \in DOMAIN entries /\ p[m] = entries[i]
    BY <1>3, <1>4, <2>1
  <2>3. entries[i] \in Entry /\ InWindow(entries[i])
    BY <2>1, <2>2, ElementOfSeq DEF IsFirst
  <2> HIDE DEF i
  <2>4. OldestAllowed <= Corrected(entries[i].date)
        /\ Corrected(entries[i].date) <= FetchedAt + Skew
    BY <2>3, CorrectedIs
  <2>5. batch'.items[n] = [link |-> entries[i].link, date |-> Corrected(entries[i].date)]
    BY <2>1, <2>2 DEF StoredOf
  <2>6. batch'.items[n].date = Corrected(entries[i].date)
    BY <2>5
  <2> QED
    BY <2>2, <2>3, <2>4, <2>5, <2>6
<1>7. ASSUME NEW i \in usable
      PROVE  \/ \E n \in DOMAIN batch'.items : batch'.items[n].link = entries[i].link
             \/ entries[i].date = NoDate
             \/ Cardinality(AtLeastAsNew(i)) >= MaxEntries
  <2> SUFFICES ASSUME entries[i].date # NoDate
               PROVE  \/ \E n \in DOMAIN batch'.items : batch'.items[n].link = entries[i].link
                      \/ Cardinality(AtLeastAsNew(i)) >= MaxEntries
    OBVIOUS
  <2>1. i \in U
    BY <1>7 DEF UsableIn, Usable, InWindow
  <2>2. PICK q \in 1 .. Cardinality(U) : s[q] = i
    BY <1>1, <2>1 DEF Newest
  <2>3. CASE q \in DOMAIN p
    <3>1. p[q] = entries[i] /\ q \in 1 .. last
      BY <1>3, <1>4, <2>2, <2>3
    <3>2. entries[i].link \in k.seen
      BY <1>2, <1>7, <3>1 DEF AfterEntries
    <3> QED
      BY <1>2, <3>2 DEF AfterEntries
  <2>4. CASE q \notin DOMAIN p
    <3>1. ~ (q <= MaxEntries)
      BY <1>1, <2>4 DEF Newest
    <3>2. q > MaxEntries
      <4>1. q \in Int /\ MaxEntries \in Nat
        BY EntriesAssumption
      <4> QED
        BY <3>1, <4>1
    <3> QED
      BY <1>1, <2>2, <3>2, NoRoomBefore
  <2> QED
    BY <2>3, <2>4
<1> QED
  BY <1>5, <1>6, <1>7 DEF EntriesCostOnlyThemselves, AtLeastAsNew

(* What was stored is what the document in hand says.                      *)
DocumentInv ==
  /\ document \in [format : {"none", "rss", "kev"}, entries : Seq(Entry)]
  /\ document.format = "none" => batch = Refused
  /\ EntriesCostOnlyThemselves

LEMMA DocumentStep == DocumentInv /\ [EntriesNext]_entryVars => DocumentInv'
<1> SUFFICES ASSUME DocumentInv, [EntriesNext]_entryVars
             PROVE  DocumentInv'
  OBVIOUS
<1>0. Refused.refused = TRUE
  BY DEF Refused
<1>1. CASE Begin
  <2>1. PICK f \in {"rss", "kev"} : document' = [format |-> f, entries |-> <<>>]
    BY <1>1 DEF Begin
  <2>2. batch' = batch /\ batch = Refused
    BY <1>1 DEF Begin, DocumentInv
  <2>3. EntriesCostOnlyThemselves'
    BY <1>0, <2>2 DEF EntriesCostOnlyThemselves
  <2>4. <<>> \in Seq(Entry)
    OBVIOUS
  <2>5. document' \in [format : {"none", "rss", "kev"}, entries : Seq(Entry)]
    BY <2>1, <2>4
  <2>6. document'.format # "none"
    BY <2>1
  <2> QED
    BY <2>3, <2>5, <2>6 DEF DocumentInv
<1>2. CASE Publish
  <2>1. PICK e \in Entry : document' = [document EXCEPT !.entries = Append(@, e)]
    BY <1>2 DEF Publish
  <2>2. batch' = batch /\ batch = Refused
    BY <1>2 DEF Publish
  <2>3. EntriesCostOnlyThemselves'
    BY <1>0, <2>2 DEF EntriesCostOnlyThemselves
  <2>4. Append(document.entries, e) \in Seq(Entry)
    BY DEF DocumentInv
  <2>5. document' \in [format : {"none", "rss", "kev"}, entries : Seq(Entry)]
    BY <2>1, <2>4 DEF DocumentInv
  <2> QED
    BY <2>2, <2>3, <2>5 DEF DocumentInv
<1>3. CASE ReadDocument
  <2>1. /\ document' = document /\ document.format # "none"
        /\ document' \in [format : {"none", "rss", "kev"}, entries : Seq(Entry)]
        /\ document.entries \in Seq(Entry) /\ document.format \in {"rss", "kev"}
    BY <1>3 DEF ReadDocument, DocumentInv
  <2> DEFINE entries == IF document.format = "rss" THEN ParsedRss(document.entries)
                        ELSE ParsedKev(document.entries)
  <2>2. batch' = Refused \/ batch' = [refused |-> FALSE, items |-> NormalisedEntries(entries)]
    BY <1>3 DEF ReadDocument
  <2>3. CASE batch' = Refused
    BY <1>0, <2>1, <2>3 DEF DocumentInv, EntriesCostOnlyThemselves
  <2>4. CASE batch' = [refused |-> FALSE, items |-> NormalisedEntries(entries)]
    <3>1. batch'.items = NormalisedEntries(entries)
      BY <2>4
    <3>2. CASE document.format = "rss"
      <4>1. EntriesCostOnlyThemselves'
        BY <2>1, <3>1, <3>2, FeedCostsOnly
      <4> QED
        BY <2>1, <4>1 DEF DocumentInv
    <3>3. CASE document.format = "kev"
      <4>1. EntriesCostOnlyThemselves'
        BY <2>1, <3>1, <3>3, CatalogueCostsOnly
      <4> QED
        BY <2>1, <4>1 DEF DocumentInv
    <3> QED
      BY <2>1, <3>2, <3>3
  <2> QED
    BY <2>2, <2>3, <2>4
<1>4. CASE Forget
  <2>1. <<>> \in Seq(Entry) /\ document' = [format |-> "none", entries |-> <<>>]
        /\ batch' = Refused
    BY <1>4 DEF Forget
  <2>2. document' \in [format : {"none", "rss", "kev"}, entries : Seq(Entry)]
    BY <2>1
  <2> QED
    BY <1>0, <2>1, <2>2 DEF DocumentInv, EntriesCostOnlyThemselves
<1>5. CASE UNCHANGED entryVars
  <2>1. document' = document /\ batch' = batch
    BY <1>5 DEF entryVars
  <2>2. \A i : AtLeastAsNew(i)' = AtLeastAsNew(i)
    BY <2>1 DEF AtLeastAsNew
  <2>3. EntriesCostOnlyThemselves'
    <3> SUFFICES ASSUME ~ batch.refused
                 PROVE  EntriesCostOnlyThemselves'
      BY <2>1 DEF EntriesCostOnlyThemselves
    <3> DEFINE entries == document.entries
               list == batch'.items
               usable == {i \in DOMAIN entries : InWindow(entries[i])}
    <3>1. \A m, n \in DOMAIN list : list[m].link = list[n].link => m = n
      BY <2>1 DEF DocumentInv, EntriesCostOnlyThemselves
    <3>2. \A n \in DOMAIN list :
            /\ OldestAllowed <= list[n].date /\ list[n].date <= FetchedAt + Skew
            /\ \E i \in usable :
                 list[n] = [link |-> entries[i].link, date |-> Corrected(entries[i].date)]
      BY <2>1 DEF DocumentInv, EntriesCostOnlyThemselves
    <3>3. \A i \in usable :
            \/ \E n \in DOMAIN list : list[n].link = entries[i].link
            \/ document.format = "rss" /\ i > MaxEntries
            \/ document.format = "kev" /\ (entries[i].date = NoDate
                                           \/ Cardinality(AtLeastAsNew(i)) >= MaxEntries)
      BY <2>1 DEF DocumentInv, EntriesCostOnlyThemselves
    <3>4. document.format = "rss" =>
            \A n \in DOMAIN list : \A i \in usable :
              list[n].link = entries[i].link =>
                \E j \in usable : j <= i /\ list[n] = [link |-> entries[j].link,
                                                     date |-> Corrected(entries[j].date)]
      <4> SUFFICES ASSUME document.format = "rss", NEW n \in DOMAIN list, NEW i \in usable,
                          list[n].link = entries[i].link
                   PROVE  \E j \in usable : j <= i /\ list[n] = [link |-> entries[j].link,
                                                     date |-> Corrected(entries[j].date)]
        OBVIOUS
      <4>1. n \in DOMAIN batch.items /\ batch.items[n].link = entries[i].link /\ list = batch.items
        BY <2>1
      <4>2. EntriesCostOnlyThemselves
        BY DEF DocumentInv
      <4>3. \E j \in usable : j <= i /\ batch.items[n] = [link |-> entries[j].link,
                                                     date |-> Corrected(entries[j].date)]
        BY <4>1, <4>2, Zenon DEF EntriesCostOnlyThemselves
      <4> HIDE DEF list, usable
      <4> QED
        BY <4>1, <4>3
    <3> QED
      BY <2>1, <2>2, <3>1, <3>2, <3>3, <3>4 DEF EntriesCostOnlyThemselves
  <2> QED
    BY <2>1, <2>3 DEF DocumentInv
<1> QED
  BY <1>1, <1>2, <1>3, <1>4, <1>5 DEF EntriesNext

(* An entry costs only itself (parse_feed, parse_kev_catalogue and         *)
(* normalise_entries): the items stored of a document are of distinct      *)
(* links and dated within retention and skew; a usable entry is missing    *)
(* only for want of room; a link has the date of its first usable entry.   *)
THEOREM EntriesCostOnly == EntriesSpec => []EntriesCostOnlyThemselves
<1>1. EntriesInit => DocumentInv
  <2>1. <<>> \in Seq(Entry)
    OBVIOUS
  <2> QED
    BY <2>1 DEF EntriesInit, DocumentInv, EntriesCostOnlyThemselves, Refused
<1>2. DocumentInv => EntriesCostOnlyThemselves
  BY DEF DocumentInv
<1> QED
  BY <1>1, <1>2, DocumentStep, PTL DEF EntriesSpec
=============================================================================
