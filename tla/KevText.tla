------------------------------- MODULE KevText -------------------------------
(***************************************************************************)
(* The two facts of a KEV entry, whether ransomware uses it and when it is *)
(* due, travel as the last sentences of an item's summary: _summary in     *)
(* src/app/ingest/kev.py writes them, _truncate in normalise.py may        *)
(* shorten the text, and parse_kev_item in                                 *)
(* src/app/services/public_snapshot.py reads them back.  A text is a       *)
(* sequence of lexemes of some width: words, spaces, stops, sentences, and *)
(* what opens and closes markup.                                           *)
(***************************************************************************)
EXTENDS Integers, Sequences, FiniteSets, SequencesExt

CONSTANTS
    Piece,          \* what texts are made of
    Descriptions,   \* what the catalogue says of a vulnerability
    Ransomware,     \* the sentence, as a lexeme
    Dues,           \* the sentences with a date, as lexemes
    SentenceWidth,  \* the width of such a sentence; other lexemes are 1 wide
    MaxSummary,     \* MAX_SUMMARY_LENGTH
    MaxDescription, \* MAX_KEV_DESCRIPTION_CHARS
    NoDue

(* The sentences of the facts. *)
Facts == Dues \cup {Ransomware}

ASSUME KevAssumption ==
    /\ Facts \cup {" ", ".", "~", "w", "<", ">"} \subseteq Piece
    /\ Facts \cap {" ", ".", "~", "w", "<", ">"} = {}
    /\ Descriptions \subseteq Seq(Piece) /\ NoDue \notin Dues /\ Ransomware \notin Dues
    /\ SentenceWidth \in Nat \ {0} /\ MaxDescription \in Nat \ {0, 1}
    /\ MaxSummary \in Nat /\ MaxSummary > 2 * SentenceWidth + 4

VARIABLES
    stage,          \* "none", or what was last done with the entry
    catalogued,     \* an entry of the catalogue
    summary,        \* the summary of its item
    exported        \* what kev.json says of it

kevVars == <<stage, catalogued, summary, exported>>

NoFields == [description |-> <<>>, ransomware |-> FALSE, due |-> NoDue]

KevInit == stage = "none" /\ catalogued = NoFields /\ summary = <<>> /\ exported = NoFields

-----------------------------------------------------------------------------
(* len *)
Width(text) == Len(text) + (SentenceWidth - 1) * Cardinality({i \in DOMAIN text : text[i] \in Facts})

(* str.strip *)
Trimmed(text) ==
    LET inner == {i \in DOMAIN text : text[i] # " "} IN
    IF inner = {} THEN <<>>
    ELSE LET first == CHOOSE i \in inner : \A j \in inner : i <= j
             last == CHOOSE i \in inner : \A j \in inner : j <= i
         IN SubSeq(text, first, last)

(* text[:n]: of a lexeme that is cut through, some letters are left. *)
CutTo(text, n) ==
    LET whole == {k \in 0..Len(text) : Width(SubSeq(text, 1, k)) <= n}
        k == CHOOSE i \in whole : \A j \in whole : j <= i
        rest == IF k = Len(text) THEN 0 ELSE n - Width(SubSeq(text, 1, k))
    IN [i \in 1..(k + rest) |-> IF i <= k THEN text[i] ELSE "w"]

(* _truncate, and the end of clean_text. *)
Shortened(text, limit) ==
    IF Width(text) <= limit THEN text ELSE Append(Trimmed(CutTo(text, limit - 1)), "~")

(* One more lexeme; a space behind nothing or behind a space is dropped. *)
Squeezed(text) ==
    LET kept[n \in 0..Len(text)] ==
            IF n = 0 THEN <<>>
            ELSE IF text[n] = " " /\ (kept[n - 1] = <<>> \/ Last(kept[n - 1]) = " ")
            THEN kept[n - 1]
            ELSE Append(kept[n - 1], text[n])
    IN kept[Len(text)]

(* The n-th lexeme is markup.  "<" is whatever opens some, a tag, a comment or an element
   whose content goes too, spelled out or with entities, and ">" is what closes it. *)
InMarkup(text, n) == \E k \in 1..n : text[k] = "<" /\ \A j \in k..(n - 1) : text[j] # ">"

(* Markup that is never closed takes the rest of the text with it. *)
LeavesOpen(text) == \E k \in DOMAIN text : text[k] = "<" /\ \A j \in k..Len(text) : text[j] # ">"

(* nh3.clean and html.unescape, twice, and the sweep behind them: all markup goes. *)
Unmarked(text) ==
    LET left[n \in 0..Len(text)] ==
            IF n = 0 THEN <<>>
            ELSE IF InMarkup(text, n) THEN left[n - 1] ELSE Append(left[n - 1], text[n])
    IN left[Len(text)]

(* to_plain_text, of a text without control characters: then runs of spaces become one. *)
PlainText(text) == Trimmed(Squeezed(Unmarked(text)))

(* clean_text, which leaves markup alone. *)
CleanText(text, limit) == Shortened(Trimmed(Squeezed(text)), limit)

Ends(text) == Last(text) \in Facts \cup {".", "~"}

RoomOfAll(entry) == MaxSummary - 1

(* One for a full stop, and for each fact its width and a joining space. *)
Room(entry) ==
    MaxSummary - 1 - (IF entry.ransomware THEN SentenceWidth + 1 ELSE 0)
                   - (IF entry.due = NoDue THEN 0 ELSE SentenceWidth + 1)

(* The description, cut to leave room, and stopped. *)
Sentence(entry) ==
    LET short == Shortened(Trimmed(entry.description), Room(entry))
    IN IF short = <<>> \/ Ends(short) THEN short ELSE Append(short, ".")

Joined(text, fact) == IF text = <<>> THEN <<fact>> ELSE Append(Append(text, " "), fact)

(* _summary: the description and the facts, joined with spaces. *)
Summary(entry) ==
    LET used == IF entry.ransomware THEN Joined(Sentence(entry), Ransomware) ELSE Sentence(entry)
    IN IF entry.due = NoDue THEN used ELSE Joined(used, entry.due)

-----------------------------------------------------------------------------
EndsWith(text, sentences) ==
    /\ text # <<>> /\ Last(text) \in sentences
    /\ Len(text) = 1 \/ text[Len(text) - 1] = " "

(* parse_kev_item: the deadline at the end, then the ransomware sentence at the end of what
   is left. *)
Fields(text) ==
    LET all == Trimmed(text)
        dated == EndsWith(all, Dues)
        undated == IF dated THEN Trimmed(Front(all)) ELSE all
        used == EndsWith(undated, {Ransomware})
        description == IF used THEN Trimmed(Front(undated)) ELSE undated
    IN [description |-> CleanText(description, MaxDescription), ransomware |-> used,
        due |-> IF dated THEN Last(all) ELSE NoDue]

-----------------------------------------------------------------------------
Catalogued ==
    /\ stage = "none" /\ stage' = "catalogued"
    /\ \E d \in Descriptions, r \in BOOLEAN, due \in Dues \cup {NoDue} :
         catalogued' = [description |-> d, ransomware |-> r, due |-> due]
    /\ UNCHANGED <<summary, exported>>

(* A refresh: the summary goes through the normaliser, which shortens it to its column. *)
StoreSummary ==
    /\ stage = "catalogued" /\ stage' = "stored"
    /\ summary' = Shortened(PlainText(Summary(catalogued)), MaxSummary)
    /\ UNCHANGED <<catalogued, exported>>

ExportFields ==
    /\ stage = "stored" /\ stage' = "exported"
    /\ exported' = Fields(summary)
    /\ UNCHANGED <<catalogued, summary>>

(* The entry is withdrawn or its item pruned. *)
Withdraw ==
    /\ stage # "none" /\ stage' = "none"
    /\ catalogued' = NoFields /\ summary' = <<>> /\ exported' = NoFields

KevNext == Catalogued \/ StoreSummary \/ ExportFields \/ Withdraw
KevSpec == KevInit /\ [][KevNext]_kevVars

-----------------------------------------------------------------------------
(* A description that itself, or once its markup is dropped, ends as one of the facts does,
   where that fact is absent, is read as stating it. *)
Unambiguous(entry) ==
    LET d == Trimmed(entry.description) IN
    d = <<>> \/ entry.ransomware
    \/ /\ Last(d) # Ransomware
       /\ Last(d) \in Dues => entry.due # NoDue

(* _summary ("an over-long description would cut them off, and public_snapshot would publish
   a ransomware entry as not one, with no deadline"): however long the description is, and
   whatever sentences are in it, kev.json states the two facts that the catalogue stated,
   and a description that begins as the catalogue's does without its markup; unless the
   description, as shortened, leaves markup open. *)
KevFactsSurvive ==
    stage = "exported" /\ Unambiguous(catalogued) /\ ~ LeavesOpen(Sentence(catalogued)) =>
        LET stated == Squeezed(Unmarked(Trimmed(catalogued.description)))
            shown == exported.description IN
        /\ exported.ransomware = catalogued.ransomware
        /\ exported.due = catalogued.due
        /\ shown # <<>> => Width(Front(shown)) <= Width(stated)
        /\ \A i \in 1..(Len(shown) - 1) : shown[i] = stated[i] \/ shown[i] = "w"

(* The same promise of _summary, of every description that closes what it opens. *)
FactsReachTheReader ==
    stage = "exported" /\ Unambiguous(catalogued) /\ ~ LeavesOpen(catalogued.description) =>
        exported.ransomware = catalogued.ransomware /\ exported.due = catalogued.due
=============================================================================
