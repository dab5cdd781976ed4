------------------------------ MODULE Catalogue ------------------------------
(***************************************************************************)
(* The catalogue of sources and topics under the operator's commands,      *)
(* src/app/cli/operations.py: each command is one transaction, commands of *)
(* the deployment (seed at every start) and of people run side by side     *)
(* under READ COMMITTED.  A row is a topic, a source or a link of both.    *)
(***************************************************************************)
EXTENDS Sequences, FiniteSets

CONSTANTS
    Operators,
    SeedTopics,     \* the slugs of TOPICS
    SeedSources,    \* SOURCES, in order: the slug and topics of each
    Commands        \* what operators type

ASSUME CatalogueAssumption ==
    /\ SeedSources \in Seq({SeedSources[i] : i \in DOMAIN SeedSources}) /\ SeedSources # <<>>
    /\ \A i \in DOMAIN SeedSources : SeedSources[i].topics \subseteq SeedTopics

VARIABLES
    rows,           \* the committed rows
    off,            \* the committed sources and topics that are disabled
    command         \* the commands under way

catVars == <<rows, off, command>>

TopicRows(topics) == {"topic"} \X topics
SourceRow(slug) == <<"source", slug>>
LinkRows(slug, topics) == {"link"} \X {slug} \X topics

(* An open transaction: rows inserted and deleted, rows about to be inserted and the step
   after that, the versions a running DELETE is after, rows an UPDATE turns on or off; "todo"
   are the sources still to be linked.  History: the rows others committed since the DELETE
   began, and those that others removed. *)
Run(typed, pc) ==
    [pc |-> pc, typed |-> typed, todo |-> <<>>, inserted |-> {}, deleted |-> {},
     pending |-> {}, then |-> "", targets |-> {}, turned |-> {}, came |-> {}, went |-> {}]
Idle == Run([do |-> "nothing"], "idle")

CatInit ==
    /\ rows = {} /\ off = {}
    /\ command = [o \in Operators |-> Idle]

-----------------------------------------------------------------------------
CommandAt(o, pc) == command[o].pc = pc
Typed(o) == command[o].typed
Does(o, what) == CommandAt(o, "look") /\ Typed(o).do = what

Selected(o) == (rows \ command[o].deleted) \cup command[o].inserted

StaysCommitted == UNCHANGED <<rows, off>>

Abandon(o) == command' = [command EXCEPT ![o] = Idle] /\ StaysCommitted

(* What a SELECT has not found is inserted in a statement of its own. *)
InsertNext(o, new, then, todo) ==
    /\ command' = [command EXCEPT ![o].pc = "insert", ![o].pending = new, ![o].then = then,
                                  ![o].todo = todo]
    /\ StaysCommitted

(* The INSERT waits while another transaction holds the same key; if that one committed,
   the unique constraint fails this command as a whole. *)
InsertRows(o) ==
    LET new == command[o].pending IN
    /\ CommandAt(o, "insert")
    /\ \A p \in Operators \ {o} : new \cap (command[p].inserted \cup command[p].deleted) = {}
    /\ IF new \cap Selected(o) # {} THEN Abandon(o)
       ELSE /\ command' = [command EXCEPT ![o].pc = command[o].then, ![o].inserted = @ \cup new,
                                          ![o].pending = {}]
            /\ StaysCommitted

Type(o) ==
    /\ CommandAt(o, "idle")
    /\ \E typed \in Commands : command' = [command EXCEPT ![o] = Run(typed, "look")]
    /\ StaysCommitted

(* seed_catalogue: first the topics that are missing. *)
SeedTheTopics(o) ==
    /\ Does(o, "seed")
    /\ InsertNext(o, TopicRows(SeedTopics) \ Selected(o), "sources", <<>>)

(* Then the sources: the SELECT before the loop tells which of them are missing. *)
SeedTheSources(o) ==
    LET entry(seed) == [slug |-> seed.slug, topics |-> seed.topics,
                        new |-> SourceRow(seed.slug) \notin Selected(o)] IN
    /\ CommandAt(o, "sources")
    /\ command' = [command EXCEPT ![o].pc = "source",
         ![o].todo = [i \in DOMAIN SeedSources |-> entry(SeedSources[i])]]
    /\ StaysCommitted

(* A slug that the rest of the system cannot round-trip, a feed URL that the guard refuses,
   an interval below a minute. *)
Malformed(o) == ~ Typed(o).usable

(* add_topic: a slug that is malformed or taken is refused. *)
AddTopic(o) ==
    LET new == TopicRows({Typed(o).slug}) IN
    /\ Does(o, "add-topic")
    /\ IF new \subseteq Selected(o) \/ Malformed(o) THEN Abandon(o)
       ELSE InsertNext(o, new, "commit", <<>>)

(* add_source: so is a source. *)
AddSource(o) ==
    LET typed == Typed(o) IN
    /\ Does(o, "add-source")
    /\ IF SourceRow(typed.slug) \in Selected(o) \/ Malformed(o) THEN Abandon(o)
       ELSE /\ command' = [command EXCEPT ![o].pc = "source", ![o].todo =
                 <<[slug |-> typed.slug, topics |-> typed.topics, new |-> TRUE]>>]
            /\ StaysCommitted

(* set_source_enabled, set_topic_enabled: no UPDATE is sent when the row that was loaded
   has the value already. *)
SetEnabled(o) ==
    LET typed == Typed(o) IN
    /\ Does(o, "enable") \/ Does(o, "disable")
    /\ IF typed.row \notin Selected(o) THEN Abandon(o)
       ELSE /\ command' = [command EXCEPT ![o].pc = "commit", ![o].turned =
                 IF (typed.row \in off) = (typed.do = "disable") THEN {} ELSE {typed.row}]
            /\ \A p \in Operators \ {o} : command'[o].turned \cap command[p].turned = {}
            /\ StaysCommitted

OldLinksAll(o) == {row \in Selected(o) : row[1] = "link"}

OldLinks(o) == {row \in Selected(o) : row[1] = "link" /\ row[2] = Typed(o).slug}

(* set_source_topics: the DELETE of the source's links ... *)
StartClearing(o) ==
    /\ Does(o, "set-topics")
    /\ IF SourceRow(Typed(o).slug) \notin Selected(o) THEN Abandon(o)
       ELSE /\ command' = [command EXCEPT ![o].pc = "clear", ![o].targets = OldLinks(o),
                                          ![o].came = {}]
            /\ StaysCommitted

(* ... waits for rows that another command is deleting and passes over them then; links
   that the other wrote in their place are other versions, which it has not seen. *)
EndClearing(o) ==
    LET typed == Typed(o)
        targets == command[o].targets IN
    /\ CommandAt(o, "clear")
    /\ \A p \in Operators \ {o} : targets \cap command[p].deleted = {}
    /\ command' = [command EXCEPT ![o].pc = "link", ![o].deleted = targets \cap rows,
         ![o].targets = {}, ![o].todo = <<[slug |-> typed.slug, topics |-> typed.topics]>>]
    /\ StaysCommitted

InsertSource(o) ==
    LET source == Head(command[o].todo) IN
    /\ CommandAt(o, "source")
    /\ InsertNext(o, IF source.new THEN {SourceRow(source.slug)} ELSE {}, "link",
                  command[o].todo)

(* _link_topics: an unknown topic undoes the command; links that are there stay. *)
LinkTopics(o) ==
    LET source == Head(command[o].todo)
        rest == Tail(command[o].todo) IN
    /\ CommandAt(o, "link")
    /\ IF ~ (TopicRows(source.topics) \subseteq Selected(o)) THEN Abandon(o)
       ELSE InsertNext(o, LinkRows(source.slug, source.topics) \ Selected(o),
                       IF rest = <<>> THEN "commit" ELSE "source", rest)

CommitCommand(o) ==
    LET after == Selected(o)
        turned == command[o].turned IN
    /\ CommandAt(o, "commit")
    /\ rows' = after
    /\ off' = IF Typed(o).do = "disable" THEN off \cup turned ELSE off \ turned
    /\ command' = [p \in Operators |->
         IF p = o THEN Idle
         ELSE IF CommandAt(p, "idle") THEN command[p]
         ELSE [command[p] EXCEPT !.targets = @ \ command[o].deleted,
                                 !.came = @ \cup command[o].inserted,
                                 !.went = @ \cup (rows \ after)]]

(* A lost connection, a deadlock or a killed process: nothing of the command stays. *)
CommandDies(o) == ~ CommandAt(o, "idle") /\ Abandon(o)

CatNext ==
    \E o \in Operators :
        \/ Type(o) \/ SeedTheTopics(o) \/ SeedTheSources(o) \/ AddTopic(o) \/ AddSource(o)
        \/ SetEnabled(o) \/ StartClearing(o) \/ EndClearing(o) \/ InsertSource(o)
        \/ LinkTopics(o) \/ InsertRows(o) \/ CommitCommand(o) \/ CommandDies(o)

CatSpec == CatInit /\ [][CatNext]_catVars

-----------------------------------------------------------------------------
SeedRows ==
    TopicRows(SeedTopics)
    \cup UNION {{SourceRow(SeedSources[i].slug)}
                \cup LinkRows(SeedSources[i].slug, SeedSources[i].topics) : i \in DOMAIN SeedSources}

LinksOf(slug, all) == {row \in all : row[1] = "link" /\ row[2] = slug}

(* seed_catalogue ("Existing rows are left exactly as they are ... Only missing rows and
   missing topic links are added") and set_source_topics, whatever other commands do at the
   same time: a seed adds seed rows only, removes none, turns nothing on or off, and leaves
   none missing but what was removed while it ran; and setting a source's topics touches
   nothing but its links, which are then those asked for, but for links that others wrote,
   or wrote again, after its DELETE began, or removed meanwhile. *)
CommandsTouchOnlyTheirOwn ==
    [][\A o \in Operators : CommitCommand(o) =>
        LET typed == command[o].typed IN
        /\ typed.do = "seed" =>
             /\ rows \subseteq rows' /\ rows' \ rows \subseteq SeedRows
             /\ SeedRows \ rows' \subseteq command[o].went
             /\ off' = off
        /\ typed.do = "set-topics" =>
             LET asked == LinkRows(typed.slug, typed.topics) IN
             /\ rows' \ LinksOf(typed.slug, rows') = rows \ LinksOf(typed.slug, rows)
             /\ LinksOf(typed.slug, rows') \ asked \subseteq command[o].came
             /\ asked \ rows' \subseteq command[o].went]_catVars
=============================================================================
