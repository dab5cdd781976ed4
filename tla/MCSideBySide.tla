----------------------------- MODULE MCSideBySide -----------------------------
(***************************************************************************)
(* Small instances of eleven components that share no variable, checked    *)
(* in one run: a behaviour is a behaviour of the component named by        *)
(* "part", and the others keep their initial state, so that the states of  *)
(* the run are the sum and not the product of theirs.                      *)
(***************************************************************************)
EXTENDS SavedItems, MCPreferences, Catalogue, FeedPages, MCUrlMutes, FeedFetch, FeedEntries,
        MCKevText, Readiness, Snapshots, PagedResource

VARIABLE part

partsVars == <<vars, prefVars, catVars, feedVars, muteVars, fetchVars, entryVars,
               kevVars, probeVars, snapVars, pagedVars, part>>

(* The commands of the operators. *)
MCSeedSources ==
    <<[slug |-> "bbc", topics |-> {"news"}], [slug |-> "lwn", topics |-> {"news", "linux"}]>>
MCCommands == {
    [do |-> "seed"],
    [do |-> "add-topic", slug |-> "linux", usable |-> TRUE],
    [do |-> "add-topic", slug |-> "Linux!", usable |-> FALSE],
    [do |-> "add-source", slug |-> "lwn", topics |-> {"linux"}, usable |-> TRUE],
    [do |-> "disable", row |-> <<"source", "bbc">>],
    [do |-> "enable", row |-> <<"source", "bbc">>],
    [do |-> "set-topics", slug |-> "lwn", topics |-> {"news"}],
    [do |-> "set-topics", slug |-> "lwn", topics |-> {"linux"}]}

(* The items and the reader of the feed. *)
MCKind == <<
    [feed |-> "bbc", topics |-> {"news"}, terms |-> {"w"}, language |-> "en"],
    [feed |-> "lwn", topics |-> {"news", "linux"}, terms |-> {"u"}, language |-> Omitted],
    [feed |-> "bbc", topics |-> {"linux"}, terms |-> {"w", "u"}, language |-> "fr"]>>
Plain == [default |-> TRUE, sources |-> {}, topics |-> {"news", "linux"}, words |-> {},
          tags |-> {}, urls |-> {}, languages |-> {}]
Narrow == [Plain EXCEPT !.default = FALSE, !.sources = {"bbc"}, !.topics = {"linux"},
                        !.languages = {"fr"}]
Muting == [Plain EXCEPT !.default = FALSE, !.words = {"u"}, !.tags = {"linux"}, !.urls = {"u"}]
MCProfiles == {Plain, Narrow, Muting}
MCFilters == {
    [sources |-> Omitted, topics |-> Omitted, read |-> "unread", query |-> {}],
    [sources |-> {"bbc"}, topics |-> {"news", "linux"}, read |-> "all", query |-> {"w"}]}

(* What a source names, and where that is. *)
MCHostOf == ("feed" :> "a.org") @@ ("moved" :> "a.org") @@ ("cdn" :> "2.2.2.2")
            @@ ("http" :> "a.org") @@ ("literal" :> "10.0.0.1")

(* One file, or the one for the dashboard and the one for the KEV page. *)
MCJobs == {<<"public">>, <<"public", "kev">>}

-----------------------------------------------------------------------------
PartsInit ==
    /\ Init /\ PrefInit /\ CatInit /\ FeedInit /\ MuteInit
    /\ FetchInit /\ EntriesInit /\ KevInit /\ ProbeInit /\ SnapInit
    /\ PagedInit
    /\ part \in {"saved", "pref", "cat", "feed", "mute", "fetch", "entries", "kev",
                "probe", "snap", "paged"}

(* Only this part moves. *)
Only(name) ==
    /\ part = name /\ UNCHANGED part
    /\ name # "saved" => UNCHANGED vars
    /\ name # "pref" => UNCHANGED prefVars
    /\ name # "cat" => UNCHANGED catVars
    /\ name # "feed" => UNCHANGED feedVars
    /\ name # "mute" => UNCHANGED muteVars
    /\ name # "fetch" => UNCHANGED fetchVars
    /\ name # "entries" => UNCHANGED entryVars
    /\ name # "kev" => UNCHANGED kevVars
    /\ name # "probe" => UNCHANGED probeVars
    /\ name # "snap" => UNCHANGED snapVars
    /\ name # "paged" => UNCHANGED pagedVars

PartsNext ==
    \/ Only("saved") /\ Next
    \/ Only("pref") /\ PrefNext
    \/ Only("cat") /\ CatNext
    \/ Only("feed") /\ FeedNext
    \/ Only("mute") /\ MuteNext
    \/ Only("fetch") /\ FetchNext
    \/ Only("entries") /\ EntriesNext
    \/ Only("kev") /\ KevNext
    \/ Only("probe") /\ ProbeNext
    \/ Only("snap") /\ SnapNext
    \/ Only("paged") /\ PagedNext

PartsSpec == PartsInit /\ [][PartsNext]_partsVars
=============================================================================
