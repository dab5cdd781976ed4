---------------------------- MODULE MCPreferences ----------------------------
(* One account with a list of topics and a list of words. *)
EXTENDS Preferences

MCLists == <<"topics", "words">>
MCDefaults == [topics |-> {"a", "b"}, words |-> {}]
MCPatches == {
    [lists |-> [topics |-> {"b"}], scalars |-> {"light"}],
    [lists |-> [topics |-> {}, words |-> {"x"}], scalars |-> {"dark"}],
    [lists |-> [topics |-> {"a"}, words |-> {"?"}], scalars |-> {}]}
=============================================================================
