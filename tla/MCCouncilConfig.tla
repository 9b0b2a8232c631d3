---------------------------- MODULE MCCouncilConfig ----------------------------
(* Two seats, three models of two providers, two themes, and the documents
   that tell the readers and the writers apart. *)
EXTENDS CouncilConfig

MCTexts == {"builder", "critic", "m1", "m2", "m3", "a", "b", NoLevel, "low", "high",
            "bad", "off", "advisory", "active"}
MCFrontmatter == [s \in Seats |-> [model |-> "m1", thinking |-> NoLevel]]
MCSeatRows == <<"builder", "critic">>
MCGroups == <<<<[model |-> "m1", level |-> NoLevel],
                [model |-> "m2", level |-> "low"], [model |-> "m2", level |-> "high"]>>,
              <<[model |-> "m3", level |-> NoLevel]>>>>
MCName == [m1 |-> <<"a">>, m2 |-> <<"b">>, m3 |-> <<"a">>]

Seat(s, v) == [seat |-> s, value |-> v]
Doc(ms, theme, gate) == Document(Object(ms), theme, "own", gate)

MCTyped == {[model |-> "m3", thinking |-> NoLevel], [model |-> "m2", thinking |-> "low"]}

MCDocs == {
    \* the scaffold, with a gate
    Doc(<<>>, "t1", Object(<<"advisory">>)),
    \* a suffix and a level on one model, and another theme
    Doc(<<Seat("builder", Value("m2", "high", <<"low">>)),
          Seat("critic", Value(NoModel, NoLevel, <<"low">>))>>, "t2", NoSection),
    \* duplicated keys
    Doc(<<Seat("builder", Value("m2", NoLevel, <<"low", "high">>)),
          Seat("critic", Value("m3", NoLevel, <<>>)),
          Seat("builder", Value("m3", "low", <<"high">>))>>, "t1", Object(<<"off", "active">>)),
    \* a level nobody knows, and a gate nobody reads
    Doc(<<Seat("critic", Value("m2", "high", <<"bad">>))>>, "off", [is |-> "bad", members |-> <<>>]),
    \* no council section, the theme on the root's first line
    Document(NoSection, "t2", "brace", NoSection)}
=============================================================================
