------------------------------ MODULE MCShell ------------------------------
EXTENDS Shell

MCBegins == {<<"p", "pm">>, <<"f", "fs">>, <<"q", "quit">>, <<"hi", "hints">>,
             <<"re", "reconfig">>, <<"re", "revision_id">>, <<"rec", "reconfig">>}

Hint(k, v) == [kind |-> "pair", key |-> k, val |-> v]
Other(kind) == [kind |-> kind, key |-> "", val |-> ""]

MCInput == {<<>>, <<"p">>, <<"list">>, <<"x">>, <<"q">>, <<"fs">>, <<"f", "get", "hi">>,
            <<"fs", "set", "re">>, <<"fs", "set", "hi">>, <<"fs", "set", "rec">>, <<"fs", "get", "clear">>}
           \cup {<<"fs", "set", "hi", h>> :
                   h \in {Hint("a", "no"), Hint("b", "yes"), Hint("c", ""), Other("junk")}}

Option(from, ls) == [from |-> from, lines |-> ls]

MCHintOption == <<
  Option("direct", <<Hint("a", "yes")>>),
  Option("direct", <<Hint("c", "1")>>),
  Option("sysfs", <<Other("comment"), Hint("b", "no"), Other("junk"), Hint("b", "")>>),
  Option("file", <<Hint("a", "1"), Other("comment"), Other("[codec]"), Other("junk"),
                   Other("[hint]"), Hint("b", "yes")>>),
  Option("file", <<Other("junk"), Hint("d", "no"), Hint("a", "")>>),
  Option("none", <<>>)>>

MCWork == {"repoll", "jackpoll"}
MCAgain == [w \in MCWork |-> IF w = "jackpoll" THEN {"jackpoll"} ELSE {}]
=============================================================================
