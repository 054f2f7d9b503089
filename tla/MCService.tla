------------------------------ MODULE MCService ------------------------------
EXTENDS StorageService

Server(id, password) ==
  [id |-> id, name |-> <<"nas">>, url |-> <<"http">>, password |-> password]
Category == [name |-> <<"movies">>, tag |-> <<"film">>, server |-> <<>>]
Rule(n, priority) == [name |-> <<n>>, priority |-> priority, keywords |-> <<<<"web">>, <<"web">>>>]
Watcher(enabled, interval) == [enabled |-> enabled, interval |-> interval]

MCDefault ==
  [servers |-> <<>>, categories |-> <<>>, rules |-> <<>>, watcher |-> Watcher(TRUE, 600),
   ip |-> "loopback", origins |-> <<>>, token |-> <<>>, cookie |-> <<>>]

\* Two servers of one name, rules that are not in their order, automation off.
Written ==
  [MCDefault EXCEPT !.servers = <<Server(<<>>, <<"one">>), Server(<<>>, <<"two">>)>>,
                    !.categories = <<Category>>, !.watcher = Watcher(FALSE, 5),
                    !.rules = <<Rule(1, 0), Rule(2, 9)>>,
                    !.ip = "any", !.token = <<"long">>,
                    !.origins = <<<<"https", "host", "port">>>>]

\* Open to other hosts without a token.
Unguarded == [MCDefault EXCEPT !.ip = "any"]

MCFirstFiles == {Null, Written, Unguarded}

Found(version, objects, sound) ==
  [version |-> version, objects |-> objects, sound |-> sound, mode |-> "delete", rows |-> {}]
MCFirstDatabases ==
  {Null, Found(5, {"tables", "indexes"}, TRUE), Found(4, {"tables"}, TRUE),
   Found(6, {"tables", "indexes", "obsolete"}, TRUE),
   Found(6, {"tables", "indexes"}, FALSE)}

Patch(fields, confirmed) == [fields |-> fields, confirmed |-> confirmed]
MCCookies == {<<"cookie">>}
MCPatches ==
  {Patch([watcher |-> Watcher(TRUE, 600), token |-> Clear,
          servers |-> <<Server(<<"nas">>, Keep), Server(<<>>, <<"two">>)>>], TRUE),
   Patch([watcher |-> Watcher(TRUE, 600)], FALSE)}
=============================================================================
