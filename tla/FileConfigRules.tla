--------------------------- MODULE FileConfigRules ---------------------------
(***************************************************************************)
(* What a configuration file may say, how it is put into its normal form    *)
(* when it is loaded or patched, and how a patch is merged into it.         *)
(*                                                                         *)
(* A text is a sequence.  A server's id is a name, then the numbers that    *)
(* were added to tell it from others of the same name ("nas", "nas-2",      *)
(* "nas-2-2").  A rule's name is its place among all names, or blank.       *)
(***************************************************************************)
EXTENDS Integers, Sequences, FiniteSets

Texts == Seq(STRING \cup Nat)
Blank == <<>>
IsBlank(text) == text = Blank

Servers == [id: Texts, name: Texts, url: Texts, password: Texts]
Categories == [name: Texts, tag: Texts, server: Texts]
Watchers == [enabled: BOOLEAN, interval: Nat]
RuleNames == {name \in Seq(Nat) : Len(name) <= 1}
Rules == [name: RuleNames, priority: Int, keywords: Seq(Texts)]

Configurations ==
  [servers: Seq(Servers), categories: Seq(Categories), watcher: Watchers, rules: Seq(Rules),
   ip: STRING, origins: Seq(Texts), token: Texts, cookie: Texts]

Fields == {"servers", "categories", "watcher", "rules", "ip", "origins", "token", "cookie"}

Clamp(n, low, high) == IF n < low THEN low ELSE IF n > high THEN high ELSE n

Named(items, field) == {items[i][field] : i \in DOMAIN items}
Distinct(items, field) ==
  \A i, j \in DOMAIN items : items[i][field] = items[j][field] => i = j
-----------------------------------------------------------------------------
(* The normal form.                                                        *)

\* The elements of a sequence at some of its places, in an order of these.
Arranged(seq, places, Before(_, _)) ==
  [k \in 1 .. Cardinality(places) |->
     seq[CHOOSE i \in places : Cardinality({j \in places : Before(j, i)}) = k - 1]]

\* What a server is called: by its id, or else by its name, or else by its address.
IdBase(server) ==
  IF ~IsBlank(server.id) THEN server.id
  ELSE IF ~IsBlank(server.name) THEN server.name ELSE server.url

\* The first of base, base-2, base-3 ... that is not taken.
UniqueId(base, used) ==
  IF base \notin used THEN base
  ELSE LET free == {n \in 2 .. Cardinality(used) + 2 : Append(base, n) \notin used}
       IN  Append(base, CHOOSE n \in free : \A m \in free : n <= m)

NormalIds(servers) ==
  LET ids[i \in DOMAIN servers] ==
        UniqueId(IdBase(servers[i]), {ids[j] : j \in 1 .. i - 1})
  IN  ids

NormalServers(servers) ==
  [i \in DOMAIN servers |-> [servers[i] EXCEPT !.id = NormalIds(servers)[i]]]

\* A category that names no server takes the first one.
NormalCategories(categories, servers) ==
  [i \in DOMAIN categories |->
     IF IsBlank(categories[i].server) /\ servers # <<>>
     THEN [categories[i] EXCEPT !.server = servers[1].id]
     ELSE categories[i]]

NormalWatcher(watcher) == [watcher EXCEPT !.interval = Clamp(@, 60, 86400)]

\* The keywords there are, each where it comes first.
NormalKeywords(words) ==
  LET first == {i \in DOMAIN words : /\ ~IsBlank(words[i])
                                     /\ \A j \in 1 .. i - 1 : words[j] # words[i]}
  IN  Arranged(words, first, <)

NameOrder(name) == IF IsBlank(name) THEN -1 ELSE name[1]

\* The order in which rules are tried: by priority, then by name.
RuleBefore(rules, i, j) ==
  LET one == rules[i] other == rules[j] IN
  \/ one.priority > other.priority
  \/ one.priority = other.priority /\ NameOrder(one.name) < NameOrder(other.name)
  \/ /\ one.priority = other.priority /\ NameOrder(one.name) = NameOrder(other.name)
     /\ i < j

NormalRules(rules) ==
  LET kept == [i \in DOMAIN rules |-> [rules[i] EXCEPT !.keywords = NormalKeywords(@)]]
  IN  Arranged(kept, DOMAIN kept, LAMBDA i, j : RuleBefore(kept, i, j))

Normal(config) ==
  LET servers == NormalServers(config.servers) IN
  [config EXCEPT !.servers = servers,
                 !.categories = NormalCategories(@, servers),
                 !.watcher = NormalWatcher(@),
                 !.rules = NormalRules(@)]
-----------------------------------------------------------------------------
(* What is refused.                                                        *)

TooShort == <<"short">>

\* An origin is a scheme, a host and a port, and nothing after them.
OriginsAllowed(origins) == \A i \in DOMAIN origins : Len(origins[i]) = 3

\* A long token, and one whenever the service listens beyond this host.
ManagementAllowed(config) ==
  /\ config.token # TooShort /\ OriginsAllowed(config.origins)
  /\ config.ip # "loopback" => ~IsBlank(config.token)

ServersAllowed(servers) == \A i \in DOMAIN servers : ~IsBlank(servers[i].url)

CategoriesAllowed(categories, servers) ==
  /\ \A i \in DOMAIN categories :
       /\ ~IsBlank(categories[i].name)
       /\ ~IsBlank(categories[i].tag)
       /\ categories[i].server \in Named(servers, "id")
  /\ Distinct(categories, "name")
  /\ Distinct(categories, "tag")

RulesAllowed(rules) ==
  /\ \A i \in DOMAIN rules : ~IsBlank(rules[i].name) /\ rules[i].keywords # <<>>
  /\ Distinct(rules, "name")

\* normalize_loaded_file_config succeeds.
Allowed(config) ==
  LET normal == Normal(config) IN
  /\ ServersAllowed(normal.servers)
  /\ CategoriesAllowed(normal.categories, normal.servers)
  /\ RulesAllowed(normal.rules)
  /\ ManagementAllowed(normal)
-----------------------------------------------------------------------------
(* Patches: a function from the fields that are sent to what is sent.      *)

Keep == <<"keep">>
Clear == <<"clear">>

Secret(current, sent) == IF sent = Keep THEN current ELSE IF sent = Clear THEN Blank ELSE sent

\* A server's password stays with its id.
PasswordOf(servers, id) ==
  LET same == {i \in DOMAIN servers : servers[i].id = id} IN
  IF same = {} THEN Blank
  ELSE servers[CHOOSE i \in same : \A j \in same : i <= j].password

MergeServers(current, sent) ==
  LET normal == NormalServers(sent) IN
  [i \in DOMAIN normal |->
     [normal[i] EXCEPT !.password = Secret(PasswordOf(current, normal[i].id), @)]]

\* A secret is not sent to be blank.
PatchAllowed(patch) ==
  /\ \A f \in {"token", "cookie"} \cap DOMAIN patch : ~IsBlank(patch[f])
  /\ "servers" \in DOMAIN patch =>
       \A i \in DOMAIN patch.servers : ~IsBlank(patch.servers[i].password)

Replaced(current, patch) ==
  [f \in DOMAIN current |->
     IF f \notin DOMAIN patch THEN current[f]
     ELSE IF f \in {"token", "cookie"} THEN Secret(current[f], patch[f])
     ELSE IF f = "servers" THEN MergeServers(current[f], patch[f])
     ELSE patch[f]]

Merged(current, patch) == Normal(Replaced(current, patch))

\* Automation is switched on only by a patch that says so twice.
Confirmed(current, next, confirmed) ==
  (~current.watcher.enabled /\ next.watcher.enabled) => confirmed
=============================================================================
