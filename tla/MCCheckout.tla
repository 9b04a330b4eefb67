----------------------------- MODULE MCCheckout -----------------------------
EXTENDS Checkout

o1 == Text("o1", 2, FALSE, FALSE)
o2 == Text("o2", 2, FALSE, FALSE)
MCOrderTexts == {o1, [o1 EXCEPT !.padded = TRUE], o2,
                 Text("", 0, TRUE, FALSE)}
MCCurrencyTexts ==
    {Text("usd", 3, TRUE, TRUE), Text("eur", 3, FALSE, FALSE),
     Text("e", 1, TRUE, FALSE)}
MCWords == {"o1", "o2", "", "usd", "eur", "e", "name", "Long", "Eu"}
MCAmounts == {0, 15, 20, 30}

Maybe(f, from, values) == OneOrNone(f, {Value(from, v) : v \in values})

MCEnvironments ==
    {Merge(Merge(k, u), Merge(t, s)) :
        k \in Maybe("api_key", "environment", {"good", "bad"}),
        u \in Maybe("base_url", "environment", UrlIs),
        t \in Maybe("timeout", "environment", TimeoutIs),
        s \in Maybe("default_sandbox", "environment", SandboxIs)}

MCOverrides ==
    {Merge(Merge(k, u), Merge(t, a)) :
        k \in Maybe("api_key", "keyword", {"good"}),
        u \in Maybe("base_url", "keyword", UrlIs),
        t \in Maybe("timeout", "keyword", {"positive", "zero"}),
        a \in Maybe("user_agent", "keyword", AgentIs)}

MCSettings ==
    {[kind |-> "falsy"], [kind |-> "no mapping"]} \cup
    {[kind |-> "mapping", fields |-> Merge(Merge(k, u), t)] :
        k \in Maybe("api_key", "settings", KeyIs),
        u \in Maybe("base_url", "settings", UrlIs),
        t \in Maybe("timeout", "settings", TimeoutIs)}

name == Text("name", 4, FALSE, FALSE)
blank == Text("", 0, TRUE, FALSE)
MCSamples ==
    [text |-> {name, blank, Text("Long", 300, FALSE, TRUE),
               Text("Eu", 2, TRUE, TRUE)},
     money |-> {Money(0), Money(15), Money(20)},
     number |-> {Number(0), Number(1), Number(101)},
     flag |-> Flags,
     url |-> {Url, Other("url", "no url", FALSE)},
     choice |-> {Other("choice", "second", TRUE),
                 Other("choice", "unknown", FALSE)},
     map |-> {Other("map", "pairs", TRUE)},
     list |-> {List("list", <<>>), List("list", <<"event">>)},
     items |-> {List("items", <<>>),
                List("items", <<[price |-> name]>>),
                List("items", <<[id |-> name, deleted |-> Flag(TRUE)],
                                [price |-> name, id |-> blank,
                                 quantity |-> None]>>),
                List("items", <<[price |-> name], [id |-> blank]>>)}]
=============================================================================
