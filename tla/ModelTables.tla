---------------------------- MODULE ModelTables ----------------------------
(***************************************************************************)
(* Which provider serves a model and what its tokens cost: the prefix      *)
(* tables of providers/registry.py and services/pricing.py.  A name is the *)
(* sequence of its parts, cut where one entry of a table ends and another  *)
(* goes on, so that startswith is IsPrefix.                                *)
(***************************************************************************)
EXTENDS Naturals, Sequences, SequencesExt

\* _MODEL_PREFIX_ROUTES: a model of these is served by openai, if configured.
Routes == << <<"gpt-">>, <<"o1">>, <<"o3">>, <<"o4">> >>

Resolve(model, providers) ==
    IF "openai" \in providers /\ \E i \in DOMAIN Routes : IsPrefix(Routes[i], model)
    THEN "openai" ELSE "ollama"

Entry(prefix, prompt, completion) ==
    [prefix |-> prefix, price |-> [prompt |-> prompt, completion |-> completion]]

\* The table in alphabetical order.
PriceTableSorted ==
    << Entry(<<"gpt-", "3.5", "-turbo">>, 50, 150),
       Entry(<<"gpt-", "4">>, 3000, 6000),
       Entry(<<"gpt-", "4", "-turbo">>, 1000, 3000),
       Entry(<<"gpt-", "4", "o">>, 250, 1000),
       Entry(<<"gpt-", "4", "o", "-mini">>, 15, 60) >>

\* _PRICE_PER_1M_TOKENS_USD, in units of 1e-8 dollars per token.
PriceTable ==
    << Entry(<<"gpt-", "4", "o", "-mini">>, 15, 60),
       Entry(<<"gpt-", "4", "o">>, 250, 1000),
       Entry(<<"gpt-", "4", "-turbo">>, 1000, 3000),
       Entry(<<"gpt-", "4">>, 3000, 6000),
       Entry(<<"gpt-", "3.5", "-turbo">>, 50, 150) >>

DefaultPrice == [prompt |-> 100, completion |-> 300]
OllamaPrice == [prompt |-> 0, completion |-> 0]

\* The first entry that the name starts with.
PriceFor(model, provider) ==
    LET hits == {i \in DOMAIN PriceTable : IsPrefix(PriceTable[i].prefix, model)}
    IN  IF provider = "ollama" THEN OllamaPrice
        ELSE IF hits = {} THEN DefaultPrice
        ELSE PriceTable[Min(hits)].price

\* What the table means: the price of the longest entry.
MostSpecificPrice(model) ==
    LET hits == {e \in Range(PriceTable) : IsPrefix(e.prefix, model)}
        longest == CHOOSE e \in hits : \A f \in hits : Len(f.prefix) <= Len(e.prefix)
    IN  IF hits = {} THEN DefaultPrice ELSE longest.price
=============================================================================
