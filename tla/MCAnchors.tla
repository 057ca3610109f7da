------------------------------- MODULE MCAnchors -------------------------------
EXTENDS Anchors

\* Account x is the anchor's until its second toml, y from then on; the second toml has
\* another key and declares an asset more.
MCTomls ==
    << [key |-> "k1", ours |-> TRUE, accounts |-> {"x"}, currencies |-> {}],
       [key |-> "k2", ours |-> TRUE, accounts |-> {"y"}, currencies |-> {"eur"}] >>

\* One order, of the first account.
MCTerms == [o1 |-> [user |-> "a", dest |-> "x", memo |-> "m1", asset |-> "usdc", amount |-> "2",
                    due |-> TRUE]]

Tx(asked, key, user, ops, memo) ==
    [bump |-> FALSE, seq0 |-> asked # Unstated, login |-> asked, client |-> user, key |-> key,
     source |-> user, ops |-> ops, memo |-> memo]
Pay(from, to) == [type |-> "payment", from |-> from, to |-> to, asset |-> "usdc", amount |-> "2"]
Data == [type |-> "data", from |-> "a"]
Trust(asset) == [type |-> "trust", from |-> "a", adds |-> TRUE, asset |-> asset]
Sweep(to) == [type |-> "sweep", from |-> "a", to |-> to]

\* A challenge, and one with a payment; the withdrawal, the same of the other account,
\* the same with a merge on top; a payment to the anchor's newer account; a trustline.
MCTxs ==
    { Tx("anchor", "k1", "a", <<Data>>, "none"),
      Tx("anchor", "k1", "a", <<Data, Pay("a", "z")>>, "none"),
      Tx(Unstated, Unstated, "a", <<Pay("a", "x")>>, "m1"),
      Tx(Unstated, Unstated, "b", <<Pay("b", "x")>>, "m1"),
      Tx(Unstated, Unstated, "a", <<Pay("a", "x"), Sweep("z")>>, "m1"),
      Tx(Unstated, Unstated, "a", <<Pay("a", "y")>>, "none"),
      Tx(Unstated, Unstated, "a", <<Trust("eur")>>, "none") }
================================================================================
