----------------------------- MODULE MCSession ------------------------------
(* Instances of Session for TLC: what the user types.                      *)
EXTENDS Session, TLC

type(c) == [cmd |-> c]
send(k, i) == [cmd |-> "send", msg |-> [kind |-> k, id |-> i]]
image(ids) == [cmd |-> "image", chunks |-> [k \in DOMAIN ids |-> [kind |-> "chunk", id |-> ids[k]]]]

MixedScripts == {
  <<send("status", 0), type("open"), send("status", 1), image(<<2, 5>>), send("status", 3), send("shutdown", 4)>>,
  <<type("open"), send("load", 1), send("seq", 2), image(<<3>>), send("param", 4), type("quit")>>,
  <<type("open"), send("status", 1), type("close"), type("open"), send("run", 2), type("quit")>>,
  <<type("open"), type("close"), type("open"), image(<<1>>), send("shutdown", 2)>>,
  <<type("open"), send("run", 1), send("shutdown", 2), type("open"), send("status", 3)>>,
  <<type("open"), image(<<1>>), type("close"), type("open")>>
}
=============================================================================
