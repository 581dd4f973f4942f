----------------------------- MODULE MCGateways -----------------------------
(***************************************************************************)
(* Which gateway a group has, which connection goes to it, and which name  *)
(* a mapped address stands for: the selector, the rules and the mapped DNS *)
(* of the engine, checked one at a time.  A behaviour is of the part that  *)
(* its first state names; the others stay as they are.                     *)
(***************************************************************************)
EXTENDS MCGatewaySelector, Routing, MappedDns

(* Names of up to three labels over two letters; at most one rule of the   *)
(* relay's own, two names and one address of GeoHide's.                    *)
MCHosts ==
    {<<"a">>, <<"b", "a">>, <<"a", ".", "a">>, <<"b", ".", "a">>, <<"a", "b", ".", "a">>,
     <<"a", ".", "b">>, <<"a", ".", "b", ".", "a">>, <<"b", ".", "a", ".", "a">>}

RuleNames == {<<"a">>, <<"a", ".", "a">>, <<"b", ".", "a">>}

AtMostOne == {{}} \cup {{n} : n \in RuleNames}

OwnRules == {<<{}, {}>>} \cup {<<{n}, {}>> : n \in RuleNames} \cup {<<{}, {n}>> : n \in RuleNames}

MCRuleBooks ==
    {[exact |-> own[1], suffix |-> own[2], domains |-> d, fixed |-> [n \in f |-> n]] :
        own \in OwnRules, d \in {s \in SUBSET RuleNames : Cardinality(s) <= 2}, f \in AtMostOne}

(* Up to two questions of any kind, or more names than there are addresses *)
MCQueries ==
    UNION {[1 .. k -> Hostnames \cup {NoHost}] : k \in 1 .. 2}
      \cup {<<p, q, r>> \in Hostnames \X Hostnames \X Hostnames : Cardinality({p, q, r}) = 3}

VARIABLE part

SelectorPart == part = "selector" /\ Next /\ UNCHANGED <<part, routingVars, dnsVars>>

RoutingPart == part = "routing" /\ RoutingNext /\ UNCHANGED <<part, vars, dnsVars>>

DnsPart == part = "dns" /\ DnsNext /\ UNCHANGED <<part, vars, routingVars>>

NoRouting ==
    /\ rules = [exact |-> {}, suffix |-> {}, domains |-> {}, fixed |-> <<>>]
    /\ host = <<"a">> /\ learned = Nowhere /\ target = Nowhere
    /\ conn = [port |-> 0, name |-> Unnamed]

MCInit ==
    /\ part \in {"selector", "routing", "dns"}
    /\ Init /\ DnsInit
    /\ part = "selector" \/ prefs = [g \in Groups |-> None]
    /\ IF part = "routing" THEN RoutingInit ELSE NoRouting

MCSpec == MCInit /\ [][SelectorPart \/ RoutingPart \/ DnsPart]_<<part, vars, routingVars, dnsVars>>
=============================================================================
