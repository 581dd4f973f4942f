------------------------------- MODULE Routing -------------------------------
(***************************************************************************)
(* Where the relay sends an application that looks a host up and connects  *)
(* to it: DnsOverride.kt, RoutingRules.kt, GeoHideRoutingRules.kt and the  *)
(* choice of the target in LocalSocksRelay.kt.  The three rule books are   *)
(* asked at different moments, by different threads, and do not know of    *)
(* each other.                                                             *)
(*                                                                         *)
(* A name is a sequence of characters, because what counts is where its    *)
(* dots are: they are as normalised by all three (trimmed, in lower case,  *)
(* without a dot at the end).  Addresses are pairs: "fixed" and one of the *)
(* hosts file, "gateway" and a group, "real4" or "real6" and a name.       *)
(***************************************************************************)
EXTENDS Integers, Sequences, SequencesExt

CONSTANTS
    Hosts,      \* the names that are looked up
    RuleBooks   \* [exact, suffix, domains: sets of names, fixed: names to addresses]

(* No empty name is looked up or listed (takeIf { it.isNotEmpty () }).     *)
ASSUME RoutingAssumption ==
    /\ \A name \in Hosts : name \in Seq(STRING) /\ name # <<>>
    /\ \A book \in RuleBooks : \A name \in book.suffix \cup book.domains \cup DOMAIN book.fixed :
          name \in Seq(STRING) /\ name # <<>>

VARIABLES
    rules,    \* the rules of this build
    host,     \* the name that the application wants
    learned,  \* the address that it got from DNS
    conn,     \* its connection: the port, and the name in its ClientHello
    target    \* where that connection ended up

routingVars == <<rules, host, learned, conn, target>>

Unnamed == <<>>
Nowhere == <<>>

Fixed(name) == <<"fixed", rules.fixed[name]>>
Gateway(group) == <<"gateway", group>>
Real4(name) == <<"real4", name>>
Real6(name) == <<"real6", name>>
NoData == <<"none", "none">>

-----------------------------------------------------------------------------
(* The rule books *)

(* normalized == it || normalized.endsWith (".$it") *)
IsUnder(name, rule) ==
    \/ name = rule
    \/ LET dot == Len(name) - Len(rule)
       IN  dot > 0 /\ name[dot] = "." /\ SubSeq(name, dot + 1, Len(name)) = rule

(* RoutingRules.gatewayFor: names that count alone, and names that count   *)
(* with everything under them.                                             *)
GatewayFor(name) ==
    CASE name \in rules.exact -> Gateway("exact")
      [] name \notin rules.exact /\ (\E r \in rules.suffix : IsUnder(name, r)) -> Gateway("suffix")
      [] OTHER -> Nowhere

(* Mutant: the gateway is looked for before the address. *)
RuleForDomainFirst(name) ==
    CASE name \in rules.domains \cup DOMAIN rules.fixed -> Gateway("geohide")
      [] OTHER -> Nowhere

(* What GeoHide's lists say of a name alone. *)
RuleFor(name) ==
    CASE name \in DOMAIN rules.fixed -> Fixed(name)
      [] name \in rules.domains \ DOMAIN rules.fixed -> Gateway("geohide")
      [] OTHER -> Nowhere

Dots(name, k) == {i \in k .. Len(name) : name[i] = "."}

(* GeoHideRoutingRules.targetFor: what follows a dot is the next candidate.*)
TargetFor(name) ==
    LET from[k \in 1 .. Len(name) + 1] ==
            LET rule == RuleFor(SubSeq(name, k, Len(name)))
            IN  IF rule # Nowhere \/ Dots(name, k) = {} THEN rule ELSE from[Min(Dots(name, k)) + 1]
    IN  from[1]

-----------------------------------------------------------------------------
(* The two places where they are asked *)

(* An application looks a host up and then connects to what it was told.   *)
RoutingInit ==
    /\ rules \in RuleBooks
    /\ host \in Hosts
    /\ learned = Nowhere
    /\ conn = [port |-> 0, name |-> Unnamed]
    /\ target = Nowhere

Real(type, name) == IF type = "A" THEN Real4(name) ELSE Real6(name)

(* DnsOverride.response: a host with a fixed address has that address and  *)
(* no IPv6 address; for any other host the resolver behind is asked.       *)
DnsAnswer(type) ==
    IF host \in DOMAIN rules.fixed
    THEN IF type = "A" THEN Fixed(host) ELSE NoData
    ELSE Real(type, host)

(* One query; an answer without data sends the application to the other    *)
(* type of record.                                                         *)
LooksUp(type) ==
    /\ learned \in {Nowhere, NoData}
    /\ learned' = DnsAnswer(type)
    /\ UNCHANGED <<rules, host, conn, target>>

(* directTarget: an IPv6 destination is replaced by an IPv4 address of the *)
(* name, when there is a name and the lookup finds one.                    *)
DirectTargets(dest, name) ==
    {dest} \cup IF dest = Real6(host) /\ name # Unnamed THEN {Real4(name)} ELSE {}

(* handleConnect: only port 443 is routed, by the name in the ClientHello. *)
Targets(dest, port, name) ==
    CASE port # 443 -> {dest}
      [] port = 443 /\ name = Unnamed -> DirectTargets(dest, name)
      [] port = 443 /\ name # Unnamed /\ GatewayFor(name) # Nowhere -> {GatewayFor(name)}
      [] OTHER -> IF TargetFor(name) # Nowhere
                  THEN {TargetFor(name)} ELSE DirectTargets(dest, name)

(* The application connects to what it learned; its ClientHello names the  *)
(* host, or nothing that the parser finds.                                 *)
ConnectsTo(port, name) ==
    /\ learned \notin {Nowhere, NoData}
    /\ target = Nowhere
    /\ conn' = [port |-> port, name |-> name]
    /\ target' \in Targets(learned, port, name)
    /\ UNCHANGED <<rules, host, learned>>

RoutingNext ==
    \/ \E type \in {"A", "AAAA"} : LooksUp(type)
    \/ \E port \in {80, 443}, name \in {host, Unnamed} : ConnectsTo(port, name)

RoutingSpec == RoutingInit /\ [][RoutingNext]_routingVars

-----------------------------------------------------------------------------
(* Properties *)

(* The names that a rule can be about when this name is asked for.         *)
Tails(name) == {t \in Suffixes(name) : t # <<>> /\ IsUnder(name, t)}

Listed(name) == {t \in Tails(name) : t \in rules.domains \cup DOMAIN rules.fixed}

Routed(name) == name \in rules.exact \/ \E t \in Tails(name) : t \in rules.suffix

(* Of all the rules of the two lists that a name falls under, the one with *)
(* the longest name decides, whichever list it is in; a name listed in     *)
(* both has the address.  (targetFor asks one list after the other at each *)
(* of the name's dots; the sets say nothing of the order.)                 *)
MostSpecificDecides ==
    TargetFor(host) =
        IF Listed(host) = {} THEN Nowhere
        ELSE LET rule == CHOOSE t \in Listed(host) : \A u \in Listed(host) : Len(u) <= Len(t)
             IN  IF rule \in DOMAIN rules.fixed THEN Fixed(rule) ELSE Gateway("geohide")

(* A host with a fixed address is never reached at an address of its own:  *)
(* every connection to it ends at the fixed address or, if the relay has   *)
(* rules of its own for the name it read, at their gateway - on every      *)
(* port, with or without a name, over IPv4 or IPv6.                        *)
OverrideHolds ==
    (target # Nowhere /\ host \in DOMAIN rules.fixed) =>
        \/ target = Fixed(host)
        \/ conn.port = 443 /\ conn.name = host /\ Routed(host) /\ target = GatewayFor(host)

(* What becomes of a connection with a readable name depends on the name   *)
(* alone, not on the address that it was made to: the relay's own names    *)
(* (the exact ones, and those with all below them) go to their gateway     *)
(* whatever GeoHide's lists say, and a host in no list is left alone.      *)
RoutedAsListed ==
    (target # Nowhere /\ conn.port = 443 /\ conn.name = host) =>
        /\ Routed(host) <=> target \in {Gateway("exact"), Gateway("suffix")}
        /\ (host \in rules.exact) => target = Gateway("exact")
        /\ (~Routed(host) /\ Listed(host) = {}) => target \in {Real4(host), Real6(host)}

(* The three rule books and the two protocols agree about every host.      *)
RoutesAreRight == MostSpecificDecides /\ OverrideHolds /\ RoutedAsListed

=============================================================================
