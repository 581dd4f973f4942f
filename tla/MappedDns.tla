------------------------------ MODULE MappedDns ------------------------------
(***************************************************************************)
(* The mapped DNS of the engine, hev-mapped-dns.c: a query for an A record *)
(* is answered with an address made up for the name, and a connection to   *)
(* such an address is a connection to the name.  There are MaxRecords      *)
(* addresses; the one used longest ago is given to the next new name.      *)
(* The app's configuration has no mapdns section: this is the library's.   *)
(*                                                                         *)
(* An address is the number of its record: lookup reads no more of it than *)
(* the bits outside the netmask.                                           *)
(***************************************************************************)
EXTENDS Integers, Sequences, SequencesExt

CONSTANTS
    Hostnames,
    MaxRecords,  \* cache-size; the mapped DNS is not made when it is 0
    Queries,     \* sequences of names; NoHost is a question of another type
    NoHost

ASSUME RecordsAssumption ==
    /\ MaxRecords \in Nat \ {0} /\ NoHost \notin Hostnames
    /\ \A query \in Queries : query \in Seq(Hostnames \cup {NoHost})

VARIABLES
    records,     \* the name that each address stands for, or NoHost
    use,         \* how many addresses were given out
    lru,         \* list: the addresses in use, the one used longest ago first
    uses,        \* history: the names in the order of their last use
    told         \* history: the address an application may rely on, or -1

dnsVars == <<records, use, lru, uses, told>>

Indices == 0 .. MaxRecords - 1

DnsInit ==
    /\ records = [i \in Indices |-> NoHost]
    /\ use = 0 /\ lru = <<>> /\ uses = <<>>
    /\ told = [n \in Hostnames |-> -1]

-----------------------------------------------------------------------------

(* The names an application may rely on: the last MaxRecords ones used.    *)
Recent(names) == {names[k] : k \in {j \in DOMAIN names : j > Len(names) - MaxRecords}}

Kept(promised, names) == [n \in Hostnames |-> IF n \in Recent(names) THEN promised[n] ELSE -1]

MovedToEnd(s, x) ==
    Append(IF x \in ToSet(s) THEN RemoveAt(s, CHOOSE k \in DOMAIN s : s[k] = x) ELSE s, x)

(* The variables as one value; said are the addresses in the answer that   *)
(* is being made.                                                          *)
Table == [records |-> records, use |-> use, lru |-> lru, uses |-> uses,
          told |-> told, said |-> [n \in Hostnames |-> -1]]

Becomes(table) ==
    /\ records' = table.records /\ use' = table.use /\ lru' = table.lru
    /\ uses' = table.uses /\ told' = table.told

Mapped(table, name) == \E i \in Indices : table.records[i] = name

(* The table and its history after a use of the name at that address. *)
Used(table, name, idx) ==
    LET now == MovedToEnd(table.uses, name)
    IN  [table EXCEPT !.lru = MovedToEnd(table.lru, idx), !.uses = now,
                      !.told = Kept(table.told, now), !.said = Kept(table.said, now)]

(* hev_mapped_dns_find: a known name's address; for a new name the next    *)
(* one that is free, or that of the name used longest ago.                 *)
AddressFor(table, name) ==
    IF Mapped(table, name) THEN CHOOSE i \in Indices : table.records[i] = name
    ELSE IF table.use < MaxRecords THEN table.use ELSE Head(table.lru)

Found(table, name) ==
    LET idx == AddressFor(table, name)
        new == IF ~Mapped(table, name) /\ table.use < MaxRecords THEN 1 ELSE 0
    IN  [Used([table EXCEPT !.records[idx] = name, !.use = table.use + new], name, idx)
           EXCEPT !.said[name] = idx]

(* hev_mapped_dns_handle, one question: only those for an address count,   *)
(* and a new name is left out when there is no memory for it.              *)
Asked(table, name, starved) ==
    IF name = NoHost \/ (name \in starved /\ ~Mapped(table, name)) THEN table ELSE Found(table, name)

(* The table after each question of a query. *)
Tables(query, starved) ==
    LET after[k \in 0 .. Len(query)] ==
            IF k = 0 THEN Table ELSE Asked(after[k - 1], query[k], starved)
    IN  after

(* All of it.  A query that is cut short or whose answers do not fit is    *)
(* not answered, but its names are in the table; one that asks for more    *)
(* names than there are addresses is answered with addresses that it has   *)
(* itself taken away again.                                                *)
Answered(table) ==
    [table EXCEPT !.told = [n \in Hostnames |-> IF table.said[n] # -1 THEN table.said[n] ELSE table.told[n]]]

Handles(query, starved, answered) ==
    LET end == Tables(query, starved)[Len(query)]
    IN  Becomes(IF answered THEN Answered(end) ELSE end)

(* Mutant: a connection is not a use. *)
LookupForgets(idx) ==
    IF records[idx] = NoHost THEN UNCHANGED dnsVars
    ELSE Becomes([Used(Table, records[idx], idx) EXCEPT !.lru = lru])

(* hev_mapped_dns_lookup, for the destination of any IPv4 session: one     *)
(* whose address has these bits, whether in the mapped network or not.     *)
Lookup(idx) ==
    IF records[idx] = NoHost THEN UNCHANGED dnsVars
    ELSE Becomes(Used(Table, records[idx], idx))

DnsNext ==
    \/ \E query \in Queries, starved \in SUBSET Hostnames, answered \in BOOLEAN :
          Handles(query, starved, answered)
    \/ \E idx \in Indices : Lookup(idx)

DnsSpec == DnsInit /\ [][DnsNext]_dnsVars

-----------------------------------------------------------------------------
(* Properties *)

(* The three structures tell the same: every address given out is once in  *)
(* the list and stands for one name, no name has two, and the names in the *)
(* table are those used last, in the order of the list.                    *)
Agrees(table) ==
    LET given == 0 .. table.use - 1
        older == Len(table.uses) - table.use
    IN  /\ table.use \in 0 .. MaxRecords
        /\ table.records \in [Indices -> Hostnames \cup {NoHost}]
        /\ IsInjective(table.lru) /\ ToSet(table.lru) = given
        /\ \A i \in Indices : table.records[i] # NoHost <=> i \in given
        /\ \A i, j \in given : table.records[i] = table.records[j] => i = j
        /\ \A k \in DOMAIN table.lru : table.records[table.lru[k]] = table.uses[older + k]

(* An address that was told in an answer leads to the name that was asked  *)
(* for as long as fewer than MaxRecords other names have been used since   *)
(* its last use - whatever queries and connections of others came between, *)
(* answered or not.                                                        *)
AddressKeepsName == \A n \in Hostnames : told[n] # -1 => records[told[n]] = n

(* The limited table serves its users as an unlimited one would, while it  *)
(* has room for what they use.                                             *)
MappedDnsInv == Agrees(Table) /\ AddressKeepsName

=============================================================================
