------------------------------- MODULE NameStore -------------------------------
(***************************************************************************)
(* The names of the Store (src/src/state.rs): what DNS answers said of each *)
(* address and for how long, and the name each connection is shown with.    *)
(* Time advances in ticks and validity is counted in them.  The poll loop   *)
(* and the address lookups that use these operations are in AddressLookups. *)
(***************************************************************************)
EXTENDS Integers, FiniteSets, Functions

CONSTANTS
  Addr, Public,        \* addresses, those that classify calls public
  Name, None,
  Conn, Remote,        \* connection tuples and their remote addresses
  Ttl,                 \* the TTLs that answers carry
  Day,                 \* the longest validity that is kept
  MaxValid,            \* names kept for one address
  MaxNames, KeepNames, \* addresses in a map, and after it was trimmed
  MaxTime              \* bound of the model

Label == {"en", "ru"}  \* the label of a special address, in either language

ASSUME NamesAssumption ==
  /\ Public \subseteq Addr /\ Remote \in [Conn -> Addr]
  /\ IsFiniteSet(Addr) /\ IsFiniteSet(Conn)
  /\ None \notin Name \cup Label /\ Name \cap Label = {}
  /\ Ttl \subseteq Nat /\ Day \in Nat \ {0} /\ MaxValid \in Nat \ {0}
  /\ MaxNames \in Nat \ {0} /\ KeepNames \in 0..MaxNames /\ MaxTime \in Nat

VARIABLES
  clock,
  lang,   \* the language of the labels
  dns,    \* Store::dns
  conns,  \* Store::conns
  heard   \* history: until when each name of an address is valid, from every
          \* answer since the store had no entry for the address

nameVars == <<clock, lang, dns, conns, heard>>

Dated == [name : Name, expires : Nat]
DnsEntry == [names : SUBSET Dated, overflow : Nat]
Row == [domain : Name \cup Label \cup {None}, sni : Name \cup {None},
        ptr : Name \cup {None}, asn : BOOLEAN]

NamesTypeOK ==
  /\ clock \in 0..MaxTime /\ lang \in Label
  /\ DOMAIN dns \subseteq Addr /\ Cardinality(DOMAIN dns) <= MaxNames
  /\ \A ip \in DOMAIN dns : dns[ip] \in DnsEntry /\ Cardinality(dns[ip].names) <= MaxValid
  /\ DOMAIN conns \subseteq Conn
  /\ \A c \in DOMAIN conns : conns[c] \in Row
  /\ heard \in [Addr -> [Name -> Nat]]

Unheard == [n \in Name |-> 0]
NoEntry == [names |-> {}, overflow |-> 0]
Empty   == [x \in {} |-> None]
NewRow  == [domain |-> None, sni |-> None, ptr |-> None, asn |-> FALSE]

NamesInit ==
  /\ clock = 0 /\ lang = "en"
  /\ dns = Empty /\ conns = Empty
  /\ heard = [ip \in Addr |-> Unheard]
-----------------------------------------------------------------------------
Larger(a, b)  == IF a > b THEN a ELSE b
Smaller(a, b) == IF a < b THEN a ELSE b

Valid(entry) == {n.name : n \in {m \in entry.names : m.expires > clock}}

\* Mutant: an answer that found no room leaves no trace.
UniqueOfKept(entry) == {n \in Valid(entry) : Valid(entry) = {n}}

\* DnsEntry::unique: the name, or none.
Unique(entry) ==
  {n \in Valid(entry) : entry.overflow <= clock /\ Valid(entry) = {n}}

UniqueName(ip) == IF ip \in DOMAIN dns THEN Unique(dns[ip]) ELSE {}

\* Domains that trim_ip_map may leave a map with: addresses of the history stay.
InHistory == {Remote[c] : c \in DOMAIN conns}
Trimmed(S) ==
  LET unused == S \ InHistory
      excess == Larger(Cardinality(S) - KeepNames, 0)
  IN {S \ gone : gone \in {g \in SUBSET unused :
        Cardinality(g) = Smaller(excess, Cardinality(unused))}}

\* Mutant: the limit of names is off by one.
AnsweredOver(entry, n, ttl) ==
  LET others == {m \in entry.names : m.expires > clock /\ m.name # n}
      until  == clock + Smaller(ttl, Day)
  IN IF ttl = 0 THEN [entry EXCEPT !.names = others]
     ELSE IF Cardinality(others) <= MaxValid
     THEN [entry EXCEPT !.names = others \cup {[name |-> n, expires |-> until]}]
     ELSE [entry EXCEPT !.names = others, !.overflow = Larger(@, until)]

\* remember_name_for once the address has its entry.
Answered(entry, n, ttl) ==
  LET others == {m \in entry.names : m.expires > clock /\ m.name # n}
      until  == clock + Smaller(ttl, Day)
  IN IF ttl = 0 THEN [entry EXCEPT !.names = others]
     ELSE IF Cardinality(others) < MaxValid
     THEN [entry EXCEPT !.names = others \cup {[name |-> n, expires |-> until]}]
     ELSE [entry EXCEPT !.names = others, !.overflow = Larger(@, until)]

\* Store::remember_name_for, from a DNS answer seen in the traffic or from the
\* DNS cache of Windows.
RememberName(ip, n, ttl) ==
  \E kept \in IF ip \notin DOMAIN dns /\ Cardinality(DOMAIN dns) >= MaxNames
              THEN Trimmed(DOMAIN dns) ELSE {DOMAIN dns} :
    LET room  == ip \in kept \/ Cardinality(kept) < MaxNames
        entry == IF ip \in kept THEN dns[ip] ELSE NoEntry
    IN /\ dns' = [x \in IF room THEN kept \cup {ip} ELSE kept |->
                    IF x = ip THEN Answered(entry, n, ttl) ELSE dns[x]]
       /\ heard' = [x \in Addr |->
            IF x \notin DOMAIN dns' THEN Unheard
            ELSE IF x = ip THEN [heard[x] EXCEPT ![n] = clock + Smaller(ttl, Day)]
            ELSE heard[x]]
  /\ UNCHANGED <<clock, lang, conns>>

\* apply_packet: the connection is entered, and its SNI replaces any other name.
SeePacket(c, sni) ==
  /\ LET row == IF c \in DOMAIN conns THEN conns[c] ELSE NewRow
     IN conns' = [x \in DOMAIN conns \cup {c} |->
                    IF x # c THEN conns[x]
                    ELSE IF sni = None THEN row
                    ELSE [row EXCEPT !.sni = sni, !.domain = sni]]
  /\ UNCHANGED <<clock, lang, dns, heard>>

\* Store::evict, api_clear.
ForgetConn(c) ==
  /\ conns' = Restrict(conns, DOMAIN conns \ {c})
  /\ UNCHANGED <<clock, lang, dns, heard>>
-----------------------------------------------------------------------------
(* enrich_names.                                                            *)

\* well_known_label: every address that is looked up has none.
Special(c) == Remote[c] \notin Public

\* Mutant: any name may be replaced by a later one.
NotFrozen(c, row) == FALSE

\* The name stands: it is neither the PTR name nor a label.
Frozen(c, row) ==
  /\ row.domain # None /\ row.domain # row.ptr
  /\ ~(Special(c) /\ row.domain \in Label)

\* Mutant: a DNS name is only given to a connection without any.
EnrichNameless(c, row) ==
  LET unique == UniqueName(Remote[c]) IN
  IF row.sni # None \/ row.domain # None THEN row
  ELSE IF unique # {} THEN [row EXCEPT !.domain = CHOOSE n \in unique : TRUE]
  ELSE [row EXCEPT !.domain = row.ptr]

\* One row of Store::enrich_names.
Enrich(c, row) ==
  LET unique == UniqueName(Remote[c])
      known  == unique = {} \/ Frozen(c, row)
  IN IF row.sni # None THEN row
     ELSE IF ~known THEN [row EXCEPT !.domain = CHOOSE n \in unique : TRUE]
     ELSE IF Special(c) /\ row.domain \in Label THEN [row EXCEPT !.domain = lang]
     ELSE IF row.domain # None THEN row
     ELSE IF row.ptr # None THEN [row EXCEPT !.domain = row.ptr]
     ELSE IF Special(c) THEN [row EXCEPT !.domain = lang] ELSE row

\* apply_sockets: a TCP tuple that another socket took over loses its names.
Renewed(row) == [row EXCEPT !.sni = None, !.domain = None]

\* Store::restore_dns of what the last save kept; the file holds no more than
\* MaxValid names of an address.
Restored == LET alive(ip) == {m \in dns[ip].names : m.expires > clock}
                worth == {ip \in DOMAIN dns : alive(ip) # {} \/ dns[ip].overflow > clock}
            IN [ip \in worth |-> [names |-> alive(ip), overflow |-> dns[ip].overflow]]
=============================================================================
