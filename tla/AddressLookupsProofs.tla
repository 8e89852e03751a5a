------------------------- MODULE AddressLookupsProofs -------------------------
(***************************************************************************)
(* For any addresses, names, tuples and limits: a connection is shown with  *)
(* its SNI whenever that is known, a DNS name is only given to it while it  *)
(* is the only one that was answered, and then stays.                       *)
(***************************************************************************)
EXTENDS AddressLookups, FiniteSetTheorems, TLAPS

\* An entry accounts for every answer that is still valid: the name is kept, or
\* it expires no later than the entry remembers to have overflowed.
Accounts(entry, answers) ==
  /\ \A n \in Name : answers[n] > clock =>
       \/ answers[n] <= entry.overflow
       \/ \E m \in entry.names : m.name = n /\ m.expires = answers[n]
  /\ \A m \in entry.names : m.expires > clock => answers[m.name] = m.expires

\* Entries stay finite: that is what makes their limit countable.
Limited(entry) ==
  entry \in DnsEntry /\ IsFiniteSet(entry.names) /\ Cardinality(entry.names) <= MaxValid

DnsInv ==
  /\ clock \in 0..MaxTime /\ heard \in [Addr -> [Name -> Nat]]
  /\ DOMAIN dns \subseteq Addr /\ Cardinality(DOMAIN dns) <= MaxNames
  /\ \A ip \in DOMAIN dns : Limited(dns[ip]) /\ Accounts(dns[ip], heard[ip])
  /\ \A ip \in Addr \ DOMAIN dns : heard[ip] = Unheard

\* Only special addresses are shown with a label.
LabelIsSpecial == \A c \in DOMAIN conns : conns[c].domain \in Label => Special(c)

RowsInv ==
  /\ lang \in Label /\ DOMAIN conns \subseteq Conn
  /\ \A c \in DOMAIN conns : conns[c] \in Row
  /\ LabelIsSpecial /\ SniIsShown

\* A lookup under way is one that may be tried once more.
BatchIsRetryable == \A ip \in batch : Retryable(ip, fails)

LookupsInv ==
  /\ DOMAIN whois \subseteq Public /\ \A ip \in DOMAIN whois : whois[ip] \in Whois
  /\ DOMAIN fails \subseteq Public
  /\ \A ip \in DOMAIN fails : fails[ip].n \in 1..MaxRetries /\ fails[ip].at \in 0..clock
  /\ batch \subseteq Public \ DOMAIN whois /\ BatchIsRetryable

NamesInv == DnsInv /\ RowsInv /\ LookupsInv /\ renewed \subseteq Conn

LEMMA InvTypes == NamesInv => TypeOK
  BY DEF NamesInv, DnsInv, RowsInv, LookupsInv, Limited, TypeOK, NamesTypeOK
-----------------------------------------------------------------------------
(* The operators on rows.                                                   *)

LEMMA RowFields ==
  ASSUME NEW row \in Row
  PROVE  /\ row.domain \in Name \cup Label \cup {None} /\ row.sni \in Name \cup {None}
         /\ row.ptr \in Name \cup {None} /\ row.asn \in BOOLEAN
  BY DEF Row

LEMMA NewRowFacts == NewRow \in Row /\ NewRow.sni = None /\ NewRow.domain = None
  BY DEF NewRow, Row

LEMMA RenewedFacts ==
  ASSUME NEW row \in Row
  PROVE  Renewed(row) \in Row /\ Renewed(row).sni = None /\ Renewed(row).domain = None
  BY DEF Renewed, Row

LEMMA UniqueIsName ==
  ASSUME TypeOK, NEW ip
  PROVE  UniqueName(ip) \subseteq Name
  BY DEF TypeOK, NamesTypeOK, UniqueName, Unique, Valid, DnsEntry, Dated

\* What enrich_names makes of a row: the SNI and a name that stands are left
\* alone, and a new name is the only one of the address, the PTR name or a label.
LEMMA EnrichFacts ==
  ASSUME TypeOK, NEW c \in Conn, NEW row \in Row
  PROVE  LET d == Enrich(c, row)
         IN  /\ d \in Row /\ d.sni = row.sni /\ d.ptr = row.ptr /\ d.asn = row.asn
             /\ row.sni # None \/ Frozen(c, row) => d = row
             /\ d.domain = row.domain \/ d.domain = row.ptr \/ (d.domain \in Label /\ Special(c))
                \/ d.domain \in UniqueName(Remote[c])
             /\ row.sni = None /\ d.domain = None => row.ptr = None
             /\ row.sni = None /\ ~Frozen(c, row) /\ UniqueName(Remote[c]) # {} =>
                  d.domain \in UniqueName(Remote[c])
<1> DEFINE unique == UniqueName(Remote[c])
           d == Enrich(c, row)
<1>0. /\ unique \subseteq Name /\ lang \in Label /\ None \notin Name \cup Label
      /\ Name \cap Label = {}
      /\ row.domain \in Name \cup Label \cup {None} /\ row.sni \in Name \cup {None}
      /\ row.ptr \in Name \cup {None} /\ row.asn \in BOOLEAN
  BY UniqueIsName, NamesAssumption, RowFields DEF TypeOK, NamesTypeOK
<1>1. ASSUME NEW n \in Name \cup Label \cup {None}
      PROVE  LET e == [row EXCEPT !.domain = n]
             IN  e \in Row /\ e.domain = n /\ e.sni = row.sni /\ e.ptr = row.ptr /\ e.asn = row.asn
  BY <1>0, <1>1 DEF Row
<1>2. CASE row.sni # None \/ Frozen(c, row)
  <2>1. d = row
    BY <1>2 DEF Enrich, Frozen
  <2> HIDE DEF d, unique
  <2> QED
    BY <1>0, <1>2, <2>1 DEF Frozen, d, unique
<1>3. CASE row.sni = None /\ ~Frozen(c, row) /\ unique # {}
  <2> DEFINE n == CHOOSE n \in unique : TRUE
  <2>1. d = [row EXCEPT !.domain = n]
    BY <1>3 DEF Enrich
  <2>2. n \in unique
    BY <1>3
  <2>3. d \in Row /\ d.domain = n /\ d.sni = row.sni /\ d.ptr = row.ptr /\ d.asn = row.asn
    BY <1>0, <1>1, <2>1, <2>2
  <2> HIDE DEF n, d, unique
  <2>4. d.domain # None
    BY <1>0, <2>2, <2>3
  <2> QED
    BY <1>3, <2>2, <2>3, <2>4 DEF d, unique
<1>4. CASE row.sni = None /\ ~Frozen(c, row) /\ unique = {}
  <2>1. d = IF Special(c) /\ row.domain \in Label THEN [row EXCEPT !.domain = lang]
            ELSE IF row.domain # None THEN row
            ELSE IF row.ptr # None THEN [row EXCEPT !.domain = row.ptr]
            ELSE IF Special(c) THEN [row EXCEPT !.domain = lang] ELSE row
    BY <1>4 DEF Enrich
  <2>2. LET e == [row EXCEPT !.domain = lang]
        IN  e \in Row /\ e.domain = lang /\ e.sni = row.sni /\ e.ptr = row.ptr /\ e.asn = row.asn
    BY <1>0, <1>1
  <2>3. LET e == [row EXCEPT !.domain = row.ptr]
        IN  e \in Row /\ e.domain = row.ptr /\ e.sni = row.sni /\ e.ptr = row.ptr /\ e.asn = row.asn
    BY <1>0, <1>1
  <2>4. lang # None
    BY <1>0
  <2> HIDE DEF d
  <2> QED
    BY <1>0, <1>4, <2>1, <2>2, <2>3, <2>4 DEF d
<1> QED
  BY <1>2, <1>3, <1>4

\* What apply_whois makes of a row: only what is missing is filled in.
LEMMA WhoisedFacts ==
  ASSUME TypeOK, NEW c \in Conn, NEW row \in Row
  PROVE  LET d == Whoised(c, row)
         IN  /\ d \in Row /\ d.sni = row.sni
             /\ row.domain # None => d.domain = row.domain
             /\ row.domain = None => /\ d.domain \in Name \cup {None}
                                     /\ row.ptr = None => d.domain \in {None, d.ptr}
             /\ row.ptr # None => d.ptr = row.ptr
             /\ Remote[c] \in DOMAIN whois /\ whois[Remote[c]].ptr # None => d.domain # None
<1> DEFINE ip == Remote[c]
           w == whois[ip]
           d == Whoised(c, row)
<1>0. /\ row.domain \in Name \cup Label \cup {None} /\ row.sni \in Name \cup {None}
      /\ row.ptr \in Name \cup {None} /\ row.asn \in BOOLEAN
  BY RowFields
<1>1. CASE ip \notin DOMAIN whois \/ (row.asn /\ row.domain # None)
  BY <1>0, <1>1 DEF Whoised
<1>2. CASE ~(ip \notin DOMAIN whois \/ (row.asn /\ row.domain # None))
  <2>1. w.ptr \in Name \cup {None} /\ w.asn \in BOOLEAN
    BY <1>2 DEF TypeOK, Whois
  <2>2. d = [row EXCEPT !.ptr = IF @ = None THEN w.ptr ELSE @, !.asn = @ \/ w.asn,
                        !.domain = IF @ = None THEN w.ptr ELSE @]
    BY <1>2 DEF Whoised
  <2> HIDE DEF w, d, ip
  <2>3. /\ d \in Row /\ d.sni = row.sni
        /\ d.ptr = (IF row.ptr = None THEN w.ptr ELSE row.ptr)
        /\ d.domain = IF row.domain = None THEN w.ptr ELSE row.domain
    BY <1>0, <2>1, <2>2 DEF Row
  <2> QED
    BY <1>2, <2>1, <2>3 DEF d, w, ip
<1> QED
  BY <1>1, <1>2
-----------------------------------------------------------------------------
(* The names of an address.                                                 *)

LEMMA SmallerLarger ==
  ASSUME NEW a \in Nat, NEW b \in Nat
  PROVE  /\ Smaller(a, b) \in Nat /\ Smaller(a, b) <= a /\ Smaller(a, b) <= b
         /\ Larger(a, b) \in Nat /\ Larger(a, b) >= a /\ Larger(a, b) >= b
  BY DEF Smaller, Larger

\* An answer leaves an entry limited, and the entry accounts for it: it is kept,
\* it has replaced the earlier one, or the overflow outlives it.
LEMMA AnsweredFacts ==
  ASSUME clock \in Nat, NEW entry, Limited(entry),
         NEW answers \in [Name -> Nat], Accounts(entry, answers),
         NEW n \in Name, NEW ttl \in Ttl
  PROVE  LET until == clock + Smaller(ttl, Day)
             e     == Answered(entry, n, ttl)
         IN  /\ [answers EXCEPT ![n] = until] \in [Name -> Nat]
             /\ Limited(e) /\ Accounts(e, [answers EXCEPT ![n] = until])
<1> DEFINE until  == clock + Smaller(ttl, Day)
           others == {m \in entry.names : m.expires > clock /\ m.name # n}
           new    == [name |-> n, expires |-> until]
           e      == Answered(entry, n, ttl)
           heardNow == [answers EXCEPT ![n] = until]
<1>1. /\ entry.names \subseteq Dated /\ entry.overflow \in Nat /\ entry \in DnsEntry
      /\ IsFiniteSet(entry.names) /\ Cardinality(entry.names) <= MaxValid
  BY DEF Limited, DnsEntry
<1>2. until \in Nat /\ (ttl = 0 => until = clock)
  BY SmallerLarger, NamesAssumption DEF Smaller
<1>3. /\ others \subseteq entry.names /\ IsFiniteSet(others) /\ Cardinality(others) <= MaxValid
      /\ Cardinality(others) \in Nat
  <2>1. others \in SUBSET entry.names
    OBVIOUS
  <2>2. IsFiniteSet(others) /\ Cardinality(others) <= Cardinality(entry.names)
    BY <1>1, <2>1, FS_Subset
  <2>3. Cardinality(others) \in Nat /\ Cardinality(entry.names) \in Nat
    BY <1>1, <2>2, FS_CardinalityType
  <2> QED
    BY <1>1, <2>1, <2>2, <2>3, NamesAssumption
<1>4. heardNow \in [Name -> Nat] /\ heardNow[n] = until
      /\ \A k \in Name : k # n => heardNow[k] = answers[k]
  BY <1>2
<1>5. /\ \A k \in Name : answers[k] > clock =>
           answers[k] <= entry.overflow
           \/ \E m \in entry.names : m.name = k /\ m.expires = answers[k]
      /\ \A m \in entry.names : m.expires > clock => answers[m.name] = m.expires
  BY DEF Accounts
<1>6. \A m \in others : m \in entry.names /\ m \in Dated /\ m.name # n /\ m.expires > clock
                        /\ heardNow[m.name] = m.expires
  BY <1>1, <1>4, <1>5 DEF Dated
<1>7. new \in Dated /\ new.name = n /\ new.expires = until
  BY <1>2 DEF Dated
<1>8. \A k \in Name : k # n /\ heardNow[k] > clock =>
         heardNow[k] <= entry.overflow
         \/ \E m \in others : m.name = k /\ m.expires = heardNow[k]
  BY <1>4, <1>5
<1> HIDE DEF until, others, new, heardNow
<1>9. CASE ttl = 0
  <2>1. e = [entry EXCEPT !.names = others]
    BY <1>9 DEF Answered, others
  <2>2. e \in DnsEntry /\ e.names = others /\ e.overflow = entry.overflow
    BY <1>1, <1>3, <2>1 DEF DnsEntry
  <2>3. Limited(e)
    BY <1>3, <2>2 DEF Limited
  <2>4. Accounts(e, heardNow)
    BY <1>2, <1>4, <1>6, <1>8, <1>9, <2>2 DEF Accounts
  <2> QED
    BY <1>4, <2>3, <2>4 DEF until, heardNow
<1>10. CASE ttl # 0 /\ Cardinality(others) < MaxValid
  <2>1. e = [entry EXCEPT !.names = others \cup {new}]
    BY <1>10 DEF Answered, others, new, until
  <2>2. e \in DnsEntry /\ e.names = others \cup {new} /\ e.overflow = entry.overflow
    BY <1>1, <1>3, <1>7, <2>1 DEF DnsEntry
  <2>3. IsFiniteSet(others \cup {new}) /\ Cardinality(others \cup {new}) <= MaxValid
    <3>1. /\ IsFiniteSet(others \cup {new})
          /\ Cardinality(others \cup {new}) =
               IF new \in others THEN Cardinality(others) ELSE Cardinality(others) + 1
      BY <1>3, FS_AddElement
    <3> QED
      BY <1>3, <1>10, <3>1, NamesAssumption
  <2>4. Limited(e)
    BY <2>2, <2>3 DEF Limited
  <2>5. Accounts(e, heardNow)
    BY <1>4, <1>6, <1>7, <1>8, <2>2 DEF Accounts
  <2> QED
    BY <1>4, <2>4, <2>5 DEF until, heardNow
<1>11. CASE ttl # 0 /\ ~(Cardinality(others) < MaxValid)
  <2>1. e = [entry EXCEPT !.names = others, !.overflow = Larger(entry.overflow, until)]
    BY <1>11 DEF Answered, others, until
  <2>2. /\ Larger(entry.overflow, until) \in Nat
        /\ Larger(entry.overflow, until) >= entry.overflow
        /\ Larger(entry.overflow, until) >= until
    BY <1>1, <1>2, SmallerLarger
  <2>3. e \in DnsEntry /\ e.names = others /\ e.overflow = Larger(entry.overflow, until)
    BY <1>1, <1>3, <2>1, <2>2 DEF DnsEntry
  <2>4. Limited(e)
    BY <1>3, <2>3 DEF Limited
  <2>5. Accounts(e, heardNow)
    BY <1>1, <1>2, <1>4, <1>6, <1>8, <2>2, <2>3 DEF Accounts
  <2> QED
    BY <1>4, <2>4, <2>5 DEF until, heardNow
<1> QED
  BY <1>9, <1>10, <1>11

\* While the entry of an address accounts for all answers, the only name that it
\* has and that did not overflow is the only one that was answered.
LEMMA UniqueWasAlone ==
  ASSUME DnsInv, NEW ip \in Addr, NEW n \in UniqueName(ip)
  PROVE  {k \in Name : heard[ip][k] > clock} = {n}
<1>1. /\ ip \in DOMAIN dns /\ n \in Valid(dns[ip]) /\ dns[ip].overflow <= clock
      /\ Valid(dns[ip]) = {n}
  BY DEF UniqueName, Unique
<1>2. /\ dns[ip].names \subseteq Dated /\ dns[ip].overflow \in Nat /\ clock \in Nat
      /\ heard[ip] \in [Name -> Nat]
  BY <1>1, NamesAssumption DEF DnsInv, Limited, DnsEntry
<1>3. \A k \in Name : heard[ip][k] > clock => k = n
  <2> SUFFICES ASSUME NEW k \in Name, heard[ip][k] > clock PROVE k \in Valid(dns[ip])
    BY <1>1
  <2>1. PICK m \in dns[ip].names : m.name = k /\ m.expires = heard[ip][k]
    BY <1>1, <1>2 DEF DnsInv, Accounts
  <2> QED
    BY <2>1 DEF Valid
<1>4. n \in Name /\ heard[ip][n] > clock
  <2>1. PICK m \in dns[ip].names : m.name = n /\ m.expires > clock
    BY <1>1 DEF Valid
  <2> QED
    BY <1>1, <1>2, <2>1 DEF DnsInv, Accounts, Dated
<1> QED
  BY <1>3, <1>4
-----------------------------------------------------------------------------
(* The actions, and the parts of the invariant that they disturb.           *)

LEMMA DnsIsFinite ==
  ASSUME DnsInv, NEW S \in SUBSET DOMAIN dns
  PROVE  IsFiniteSet(S) /\ Cardinality(S) <= MaxNames /\ Cardinality(S) \in Nat
<1>1. IsFiniteSet(DOMAIN dns)
  BY NamesAssumption, FS_Subset DEF DnsInv
<1>2. IsFiniteSet(S) /\ Cardinality(S) <= Cardinality(DOMAIN dns)
  BY <1>1, FS_Subset
<1>3. Cardinality(S) \in Nat /\ Cardinality(DOMAIN dns) \in Nat
  BY <1>1, <1>2, FS_CardinalityType
<1> QED
  BY <1>2, <1>3, NamesAssumption DEF DnsInv

LEMMA RememberNameInv ==
  ASSUME DnsInv, NEW ip \in Addr, NEW n \in Name, NEW ttl \in Ttl, RememberName(ip, n, ttl)
  PROVE  DnsInv'
<1>1. PICK kept \in IF ip \notin DOMAIN dns /\ Cardinality(DOMAIN dns) >= MaxNames
                    THEN Trimmed(DOMAIN dns) ELSE {DOMAIN dns} :
        LET room  == ip \in kept \/ Cardinality(kept) < MaxNames
            entry == IF ip \in kept THEN dns[ip] ELSE NoEntry
        IN /\ dns' = [x \in IF room THEN kept \cup {ip} ELSE kept |->
                        IF x = ip THEN Answered(entry, n, ttl) ELSE dns[x]]
           /\ heard' = [x \in Addr |->
                IF x \notin DOMAIN dns' THEN Unheard
                ELSE IF x = ip THEN [heard[x] EXCEPT ![n] = clock + Smaller(ttl, Day)]
                ELSE heard[x]]
  BY DEF RememberName
<1> DEFINE room  == ip \in kept \/ Cardinality(kept) < MaxNames
           entry == IF ip \in kept THEN dns[ip] ELSE NoEntry
           until == clock + Smaller(ttl, Day)
           e     == Answered(entry, n, ttl)
           now   == [heard[ip] EXCEPT ![n] = until]
<1>2. kept \subseteq DOMAIN dns /\ (ip \notin kept => ip \notin DOMAIN dns)
  BY <1>1 DEF Trimmed
<1>3. /\ clock' = clock /\ clock \in 0..MaxTime /\ clock \in Nat
      /\ heard \in [Addr -> [Name -> Nat]] /\ DOMAIN dns \subseteq Addr
  BY NamesAssumption DEF RememberName, DnsInv
<1>4. Unheard \in [Name -> Nat]
  BY DEF Unheard
<1>5. Limited(entry) /\ Accounts(entry, heard[ip])
  <2>1. CASE ip \in kept
    BY <1>2, <2>1 DEF DnsInv
  <2>2. CASE ip \notin kept
    <3>1. heard[ip] = Unheard /\ entry = NoEntry
      BY <1>2, <2>2 DEF DnsInv
    <3>2. Limited(entry)
      BY <3>1, FS_EmptySet, NamesAssumption DEF Limited, NoEntry, DnsEntry
    <3>3. Accounts(entry, heard[ip])
      BY <1>3, <3>1 DEF Accounts, NoEntry, Unheard
    <3> QED
      BY <3>2, <3>3
  <2> QED
    BY <2>1, <2>2
<1>6. now \in [Name -> Nat] /\ Limited(e) /\ Accounts(e, now)
  BY <1>3, <1>5, AnsweredFacts
<1> HIDE DEF entry, e, now, until
<1>7. /\ DOMAIN dns' = IF room THEN kept \cup {ip} ELSE kept
      /\ \A x \in DOMAIN dns' : dns'[x] = IF x = ip THEN e ELSE dns[x]
      /\ heard' = [x \in Addr |-> IF x \notin DOMAIN dns' THEN Unheard
                                  ELSE IF x = ip THEN now ELSE heard[x]]
  BY <1>1 DEF entry, e, now, until
<1>8. DOMAIN dns' \subseteq Addr /\ Cardinality(DOMAIN dns') <= MaxNames
  <2>1. IsFiniteSet(kept) /\ Cardinality(kept) <= MaxNames /\ Cardinality(kept) \in Nat
    BY <1>2, DnsIsFinite
  <2>2. Cardinality(kept \cup {ip}) = IF ip \in kept THEN Cardinality(kept)
                                      ELSE Cardinality(kept) + 1
    BY <2>1, FS_AddElement
  <2> QED
    BY <1>2, <1>3, <1>7, <2>1, <2>2, NamesAssumption
<1>9. heard' \in [Addr -> [Name -> Nat]]
  BY <1>3, <1>4, <1>6, <1>7
<1>10. ASSUME NEW x \in DOMAIN dns'
       PROVE  Limited(dns'[x]) /\ Accounts(dns'[x], heard'[x])
  <2>1. x \in Addr
    BY <1>8
  <2>2. CASE x = ip
    BY <1>6, <1>7, <2>1, <2>2
  <2>3. CASE x # ip
    <3>1. x \in DOMAIN dns /\ dns'[x] = dns[x] /\ heard'[x] = heard[x]
      BY <1>2, <1>7, <2>1, <2>3
    <3> QED
      BY <3>1 DEF DnsInv
  <2> QED
    BY <2>2, <2>3
<1>11. (\A x \in DOMAIN dns : Accounts(dns[x], heard[x]))'
  BY <1>3, <1>10 DEF Accounts
<1>12. \A x \in Addr \ DOMAIN dns' : heard'[x] = Unheard
  BY <1>7
<1> QED
  BY <1>3, <1>8, <1>9, <1>10, <1>11, <1>12 DEF DnsInv, Limited, Unheard

LEMMA TickInv ==
  ASSUME DnsInv, LookupsInv, Tick
  PROVE  DnsInv' /\ LookupsInv'
<1>1. /\ clock \in Nat /\ clock' \in 0..MaxTime /\ clock' = clock + 1 /\ dns' = dns
      /\ heard \in [Addr -> [Name -> Nat]]
      /\ heard' = [ip \in Addr |-> [n \in Name |->
                     IF heard[ip][n] > clock' THEN heard[ip][n] ELSE 0]]
  BY NamesAssumption DEF Tick, DnsInv
<1>2. /\ heard' \in [Addr -> [Name -> Nat]]
      /\ \A ip \in Addr, n \in Name :
           heard'[ip][n] = IF heard[ip][n] > clock' THEN heard[ip][n] ELSE 0
  BY <1>1
<1>3. ASSUME NEW ip \in DOMAIN dns
      PROVE  (Accounts(dns[ip], heard[ip]))'
  <2>1. /\ dns[ip].names \subseteq Dated /\ dns[ip].overflow \in Nat
        /\ Accounts(dns[ip], heard[ip]) /\ ip \in Addr
    BY <1>3 DEF DnsInv, Limited, DnsEntry
  <2> QED
    BY <1>1, <1>2, <2>1 DEF Accounts, Dated
<1>4. \A ip \in Addr \ DOMAIN dns : heard'[ip] = Unheard
  BY <1>1 DEF DnsInv, Unheard
<1>5. DnsInv'
  BY <1>1, <1>2, <1>3, <1>4 DEF DnsInv, Limited, Unheard
<1>6. LookupsInv'
  BY <1>1 DEF LookupsInv, Tick, BatchIsRetryable, Retryable
<1> QED
  BY <1>5, <1>6

LEMMA RestartInv ==
  ASSUME DnsInv, RowsInv, LookupsInv, Restart
  PROVE  DnsInv' /\ RowsInv' /\ LookupsInv'
<1> DEFINE alive(ip) == {m \in dns[ip].names : m.expires > clock}
<1>1. clock' = clock /\ clock \in Nat /\ lang' = lang /\ conns' = Empty /\ fails' = Empty
      /\ batch' = {} /\ whois' = Restrict(whois, Named)
      /\ heard' = [ip \in Addr |-> IF ip \in DOMAIN dns' THEN heard[ip] ELSE Unheard]
  BY NamesAssumption DEF Restart, DnsInv
<1>2. /\ DOMAIN dns' \subseteq DOMAIN dns
      /\ \A ip \in DOMAIN dns' : dns'[ip] = [names |-> alive(ip), overflow |-> dns[ip].overflow]
      /\ \A ip \in DOMAIN dns \ DOMAIN dns' : alive(ip) = {} /\ ~(dns[ip].overflow > clock)
  BY DEF Restart, Restored
<1>3. DOMAIN dns' \subseteq Addr /\ Cardinality(DOMAIN dns') <= MaxNames
  BY <1>2, DnsIsFinite DEF DnsInv
<1>4. heard' \in [Addr -> [Name -> Nat]]
  BY <1>1 DEF DnsInv, Unheard
<1>5. ASSUME NEW ip \in DOMAIN dns'
      PROVE  Limited(dns'[ip]) /\ (Accounts(dns[ip], heard[ip]))'
  <2>1. /\ ip \in DOMAIN dns /\ ip \in Addr /\ Limited(dns[ip]) /\ Accounts(dns[ip], heard[ip])
        /\ heard'[ip] = heard[ip]
    BY <1>1, <1>2, <1>3 DEF DnsInv
  <2>2. /\ dns[ip].names \subseteq Dated /\ dns[ip].overflow \in Nat
        /\ IsFiniteSet(dns[ip].names) /\ Cardinality(dns[ip].names) <= MaxValid
    BY <2>1 DEF Limited, DnsEntry
  <2>3. IsFiniteSet(alive(ip)) /\ Cardinality(alive(ip)) <= MaxValid
    <3>1. IsFiniteSet(alive(ip)) /\ Cardinality(alive(ip)) <= Cardinality(dns[ip].names)
      BY <2>2, FS_Subset
    <3>2. Cardinality(alive(ip)) \in Nat /\ Cardinality(dns[ip].names) \in Nat
      BY <2>2, <3>1, FS_CardinalityType
    <3> QED
      BY <2>2, <3>1, <3>2, NamesAssumption
  <2>4. dns'[ip].names = alive(ip) /\ dns'[ip].overflow = dns[ip].overflow
        /\ dns'[ip] \in DnsEntry
    BY <1>2, <2>2 DEF DnsEntry
  <2>5. Limited(dns'[ip])
    BY <2>3, <2>4 DEF Limited
  <2>6. /\ \A n \in Name : heard[ip][n] > clock =>
             heard[ip][n] <= dns[ip].overflow
             \/ \E m \in alive(ip) : m.name = n /\ m.expires = heard[ip][n]
        /\ \A m \in alive(ip) : m.expires > clock => heard[ip][m.name] = m.expires
    BY <2>1 DEF Accounts
  <2>7. (Accounts(dns[ip], heard[ip]))'
    BY <1>1, <2>1, <2>4, <2>6 DEF Accounts
  <2> QED
    BY <2>5, <2>7
<1>6. DnsInv'
  <2>1. \A ip \in Addr \ DOMAIN dns' : heard'[ip] = Unheard
    BY <1>1
  <2> QED
    BY <1>1, <1>3, <1>4, <1>5, <2>1 DEF DnsInv, Limited, Unheard
<1>7. RowsInv'
  BY <1>1 DEF RowsInv, LabelIsSpecial, SniIsShown, Empty
<1>8. LookupsInv'
  <2>1. DOMAIN whois' \subseteq DOMAIN whois /\ \A ip \in DOMAIN whois' : whois'[ip] = whois[ip]
    BY <1>1 DEF Restrict, Named
  <2> QED
    BY <1>1, <2>1 DEF LookupsInv, BatchIsRetryable, Empty
<1> QED
  BY <1>6, <1>7, <1>8

\* What the invariant says of one row.
RowInv(c, row) ==
  /\ row \in Row /\ (row.domain \in Label => Special(c))
  /\ row.sni # None => row.domain = row.sni

LEMMA RowsOneByOne ==
  RowsInv <=> /\ lang \in Label /\ DOMAIN conns \subseteq Conn
              /\ \A c \in DOMAIN conns : RowInv(c, conns[c])
  BY DEF RowsInv, RowInv, LabelIsSpecial, SniIsShown

LEMMA RowInvKept ==
  ASSUME RowsInv, lang' \in Label, DOMAIN conns' \subseteq Conn,
         \A c \in DOMAIN conns' : RowInv(c, conns'[c])
  PROVE  RowsInv'
  BY DEF RowsInv, RowInv, LabelIsSpecial, SniIsShown, Special

LEMMA BareRow ==
  ASSUME NEW c, NEW row \in Row, row.sni = None, row.domain = None
  PROVE  RowInv(c, row)
  BY NamesAssumption DEF RowInv

LEMMA SeePacketInv ==
  ASSUME RowsInv, NEW c \in Conn, NEW sni \in Name \cup {None}, SeePacket(c, sni)
  PROVE  RowsInv'
<1> DEFINE row == IF c \in DOMAIN conns THEN conns[c] ELSE NewRow
           new == IF sni = None THEN row ELSE [row EXCEPT !.sni = sni, !.domain = sni]
<1>1. RowInv(c, row)
  BY BareRow, NewRowFacts, RowsOneByOne
<1>2. RowInv(c, new)
  <2>1. CASE sni = None
    BY <1>1, <2>1
  <2>2. CASE sni # None
    <3>1. row \in Row
      BY <1>1 DEF RowInv
    <3> HIDE DEF row
    <3>2. /\ new = [row EXCEPT !.sni = sni, !.domain = sni]
          /\ row.ptr \in Name \cup {None} /\ row.asn \in BOOLEAN
      BY <2>2, <3>1, RowFields
    <3>3. new \in Row /\ new.sni = sni /\ new.domain = sni
      BY <3>1, <3>2 DEF Row
    <3> QED
      BY <2>2, <3>3, NamesAssumption DEF RowInv
  <2> QED
    BY <2>1, <2>2
<1>3. conns' = [x \in DOMAIN conns \cup {c} |-> IF x # c THEN conns[x] ELSE new]
      /\ lang' = lang
  BY DEF SeePacket
<1> HIDE DEF row, new
<1> QED
  BY <1>2, <1>3, RowsOneByOne, RowInvKept

LEMMA ForgetConnInv ==
  ASSUME RowsInv, NEW c, ForgetConn(c)
  PROVE  RowsInv'
<1>1. /\ DOMAIN conns' \subseteq DOMAIN conns /\ lang' = lang
      /\ \A x \in DOMAIN conns' : conns'[x] = conns[x]
  BY DEF ForgetConn, Restrict
<1> QED
  BY <1>1, RowsOneByOne, RowInvKept

LEMMA PollInv ==
  ASSUME NamesInv, NEW opened \in SUBSET Conn, NEW reused \in SUBSET Conn, Poll(opened, reused)
  PROVE  RowsInv'
<1> DEFINE before(c) == IF c \in opened THEN NewRow
                        ELSE IF c \in reused THEN Renewed(conns[c]) ELSE conns[c]
<1>1. TypeOK /\ RowsInv
  BY InvTypes DEF NamesInv
<1>2. /\ DOMAIN conns' = DOMAIN conns \cup opened /\ lang' = lang
      /\ \A c \in DOMAIN conns' : conns'[c] = Whoised(c, Enrich(c, before(c)))
  BY DEF Poll
<1>3. ASSUME NEW c \in DOMAIN conns \cup opened
      PROVE  c \in Conn /\ RowInv(c, before(c))
  <2>1. CASE c \in opened
    BY <2>1, NewRowFacts, BareRow
  <2>2. CASE c \notin opened /\ c \in reused
    <3>1. c \in Conn /\ conns[c] \in Row
      BY <1>1, <1>3, <2>2, RowsOneByOne DEF RowInv
    <3> QED
      BY <2>2, <3>1, RenewedFacts, BareRow
  <2>3. CASE c \notin opened /\ c \notin reused
    BY <1>1, <1>3, <2>3, RowsOneByOne
  <2> QED
    BY <2>1, <2>2, <2>3
<1> HIDE DEF before
<1>4. ASSUME NEW c \in Conn, NEW row, RowInv(c, row)
      PROVE  RowInv(c, Whoised(c, Enrich(c, row)))
  <2> DEFINE d == Enrich(c, row)
             e == Whoised(c, d)
  <2>1. row \in Row /\ row.sni \in Name \cup {None} /\ row.ptr \in Name \cup {None}
    BY <1>4, RowFields DEF RowInv
  <2>2. /\ d \in Row /\ d.sni = row.sni
        /\ row.sni # None => d = row
        /\ d.domain = row.domain \/ d.domain = row.ptr \/ (d.domain \in Label /\ Special(c))
           \/ d.domain \in UniqueName(Remote[c])
    BY <1>1, <2>1, EnrichFacts
  <2>3. UniqueName(Remote[c]) \subseteq Name
    BY <1>1, UniqueIsName
  <2>4. RowInv(c, d)
    BY <1>4, <2>1, <2>2, <2>3, NamesAssumption DEF RowInv
  <2> HIDE DEF d
  <2>5. /\ e \in Row /\ e.sni = d.sni /\ (d.domain # None => e.domain = d.domain)
        /\ (d.domain = None => e.domain \in Name \cup {None})
    BY <1>1, <2>2, WhoisedFacts
  <2> HIDE DEF e
  <2>6. RowInv(c, e)
    BY <2>2, <2>4, <2>5, NamesAssumption DEF RowInv
  <2> QED
    BY <2>6 DEF d, e
<1>5. DOMAIN conns' \subseteq Conn /\ lang' \in Label
  BY <1>1, <1>2 DEF RowsInv
<1> QED
  BY <1>1, <1>2, <1>3, <1>4, <1>5, RowInvKept

LEMMA LookupRoundInv ==
  ASSUME LookupsInv, LookupRound
  PROVE  LookupsInv'
<1>1. /\ clock' = clock /\ whois' = whois
      /\ DOMAIN fails' \subseteq DOMAIN fails /\ \A ip \in DOMAIN fails' : fails'[ip] = fails[ip]
  BY DEF LookupRound, nameVars, Restrict
<1>2. \A ip \in batch' : ip \in Public \ DOMAIN whois /\ Retryable(ip, fails')
  BY DEF LookupRound, Targets
<1> QED
  BY <1>1, <1>2 DEF LookupsInv, BatchIsRetryable, Retryable

LEMMA PruneInv ==
  ASSUME LookupsInv, Prune
  PROVE  LookupsInv'
<1>1. /\ clock' = clock /\ fails' = fails /\ batch' = batch
      /\ DOMAIN whois' \subseteq DOMAIN whois /\ \A ip \in DOMAIN whois' : whois'[ip] = whois[ip]
  <2>1. PICK kept \in {DOMAIN whois, Named} :
          \E left \in IF Cardinality(kept) > MaxNames THEN Trimmed(kept) ELSE {kept} :
            whois' = Restrict(whois, left)
    BY DEF Prune
  <2>2. PICK left \in IF Cardinality(kept) > MaxNames THEN Trimmed(kept) ELSE {kept} :
          whois' = Restrict(whois, left)
    BY <2>1
  <2>3. left \subseteq kept /\ kept \subseteq DOMAIN whois
    BY <2>1, <2>2 DEF Trimmed, Named
  <2> QED
    BY <2>2, <2>3 DEF Prune, nameVars, Restrict
<1> QED
  BY <1>1 DEF LookupsInv, BatchIsRetryable, Retryable

LEMMA LookupFields ==
  ASSUME NEW w \in Lookup
  PROVE  w.ptr \in Name \cup {None} /\ w.asn \in BOOLEAN
<1>1. CASE \E n \in Name \cup {None}, o \in Answers, x \in Answers : w = Result(n, o, x)
  <2>1. PICK n \in Name \cup {None}, o \in Answers, x \in Answers : w = Result(n, o, x)
    BY <1>1
  <2>2. w.ptr = n /\ w.asn = (o = "ok")
    BY <2>1 DEF Result
  <2>3. w.asn \in BOOLEAN
    BY <2>2
  <2> QED
    BY <2>2, <2>3
<1>2. CASE \E o \in Answers : w = [ptr |-> None, asn |-> o = "ok", failed |-> TRUE]
  <2>1. PICK o \in Answers : w = [ptr |-> None, asn |-> o = "ok", failed |-> TRUE]
    BY <1>2
  <2>2. w.ptr = None /\ w.asn = (o = "ok")
    BY <2>1
  <2>3. w.asn \in BOOLEAN
    BY <2>2
  <2> QED
    BY <2>2, <2>3
<1> QED
  BY <1>1, <1>2 DEF Lookup

LEMMA LookupDoneRows ==
  ASSUME RowsInv, NEW ip \in batch, NEW w \in Lookup, LookupDone(ip, w)
  PROVE  RowsInv'
<1> DEFINE new(row) == [row EXCEPT !.ptr = IF w.ptr # None THEN w.ptr ELSE @, !.asn = @ \/ w.asn,
                                   !.domain = IF @ = None THEN w.ptr ELSE @]
<1>1. /\ DOMAIN conns' = DOMAIN conns /\ lang' = lang
      /\ \A c \in DOMAIN conns : conns'[c] = IF Remote[c] # ip THEN conns[c] ELSE new(conns[c])
  BY DEF LookupDone
<1>2. ASSUME NEW c, NEW row, RowInv(c, row)
      PROVE  RowInv(c, new(row))
  <2>1. /\ row \in Row /\ row.domain \in Name \cup Label \cup {None}
        /\ row.sni \in Name \cup {None} /\ row.ptr \in Name \cup {None} /\ row.asn \in BOOLEAN
    BY <1>2, RowFields DEF RowInv
  <2>2. w.ptr \in Name \cup {None} /\ w.asn \in BOOLEAN
    BY LookupFields
  <2>3. /\ new(row) \in Row /\ new(row).sni = row.sni
        /\ new(row).domain = IF row.domain = None THEN w.ptr ELSE row.domain
    BY <2>1, <2>2 DEF Row
  <2> HIDE DEF new
  <2> QED
    BY <1>2, <2>1, <2>2, <2>3, NamesAssumption DEF RowInv
<1> HIDE DEF new
<1> QED
  BY <1>1, <1>2, RowsOneByOne, RowInvKept

LEMMA LookupDoneLookups ==
  ASSUME LookupsInv, clock \in Nat, NEW ip \in batch, NEW w \in Lookup, LookupDone(ip, w)
  PROVE  LookupsInv'
<1>1. batch' = batch \ {ip} /\ clock' = clock /\ ip \in Public \ DOMAIN whois
  BY DEF LookupDone, LookupsInv
<1>2. w.ptr \in Name \cup {None} /\ w.asn \in BOOLEAN
  BY LookupFields
<1>3. CASE w.failed
  <2>1. /\ whois' = whois /\ DOMAIN fails' = DOMAIN fails \cup {ip}
        /\ \A x \in DOMAIN fails' :
             fails'[x] = IF x = ip THEN [n |-> Failed(ip), at |-> clock] ELSE fails[x]
    BY <1>3 DEF LookupDone
  <2>2. Failed(ip) \in 1..MaxRetries
    BY LookupsAssumption DEF LookupsInv, BatchIsRetryable, Retryable, Failed
  <2>3. \A x \in DOMAIN fails' : fails'[x].n \in 1..MaxRetries /\ fails'[x].at \in 0..clock
    BY <2>1, <2>2 DEF LookupsInv
  <2> QED
    BY <1>1, <2>1, <2>3 DEF LookupsInv, BatchIsRetryable, Retryable
<1>4. CASE ~w.failed
  <2>1. /\ DOMAIN fails' \subseteq DOMAIN fails /\ \A x \in DOMAIN fails' : fails'[x] = fails[x]
        /\ DOMAIN whois' = DOMAIN whois \cup {ip}
        /\ \A x \in DOMAIN whois' :
             whois'[x] = IF x = ip THEN [ptr |-> w.ptr, asn |-> w.asn] ELSE whois[x]
    BY <1>4 DEF LookupDone, Restrict
  <2>2. \A x \in DOMAIN whois' : whois'[x] \in Whois
    BY <1>2, <2>1 DEF LookupsInv, Whois
  <2> QED
    BY <1>1, <2>1, <2>2 DEF LookupsInv, BatchIsRetryable, Retryable
<1> QED
  BY <1>3, <1>4
-----------------------------------------------------------------------------
(* Between two steps.                                                       *)

LEMMA InitInv == Init => NamesInv
<1> SUFFICES ASSUME Init PROVE NamesInv
  OBVIOUS
<1>1. dns = Empty /\ conns = Empty /\ whois = Empty /\ fails = Empty /\ DOMAIN Empty = {}
      /\ clock = 0 /\ lang = "en" /\ batch = {} /\ renewed = {}
      /\ heard = [ip \in Addr |-> Unheard]
  BY DEF Init, NamesInit, Empty
<1>2. DnsInv
  BY <1>1, FS_EmptySet, NamesAssumption DEF DnsInv, Unheard
<1>3. RowsInv
  BY <1>1 DEF RowsInv, LabelIsSpecial, SniIsShown, Label
<1> QED
  BY <1>1, <1>2, <1>3 DEF NamesInv, LookupsInv, BatchIsRetryable

\* The parts that a step leaves alone.
LEMMA DnsInvKept ==
  ASSUME DnsInv, UNCHANGED <<clock, dns, heard>>
  PROVE  DnsInv'
  BY DEF DnsInv, Limited, Accounts, Unheard

LEMMA RowsInvKept ==
  ASSUME RowsInv, lang' \in Label, conns' = conns
  PROVE  RowsInv'
  BY DEF RowsInv, LabelIsSpecial, SniIsShown, Special

LEMMA LookupsInvKept ==
  ASSUME LookupsInv, UNCHANGED <<clock, whois, fails, batch>>
  PROVE  LookupsInv'
  BY DEF LookupsInv, BatchIsRetryable, Retryable

LEMMA StepInv == NamesInv /\ [Next]_vars => NamesInv'
<1> SUFFICES ASSUME NamesInv, [Next]_vars PROVE NamesInv'
  OBVIOUS
<1> USE DEF NamesInv
<1>1. ASSUME NEW opened \in SUBSET Conn, NEW reused \in SUBSET Conn, Poll(opened, reused)
      PROVE  NamesInv'
  <2>1. /\ UNCHANGED <<clock, dns, heard>> /\ UNCHANGED <<clock, whois, fails, batch>>
        /\ renewed' = reused
    BY <1>1 DEF Poll
  <2> QED
    BY <1>1, <2>1, PollInv, DnsInvKept, LookupsInvKept
<1>2. CASE renewed' = {} /\ StoreStep /\ UNCHANGED <<whois, fails, batch>>
  <2>1. ASSUME NEW ip \in Addr, NEW n \in Name, NEW ttl \in Ttl, RememberName(ip, n, ttl)
        PROVE  NamesInv'
    <3>1. UNCHANGED <<clock, lang, conns>> /\ lang \in Label
      BY <2>1 DEF RememberName, RowsInv
    <3> QED
      BY <1>2, <2>1, <3>1, RememberNameInv, RowsInvKept, LookupsInvKept
  <2>2. ASSUME NEW c \in Conn, NEW sni \in Name \cup {None}, SeePacket(c, sni)
        PROVE  NamesInv'
    <3>1. UNCHANGED <<clock, dns, heard>>
      BY <2>2 DEF SeePacket
    <3> QED
      BY <1>2, <2>2, <3>1, SeePacketInv, DnsInvKept, LookupsInvKept
  <2>3. ASSUME NEW c \in DOMAIN conns, ForgetConn(c)
        PROVE  NamesInv'
    <3>1. UNCHANGED <<clock, dns, heard>>
      BY <2>3 DEF ForgetConn
    <3> QED
      BY <1>2, <2>3, <3>1, ForgetConnInv, DnsInvKept, LookupsInvKept
  <2> QED
    BY <1>2, <2>1, <2>2, <2>3 DEF StoreStep
<1>3. CASE renewed' = {} /\ (LookupRound \/ Prune)
  <2>1. UNCHANGED <<clock, lang, dns, conns, heard>> /\ lang \in Label
    BY <1>3 DEF LookupRound, Prune, nameVars, RowsInv
  <2> QED
    BY <1>3, <2>1, LookupRoundInv, PruneInv, DnsInvKept, RowsInvKept
<1>4. CASE renewed' = {} /\ Restart
  BY <1>4, RestartInv
<1>5. CASE renewed' = {} /\ Tick
  <2>1. lang' = lang /\ conns' = conns /\ lang \in Label
    BY <1>5 DEF Tick, RowsInv
  <2> QED
    BY <1>5, <2>1, TickInv, RowsInvKept
<1>6. CASE renewed' = {} /\ SetLanguage
  <2>1. /\ UNCHANGED <<clock, dns, heard>> /\ UNCHANGED <<clock, whois, fails, batch>>
        /\ conns' = conns /\ lang' \in Label
    BY <1>6 DEF SetLanguage
  <2> QED
    BY <1>6, <2>1, DnsInvKept, RowsInvKept, LookupsInvKept
<1>7. ASSUME NEW ip \in batch, NEW w \in Lookup, renewed' = {}, LookupDone(ip, w)
      PROVE  NamesInv'
  <2>1. UNCHANGED <<clock, dns, heard>>
    BY <1>7 DEF LookupDone
  <2>2. clock \in Nat
    BY NamesAssumption DEF DnsInv
  <2> QED
    BY <1>7, <2>1, <2>2, LookupDoneRows, LookupDoneLookups, DnsInvKept
<1>8. CASE UNCHANGED vars
  <2>1. /\ UNCHANGED <<clock, dns, heard>> /\ UNCHANGED <<clock, whois, fails, batch>>
        /\ conns' = conns /\ lang' \in Label /\ renewed' = renewed
    BY <1>8 DEF vars, nameVars, lookupVars, RowsInv
  <2> QED
    BY <2>1, DnsInvKept, RowsInvKept, LookupsInvKept
<1> QED
  BY <1>1, <1>2, <1>3, <1>4, <1>5, <1>6, <1>7, <1>8 DEF Next
-----------------------------------------------------------------------------
(* What a step may do to the name of a connection.                          *)

\* How an action other than a poll changes the row of a connection that stays:
\* it shows the SNI that it has just learnt, or it fills in a PTR name.
NamedBySni(new) == new.sni # None /\ new.domain = new.sni
NamedByPtr(row, new) ==
  /\ new.sni = row.sni
  /\ new.domain = row.domain \/ (row.domain = None /\ new.domain \in {None, new.ptr})

LEMMA SeenRow ==
  ASSUME RowsInv, NEW c \in Conn, NEW sni \in Name \cup {None}, SeePacket(c, sni), NEW x \in Both
  PROVE  conns'[x] = conns[x] \/ NamedBySni(conns'[x])
<1> DEFINE new == [conns[c] EXCEPT !.sni = sni, !.domain = sni]
<1>1. x \in DOMAIN conns /\ conns[x] \in Row
  BY DEF Both, RowsInv
<1>2. conns'[x] = conns[x] \/ (x = c /\ sni # None /\ conns'[x] = new)
  BY <1>1 DEF SeePacket
<1>3. ASSUME x = c, sni # None PROVE NamedBySni(new)
  BY <1>1, <1>3 DEF Row, NamedBySni
<1> HIDE DEF new
<1> QED
  BY <1>2, <1>3

LEMMA LookedUpRow ==
  ASSUME RowsInv, NEW ip, NEW w \in Lookup, LookupDone(ip, w), NEW x \in Both
  PROVE  NamedByPtr(conns[x], conns'[x])
<1> DEFINE row == conns[x]
           new == [row EXCEPT !.ptr = IF w.ptr # None THEN w.ptr ELSE @, !.asn = @ \/ w.asn,
                              !.domain = IF @ = None THEN w.ptr ELSE @]
<1>1. x \in DOMAIN conns /\ row \in Row
  BY DEF Both, RowsInv
<1>2. conns'[x] = IF Remote[x] # ip THEN row ELSE new
  BY <1>1 DEF LookupDone
<1> HIDE DEF row
<1>3. /\ new.sni = row.sni /\ new.ptr = (IF w.ptr # None THEN w.ptr ELSE row.ptr)
      /\ new.domain = IF row.domain = None THEN w.ptr ELSE row.domain
  BY <1>1 DEF Row
<1> HIDE DEF new
<1>4. NamedByPtr(row, row) /\ NamedByPtr(row, new)
  BY <1>3 DEF NamedByPtr
<1> QED
  BY <1>2, <1>4 DEF row

\* What a poll makes of it, told by what Enrich and Whoised do.
LEMMA PolledRow ==
  ASSUME NamesInv, NEW opened \in SUBSET Conn, NEW reused \in SUBSET Conn,
         Poll(opened, reused), NEW c \in Both
  PROVE  LET row == IF c \in reused THEN Renewed(conns[c]) ELSE conns[c]
         IN  /\ c \in Conn /\ row \in Row /\ Enrich(c, row) \in Row
             /\ conns'[c] = Whoised(c, Enrich(c, row))
<1>1. c \in DOMAIN conns /\ c \in Conn /\ conns[c] \in Row /\ c \notin opened
  BY DEF Both, NamesInv, RowsInv, Poll
<1> DEFINE row == IF c \in reused THEN Renewed(conns[c]) ELSE conns[c]
<1>2. row \in Row
  BY <1>1, RenewedFacts
<1>3. conns'[c] = Whoised(c, Enrich(c, row))
  BY <1>1 DEF Poll
<1> HIDE DEF row
<1>4. Enrich(c, row) \in Row
  BY <1>1, <1>2, InvTypes, EnrichFacts
<1> QED
  BY <1>1, <1>2, <1>3, <1>4 DEF row

\* A step of another kind leaves the rows that stay alone.
LEMMA QuietStep ==
  ASSUME [Next]_vars, NEW c \in Both
  PROVE  \/ conns'[c] = conns[c]
         \/ \E opened, reused \in SUBSET Conn : Poll(opened, reused)
         \/ \E x \in Conn, sni \in Name \cup {None} : SeePacket(x, sni)
         \/ \E ip \in batch, w \in Lookup : LookupDone(ip, w)
<1>1. ASSUME NEW x, ForgetConn(x) PROVE conns'[c] = conns[c]
  BY <1>1 DEF ForgetConn, Both, Restrict
<1>2. ASSUME NEW ip, NEW n, NEW ttl, RememberName(ip, n, ttl) PROVE conns'[c] = conns[c]
  BY <1>2 DEF RememberName
<1>3. CASE LookupRound \/ Prune \/ Tick \/ SetLanguage \/ UNCHANGED vars
  BY <1>3 DEF LookupRound, Prune, Tick, SetLanguage, vars, nameVars
<1>4. CASE Restart
  BY <1>4 DEF Restart, Both, Empty
<1> QED
  BY <1>1, <1>2, <1>3, <1>4 DEF Next, StoreStep

LEMMA UniqueStep ==
  ASSUME NamesInv, [Next]_vars, NEW c \in Both,
         conns'[c].domain \in Name \ {conns[c].domain, conns'[c].ptr}, conns'[c].sni = None
  PROVE  {n \in Name : heard[Remote[c]][n] > clock} = {conns'[c].domain}
<1>1. None \notin Name /\ Name \cap Label = {} /\ Remote \in [Conn -> Addr] /\ c \in Conn
      /\ RowsInv /\ DnsInv /\ TypeOK
  BY NamesAssumption, InvTypes DEF NamesInv, RowsInv, Both
<1>2. ~NamedBySni(conns'[c]) /\ ~NamedByPtr(conns[c], conns'[c]) /\ conns'[c] # conns[c]
  BY <1>1 DEF NamedBySni, NamedByPtr
<1>3. PICK opened \in SUBSET Conn, reused \in SUBSET Conn : Poll(opened, reused)
  BY <1>1, <1>2, QuietStep, SeenRow, LookedUpRow
<1> DEFINE row == IF c \in reused THEN Renewed(conns[c]) ELSE conns[c]
           d   == Enrich(c, row)
           e   == Whoised(c, d)
<1>4. row \in Row /\ d \in Row /\ conns'[c] = e
  BY <1>3, PolledRow
<1>5. row.domain \in {None, conns[c].domain}
  BY <1>1, RenewedFacts DEF RowsInv, Both
<1> HIDE DEF row
<1>6. /\ d.sni = row.sni /\ d.ptr = row.ptr
      /\ d.domain = row.domain \/ d.domain = row.ptr \/ d.domain \in Label
         \/ d.domain \in UniqueName(Remote[c])
      /\ row.sni = None /\ d.domain = None => row.ptr = None
  BY <1>1, <1>4, EnrichFacts
<1> HIDE DEF d
<1>7. /\ e.sni = d.sni /\ (d.domain # None => e.domain = d.domain)
      /\ (d.domain = None => (d.ptr = None => e.domain \in {None, e.ptr}))
      /\ (d.ptr # None => e.ptr = d.ptr)
  BY <1>1, <1>4, WhoisedFacts
<1> HIDE DEF e
<1>8. e.sni = None /\ e.domain \in Name /\ e.domain # conns[c].domain /\ e.domain # e.ptr
  BY <1>4
<1>9. d.domain # None /\ e.domain = d.domain
  BY <1>1, <1>6, <1>7, <1>8
<1>10. d.domain \in UniqueName(Remote[c])
  BY <1>1, <1>5, <1>6, <1>7, <1>8, <1>9
<1> QED
  BY <1>1, <1>4, <1>9, <1>10, UniqueWasAlone

LEMMA DnsNameStep ==
  ASSUME NamesInv, [Next]_vars, NEW c \in Both,
         conns[c].domain \in Name \ {conns[c].ptr},
         conns'[c].sni = conns[c].sni, c \notin renewed'
  PROVE  conns'[c].domain = conns[c].domain
<1> DEFINE row == conns[c]
<1>1. /\ None \notin Name /\ Name \cap Label = {} /\ c \in DOMAIN conns /\ c \in Conn
      /\ row \in Row /\ RowsInv /\ TypeOK /\ (row.sni # None => row.domain = row.sni)
  BY NamesAssumption, InvTypes DEF NamesInv, RowsInv, SniIsShown, Both
<1>2. CASE NamedBySni(conns'[c]) \/ NamedByPtr(row, conns'[c]) \/ conns'[c] = row
  BY <1>1, <1>2 DEF NamedBySni, NamedByPtr
<1>3. ASSUME NEW opened \in SUBSET Conn, NEW reused \in SUBSET Conn, Poll(opened, reused)
      PROVE  conns'[c].domain = row.domain
  <2>1. c \notin reused
    BY <1>3 DEF Poll
  <2>2. conns'[c] = Whoised(c, Enrich(c, row))
    BY <1>3, <2>1, PolledRow
  <2>3. Enrich(c, row) = row
    <3>1. Frozen(c, row)
      BY <1>1 DEF Frozen
    <3> HIDE DEF row
    <3> QED
      BY <1>1, <3>1, EnrichFacts
  <2>4. row.domain # None
    BY <1>1
  <2> HIDE DEF row
  <2> QED
    BY <1>1, <2>2, <2>3, <2>4, WhoisedFacts
<1> QED
  BY <1>1, <1>2, <1>3, QuietStep, SeenRow, LookedUpRow

LEMMA BestNameStep ==
  ASSUME NamesInv, Poll({}, {}), NEW c \in DOMAIN conns, Poorer(conns[c])
  PROVE  LET unique == UniqueName(Remote[c])
         IN  /\ unique # {} => conns'[c].domain \in unique
             /\ Remote[c] \in DOMAIN whois /\ whois[Remote[c]].ptr # None =>
                  conns'[c].domain # None
<1> DEFINE row == conns[c]
           d   == Enrich(c, row)
           e   == Whoised(c, d)
<1>1. /\ None \notin Name /\ Name \cap Label = {} /\ c \in Conn /\ row \in Row /\ TypeOK
      /\ row.sni = None /\ (row.domain \in Label => Special(c))
      /\ UniqueName(Remote[c]) \subseteq Name
  BY NamesAssumption, InvTypes, UniqueIsName DEF NamesInv, RowsInv, LabelIsSpecial, Poorer
<1>2. ~Frozen(c, row)
  BY <1>1 DEF Frozen, Poorer
<1>3. c \in Both
  BY DEF Both, Poll
<1>4. conns'[c] = e /\ d \in Row
  BY <1>3, PolledRow
<1> HIDE DEF row
<1>5. UniqueName(Remote[c]) # {} => d.domain \in UniqueName(Remote[c])
  BY <1>1, <1>2, EnrichFacts
<1> HIDE DEF d
<1>6. /\ (d.domain # None => e.domain = d.domain)
      /\ (Remote[c] \in DOMAIN whois /\ whois[Remote[c]].ptr # None => e.domain # None)
  BY <1>1, <1>4, WhoisedFacts
<1> HIDE DEF e
<1> QED
  BY <1>1, <1>4, <1>5, <1>6
-----------------------------------------------------------------------------
(* The theorems.                                                            *)

(* The invariant holds in every reachable state: the maps stay within their *)
(* limits, every entry of Store::dns accounts for the answers that are      *)
(* still valid, and what waits for an answer may be tried once more.        *)
THEOREM NamesInvariant == Spec => []NamesInv
<1>1. Init => NamesInv
  BY InitInv
<1>2. NamesInv /\ [Next]_vars => NamesInv'
  BY StepInv
<1> QED
  BY <1>1, <1>2, PTL DEF Spec

(* Store::dns never holds more addresses, nor one address more names, than  *)
(* it may, and a failed address is counted to MaxRetries at most.           *)
THEOREM NamesTypes == Spec => []TypeOK
<1>1. NamesInv => TypeOK
  BY InvTypes
<1> QED
  BY <1>1, NamesInvariant, PTL

(* A connection whose SNI is known is shown with it, whatever enrich_names, *)
(* apply_whois and whois_loop do before or after.                           *)
THEOREM SniIsAlwaysShown == Spec => []SniIsShown
<1>1. NamesInv => SniIsShown
  BY DEF NamesInv, RowsInv
<1> QED
  BY <1>1, NamesInvariant, PTL

(* enrich_names gives a DNS name to a connection only while it is the one   *)
(* valid name of all that were answered for the address.                    *)
THEOREM DnsNamesWereUnique == Spec => DnsNameWasUnique
<1>1. NamesInv /\ [Next]_vars =>
        [\A c \in Both :
           LET row == conns'[c] IN
           /\ row.domain \in Name \ {conns[c].domain, row.ptr}
           /\ row.sni = None
           => {n \in Name : heard[Remote[c]][n] > clock} = {row.domain}]_vars
  BY UniqueStep
<1> QED
  BY <1>1, NamesInvariant, PTL DEF Spec, DnsNameWasUnique

(* A DNS name stays until SNI replaces it or another socket takes the tuple. *)
THEOREM DnsNamesStay == Spec => DnsNameStays
<1>1. NamesInv /\ [Next]_vars =>
        [\A c \in Both :
           LET row == conns[c] IN
           /\ row.domain \in Name \ {row.ptr}
           /\ conns'[c].sni = row.sni /\ c \notin renewed'
           => conns'[c].domain = row.domain]_vars
  BY DnsNameStep
<1> QED
  BY <1>1, NamesInvariant, PTL DEF Spec, DnsNameStays

(* No poll leaves a connection without a name that is known for its address. *)
THEOREM PollsGiveBestName == Spec => PollGivesBestName
<1>1. NamesInv /\ [Next]_vars =>
        [Poll({}, {}) =>
           \A c \in DOMAIN conns : Poorer(conns[c]) =>
             LET unique == UniqueName(Remote[c]) IN
             /\ unique # {} => conns'[c].domain \in unique
             /\ Remote[c] \in DOMAIN whois /\ whois[Remote[c]].ptr # None =>
                  conns'[c].domain # None]_vars
  BY BestNameStep
<1> QED
  BY <1>1, NamesInvariant, PTL DEF Spec, PollGivesBestName
=============================================================================
